------------------------ MODULE PlayerAnalytics_proofs ------------------------
(***************************************************************************)
(* Theorems about PlayerAnalytics, for any generations, archives,          *)
(* processes and bounds, from an empty store or with any generations       *)
(* announced before.                                                       *)
(***************************************************************************)
EXTENDS PlayerAnalytics, FiniteSetTheorems, TLAPS

Labels == {"IDLE"} \cup UploadSteps \cup PublishSteps \cup WorkSteps

(* Whoever is busy knows with what.                                          *)
Busy ==
    /\ \A p \in Processes : pc[p] # "IDLE" => gen[p] \in Generations
    /\ \A u \in Uploads   : pc[u] # "IDLE" => file[u] \in Packages

(* Whose delivery is not settled works on it.                                *)
Settled == \A w \in attached : pc[w] \in WorkSteps

TypeInv == TypeOK /\ Busy

-----------------------------------------------------------------------------
(* Moving one process on, keeping what it knows.                             *)
LEMMA Moved ==
    ASSUME TypeInv, NEW p \in Processes, NEW from, NEW to \in Labels,
           Go(p, from, to), from # "IDLE", UNCHANGED <<gen, file>>
    PROVE  pc' \in [Processes -> Labels] /\ Busy'
<1>1. pc' \in [Processes -> Labels]
    BY DEF TypeInv, TypeOK, Go, Labels
<1>2. \A q \in Processes : pc'[q] # "IDLE" => pc[q] # "IDLE"
    BY DEF TypeInv, TypeOK, Go
<1>3. Uploads \subseteq Processes
    BY DEF Processes
<1>4. QED
    BY <1>1, <1>2, <1>3 DEF TypeInv, Busy

(* Forgetting what one process was doing.                                    *)
LEMMA Forgotten ==
    ASSUME TypeInv, NEW p \in Processes, Forget(p)
    PROVE  /\ pc' \in [Processes -> Labels] /\ Busy'
           /\ gen'   \in [Processes -> Generations \cup {NoGeneration}]
           /\ file'  \in [Uploads -> Packages \cup {NoPackage}]
           /\ known' \in [Uploads -> Verdicts \cup {"none"}]
           /\ seen'  \in [Uploads -> States]
           /\ doomed'   \in [Workers -> SUBSET Generations]
           /\ returned' \in [Workers -> 0..DeliveryLimit]
<1>1. pc' \in [Processes -> Labels] /\ gen' \in [Processes -> Generations \cup {NoGeneration}]
    BY DEF TypeInv, TypeOK, Forget, Labels
<1>2. /\ file'  \in [Uploads -> Packages \cup {NoPackage}]
      /\ known' \in [Uploads -> Verdicts \cup {"none"}]
      /\ seen'  \in [Uploads -> States]
    BY DEF TypeInv, TypeOK, Forget, States
<1>3. doomed' \in [Workers -> SUBSET Generations]
    BY DEF TypeInv, TypeOK, Forget
<1>4. returned' \in [Workers -> 0..DeliveryLimit]
    BY BoundsAssumption DEF TypeInv, TypeOK, Forget
<1>5. \A q \in Processes : pc'[q] # "IDLE" => q # p /\ pc[q] # "IDLE" /\ gen'[q] = gen[q]
    BY DEF TypeInv, TypeOK, Forget
<1>6. \A u \in Uploads : u # p => file'[u] = file[u]
    BY DEF Forget
<1>7. Uploads \subseteq Processes
    BY DEF Processes
<1>8. Busy'
    BY <1>5, <1>6, <1>7 DEF TypeInv, Busy
<1>9. QED
    BY <1>1, <1>2, <1>3, <1>4, <1>8

LEMMA Counted ==
    ASSUME NEW S, NEW q \in [S -> Nat], NEW m \in S
    PROVE  /\ [q EXCEPT ![m] = @ + 1] \in [S -> Nat]
           /\ q[m] > 0 => [q EXCEPT ![m] = @ - 1] \in [S -> Nat]
OBVIOUS

LEMMA Written ==
    ASSUME NEW r \in [Generations -> Receipts], NEW g, NEW v \in Verdicts
    PROVE  [r EXCEPT ![g].state = v] \in [Generations -> Receipts]
BY DEF Receipts

LEMMA Announced ==
    ASSUME NEW r \in [Generations -> Receipts], NEW g
    PROVE  /\ [r EXCEPT ![g].published = TRUE] \in [Generations -> Receipts]
           /\ \A h \in Generations :
                 /\ [r EXCEPT ![g].published = TRUE][h].package = r[h].package
                 /\ [r EXCEPT ![g].published = TRUE][h].state = r[h].state
BY DEF Receipts

LEMMA Marked ==
    ASSUME NEW r \in [Generations -> Receipts], NEW g, NEW v, NEW h \in Generations
    PROVE  /\ [r EXCEPT ![g].state = v][h].package = r[h].package
           /\ [r EXCEPT ![g].state = v][h].state = IF h = g THEN v ELSE r[h].state
BY DEF Receipts

(* A message goes back to its queue or to the dead letter queue.             *)
LEMMA GivenBack ==
    ASSUME TypeInv, NEW w, GiveBack(w), pc[w] # "IDLE", w \in Processes
    PROVE  /\ attached' \subseteq Workers /\ dead' \subseteq Generations
           /\ queue' \in [Generations \X (0..DeliveryLimit) -> Nat]
<1>1. attached' \subseteq Workers
    BY DEF TypeInv, TypeOK, GiveBack
<1>2. gen[w] \in Generations
    BY DEF TypeInv, Busy
<1>3. CASE w \notin attached
    BY <1>1, <1>3 DEF TypeInv, TypeOK, GiveBack, mail
<1>4. CASE w \in attached /\ returned[w] < DeliveryLimit
    <2>1. returned[w] + 1 \in 0..DeliveryLimit
        BY <1>4, BoundsAssumption DEF TypeInv, TypeOK
    <2>2. <<gen[w], returned[w] + 1>> \in Generations \X (0..DeliveryLimit)
        BY <1>2, <2>1
    <2>3. /\ queue' = [queue EXCEPT ![<<gen[w], returned[w] + 1>>] = @ + 1]
          /\ dead' = dead
        BY <1>4 DEF GiveBack
    <2>4. queue \in [Generations \X (0..DeliveryLimit) -> Nat] /\ dead \subseteq Generations
        BY DEF TypeInv, TypeOK
    <2>5. queue' \in [Generations \X (0..DeliveryLimit) -> Nat]
        <3> DEFINE S == Generations \X (0..DeliveryLimit)
                   m == <<gen[w], returned[w] + 1>>
        <3>1. m \in S /\ queue \in [S -> Nat] /\ queue' = [queue EXCEPT ![m] = @ + 1]
            BY <2>2, <2>3, <2>4
        <3> HIDE DEF S, m
        <3>2. queue' \in [S -> Nat]
            BY ONLY <3>1, Counted
        <3>3. QED
            BY ONLY <3>2 DEF S
    <2>6. QED
        BY <1>1, <2>3, <2>4, <2>5
<1>5. CASE w \in attached /\ ~(returned[w] < DeliveryLimit)
    BY <1>1, <1>2, <1>5 DEF TypeInv, TypeOK, GiveBack
<1>6. QED
    BY <1>3, <1>4, <1>5

-----------------------------------------------------------------------------
(* The initial states.                                                       *)
AnyInit == \E uploaded \in SUBSET Generations : InitWith(uploaded)
AnySpec == AnyInit /\ [][Next]_vars

LEMMA SpecsStart == Spec \/ BacklogSpec => AnySpec
BY DEF Spec, BacklogSpec, Init, AnySpec, AnyInit

LEMMA TypeInit == AnyInit => TypeInv
<1> SUFFICES ASSUME NEW uploaded \in SUBSET Generations, InitWith(uploaded) PROVE TypeInv
    BY DEF AnyInit
<1>1. package \in [Generations -> Packages \cup {NoPackage}]
    BY DEF InitWith
<1>2. /\ receipt = [g \in Generations |->
                      IF g \in uploaded
                      THEN [package |-> package[g], state |-> "received", published |-> TRUE]
                      ELSE NoReceipt]
      /\ dirs = [g \in Generations |-> IF g \in uploaded THEN {"incoming"} ELSE {}]
    BY DEF InitWith
<1>3. NoReceipt \in Receipts
    BY DEF NoReceipt, Receipts
<1>4. receipt \in [Generations -> Receipts] /\ dirs \in [Generations -> SUBSET Places]
    <2>1. ASSUME NEW g \in Generations
          PROVE  [package |-> package[g], state |-> "received", published |-> TRUE] \in Receipts
        BY <1>1 DEF Receipts, Verdicts
    <2>2. QED
        BY <1>2, <1>3, <2>1 DEF Places
<1>5. queue \in [Generations \X (0..DeliveryLimit) -> Nat]
    BY DEF InitWith
<1>6. 0 \in 0..DeliveryLimit /\ "not_found" \in States
    BY BoundsAssumption DEF States
<1>7. returned \in [Workers -> 0..DeliveryLimit] /\ seen \in [Uploads -> States]
    BY <1>6 DEF InitWith
<1>8. overlap \in BOOLEAN
    BY DEF InitWith
<1>9. TypeOK
    BY <1>1, <1>4, <1>5, <1>7, <1>8 DEF InitWith, TypeOK
<1>10. Busy
    BY DEF InitWith, Busy, Processes
<1>11. QED
    BY <1>9, <1>10 DEF TypeInv

(* The steps of an upload.                                                   *)
LEMMA TypeUpload ==
    ASSUME TypeInv, NEW u \in Uploads, UploadNext(u)
    PROVE  TypeInv'
<1> USE DEF files, locks, mail, reads, work, Local
<1>1. u \in Processes
    BY DEF Processes
<1>2. TypeOK
    BY DEF TypeInv
<1>3. ASSUME NEW g \in Generations, NEW p \in Packages, Upload(u, g, p)
      PROVE  TypeInv'
    <2>1. receipt[g].state \in Verdicts \cup {"none"}
        BY <1>2 DEF TypeOK, Receipts
    <2>2. TypeOK'
        BY <1>1, <1>2, <1>3, <2>1 DEF TypeOK, Upload, Go, UploadSteps
    <2>3. Busy'
        BY <1>1, <1>3, <1>2 DEF TypeInv, Busy, TypeOK, Upload, Go, Processes
    <2>4. QED
        BY <2>2, <2>3 DEF TypeInv
<1>4. CASE Look(u)
    <2>1. Busy' /\ pc' \in [Processes -> Labels]
        BY <1>1, <1>4, Moved DEF Look, Labels, UploadSteps
    <2>2. seen' \in [Uploads -> States]
        BY <1>2, <1>4 DEF Look, TypeOK, Status, States, Places
    <2>3. QED
        BY <1>2, <1>4, <2>1, <2>2 DEF Look, TypeInv, TypeOK, Labels
<1>5. CASE LinkPackage(u)
    <2>1. Busy' /\ pc' \in [Processes -> Labels]
        BY <1>1, <1>5, Moved DEF LinkPackage, Labels, UploadSteps
    <2>2. seen' \in [Uploads -> States] /\ known' \in [Uploads -> Verdicts \cup {"none"}]
        BY <1>2, <1>5 DEF LinkPackage, Found, TypeOK, States, Places
    <2>3. package' \in [Generations -> Packages \cup {NoPackage}]
        BY <1>2, <1>5 DEF LinkPackage, TypeOK
    <2>4. QED
        BY <1>2, <1>5, <2>1, <2>2, <2>3 DEF LinkPackage, TypeInv, TypeOK, Labels
<1>6. CASE EnsureReceipt(u)
    <2>1. Busy' /\ pc' \in [Processes -> Labels]
        BY <1>1, <1>6, Moved DEF EnsureReceipt, Labels, UploadSteps
    <2>2. receipt' \in [Generations -> Receipts]
        BY <1>2, <1>6 DEF EnsureReceipt, TypeOK, Receipts, Verdicts
    <2>3. QED
        BY <1>2, <1>6, <2>1, <2>2 DEF EnsureReceipt, TypeInv, TypeOK, Labels
<1>7. CASE Extract(u)
    <2>1. CASE Forget(u)
        BY <1>1, <1>2, <1>7, <2>1, Forgotten DEF Extract, TypeInv, TypeOK, Labels
    <2>2. CASE Go(u, "RECEIPTED", "EXTRACTED") /\ UNCHANGED <<gen, reads, doomed, returned>>
        <3>1. Busy' /\ pc' \in [Processes -> Labels]
            BY <1>1, <2>2, Moved DEF Labels, UploadSteps
        <3>2. QED
            BY <1>2, <1>7, <2>2, <3>1 DEF Extract, TypeInv, TypeOK, Labels
    <2>3. QED
        BY <1>7, <2>1, <2>2 DEF Extract
<1>8. CASE TakeGate(u)
    <2>1. Busy' /\ pc' \in [Processes -> Labels]
        BY <1>1, <1>8, Moved DEF TakeGate, Labels, UploadSteps
    <2>2. QED
        BY <1>2, <1>8, <2>1 DEF TakeGate, TypeInv, TypeOK, Labels
<1>9. CASE Promote(u)
    <2>1. Busy' /\ pc' \in [Processes -> Labels]
        BY <1>1, <1>9, Moved DEF Promote, Labels, UploadSteps
    <2>2. dirs' \in [Generations -> SUBSET Places]
        BY <1>2, <1>9 DEF Promote, TypeOK, Places
    <2>3. QED
        BY <1>2, <1>9, <2>1, <2>2 DEF Promote, TypeInv, TypeOK, Labels
<1>10. CASE DropGate(u)
    <2>1. gate' \in [Generations -> {"FREE", "HELD", "STALE"}]
        BY <1>2, <1>10 DEF DropGate, TypeOK
    <2>2. Forget(u) /\ UNCHANGED <<files, lock, mail, attached, overlap>>
        BY <1>10 DEF DropGate
    <2>3. QED
        BY <1>1, <1>2, <2>1, <2>2, Forgotten DEF TypeInv, TypeOK, Labels
<1>11. QED
    BY <1>3, <1>4, <1>5, <1>6, <1>7, <1>8, <1>9, <1>10 DEF UploadNext

(* The steps of a publication.                                               *)
LEMMA TypePublish ==
    ASSUME TypeInv, NEW b \in Publishers, PublishNext(b)
    PROVE  TypeInv'
<1> USE DEF files, locks, mail, reads, work, Local
<1>1. b \in Processes
    BY DEF Processes
<1>2. TypeOK
    BY DEF TypeInv
<1>3. ASSUME NEW g \in Generations, StartPublish(b, g)
      PROVE  TypeInv'
    <2>1. TypeOK'
        BY <1>1, <1>2, <1>3 DEF TypeOK, StartPublish, Go, PublishSteps
    <2>2. Busy'
        BY <1>1, <1>2, <1>3, ProcessesAssumption DEF TypeInv, Busy, TypeOK, StartPublish, Go, Processes
    <2>3. QED
        BY <2>1, <2>2 DEF TypeInv
<1>4. CASE Publish(b)
    <2>1. Busy' /\ pc' \in [Processes -> Labels]
        BY <1>1, <1>4, Moved DEF Publish, Labels, PublishSteps
    <2>2. <<gen[b], 0>> \in Generations \X (0..DeliveryLimit)
        <3>1. gen[b] \in Generations
            BY <1>1, <1>4 DEF TypeInv, Busy, Publish
        <3>2. 0 \in 0..DeliveryLimit
            BY BoundsAssumption
        <3>3. QED
            BY <3>1, <3>2
    <2>3. queue' = queue \/ queue' = [queue EXCEPT ![<<gen[b], 0>>] = @ + 1]
        BY <1>4 DEF Publish
    <2>4. queue \in [Generations \X (0..DeliveryLimit) -> Nat]
        BY <1>2 DEF TypeOK
    <2>5. queue' \in [Generations \X (0..DeliveryLimit) -> Nat]
        <3> DEFINE S == Generations \X (0..DeliveryLimit)
                   m == <<gen[b], 0>>
        <3>1. m \in S /\ queue \in [S -> Nat] /\ (queue' = queue \/ queue' = [queue EXCEPT ![m] = @ + 1])
            BY <2>2, <2>3, <2>4
        <3> HIDE DEF S, m
        <3>2. queue' \in [S -> Nat]
            BY ONLY <3>1, Counted
        <3>3. QED
            BY ONLY <3>2 DEF S
    <2>6. UNCHANGED <<files, locks, dead, gen, reads, work>>
        BY <1>4 DEF Publish
    <2>7. TypeOK'
        BY <1>2, <2>1, <2>5, <2>6, SMTT(30) DEF TypeOK, Labels
    <2>8. QED
        BY <2>1, <2>7 DEF TypeInv
<1>5. CASE MarkPublished(b)
    <2>1. Busy' /\ pc' \in [Processes -> Labels]
        BY <1>1, <1>5, Moved DEF MarkPublished, Labels, PublishSteps
    <2>2. receipt' \in [Generations -> Receipts]
        <3>1. receipt \in [Generations -> Receipts]
            BY <1>2 DEF TypeOK
        <3>2. receipt' = [receipt EXCEPT ![gen[b]].published = TRUE]
            BY <1>5 DEF MarkPublished
        <3>3. QED
            BY <3>1, <3>2, Announced
    <2>3. QED
        BY <1>2, <1>5, <2>1, <2>2 DEF MarkPublished, TypeInv, TypeOK, Labels
<1>6. QED
    BY <1>3, <1>4, <1>5 DEF PublishNext

(* The steps of a worker.                                                    *)
LEMMA TypeWork ==
    ASSUME TypeInv, Settled, NEW w \in Workers, WorkNext(w)
    PROVE  TypeInv'
<1> USE DEF files, locks, mail, reads, work, Local
<1>1. w \in Processes
    BY DEF Processes
<1>2. TypeOK
    BY DEF TypeInv
<1>3. ASSUME NEW g \in Generations, NEW n \in 0..DeliveryLimit, Deliver(w, g, n)
      PROVE  TypeInv'
    <2>1. <<g, n>> \in Generations \X (0..DeliveryLimit)
        OBVIOUS
    <2>2. queue' = [queue EXCEPT ![<<g, n>>] = @ - 1] /\ queue[<<g, n>>] > 0
        BY <1>3 DEF Deliver
    <2>3. queue \in [Generations \X (0..DeliveryLimit) -> Nat]
        BY <1>2 DEF TypeOK
    <2>4. queue' \in [Generations \X (0..DeliveryLimit) -> Nat]
        <3> DEFINE S == Generations \X (0..DeliveryLimit)
                   m == <<g, n>>
        <3>1. m \in S /\ queue \in [S -> Nat] /\ queue[m] > 0 /\ queue' = [queue EXCEPT ![m] = @ - 1]
            BY <2>1, <2>2, <2>3
        <3> HIDE DEF S, m
        <3>2. queue' \in [S -> Nat]
            BY ONLY <3>1, Counted
        <3>3. QED
            BY ONLY <3>2 DEF S
    <2>5. /\ pc' \in [Processes -> Labels] /\ gen' \in [Processes -> Generations \cup {NoGeneration}]
          /\ returned' \in [Workers -> 0..DeliveryLimit]
          /\ attached' \subseteq Workers /\ overlap' \in BOOLEAN
        BY <1>1, <1>2, <1>3 DEF TypeOK, Deliver, Go, Labels, WorkSteps
    <2>6. TypeOK'
        BY <1>2, <1>3, <2>4, <2>5 DEF TypeOK, Deliver, Labels
    <2>7. Busy'
        BY <1>1, <1>2, <1>3, ProcessesAssumption DEF TypeInv, Busy, TypeOK, Deliver, Go, Processes
    <2>8. QED
        BY <2>6, <2>7 DEF TypeInv
<1>4. CASE Decide(w)
    <2>1. Busy' /\ pc' \in [Processes -> Labels]
        BY <1>1, <1>4, Moved DEF Decide, Labels, WorkSteps
    <2>2. QED
        BY <1>2, <1>4, <2>1 DEF Decide, TypeInv, TypeOK, Labels
<1>5. CASE Reject(w) \/ Accept(w)
    <2>1. Busy' /\ pc' \in [Processes -> Labels]
        BY <1>1, <1>5, Moved DEF Reject, Accept, Transition, Labels, WorkSteps
    <2>2. dirs' \in [Generations -> SUBSET Places]
        BY <1>2, <1>5 DEF Reject, Accept, Transition, TypeOK, Places
    <2>3. QED
        BY <1>2, <1>5, <2>1, <2>2 DEF Reject, Accept, Transition, TypeInv, TypeOK, Labels
<1>6. CASE MarkLifecycle(w)
    <2>1. Busy' /\ pc' \in [Processes -> Labels]
        BY <1>1, <1>6, Moved DEF MarkLifecycle, Labels, WorkSteps
    <2>2. receipt' \in [Generations -> Receipts]
        <3>1. PICK v \in Verdicts : receipt' = [receipt EXCEPT ![gen[w]].state = v]
            BY <1>6 DEF MarkLifecycle, Verdicts
        <3>2. receipt \in [Generations -> Receipts]
            BY <1>2 DEF TypeOK
        <3>3. [receipt EXCEPT ![gen[w]].state = v] \in [Generations -> Receipts]
            BY <3>2, Written
        <3>4. QED
            BY <3>1, <3>3
    <2>3. QED
        BY <1>2, <1>6, <2>1, <2>2 DEF MarkLifecycle, TypeInv, TypeOK, Labels
<1>7. CASE Activate(w)
    <2>1. Busy' /\ pc' \in [Processes -> Labels]
        BY <1>1, <1>7, Moved DEF Activate, Labels, WorkSteps
    <2>2. QED
        BY <1>2, <1>7, <2>1 DEF Activate, TypeInv, TypeOK, Labels
<1>8. CASE WriteCurrent(w)
    <2>1. Busy' /\ pc' \in [Processes -> Labels]
        BY <1>1, <1>8, Moved DEF WriteCurrent, Labels, WorkSteps
    <2>2. QED
        BY <1>1, <1>2, <1>8, <2>1 DEF WriteCurrent, TypeInv, TypeOK, Labels
<1>9. CASE Retain(w)
    <2>1. Busy' /\ pc' \in [Processes -> Labels]
        BY <1>1, <1>9, Moved DEF Retain, Labels, WorkSteps
    <2>2. doomed' \in [Workers -> SUBSET Generations]
        BY <1>2, <1>9 DEF Retain, TypeOK, Others, Accepted
    <2>3. QED
        BY <1>2, <1>9, <2>1, <2>2 DEF Retain, TypeInv, TypeOK, Labels
<1>10. CASE Prune(w)
    <2>1. Busy' /\ pc' \in [Processes -> Labels]
        <3>1. CASE Go(w, "PRUNING", "DONE")
            BY <1>1, <1>10, <3>1, Moved DEF Prune, Labels, WorkSteps
        <3>2. CASE UNCHANGED pc
            BY <1>2, <1>10, <3>2 DEF Prune, TypeInv, TypeOK, Busy, Labels
        <3>3. QED
            BY <1>10, <3>1, <3>2 DEF Prune
    <2>2. dirs' \in [Generations -> SUBSET Places] /\ doomed' \in [Workers -> SUBSET Generations]
        BY <1>2, <1>10 DEF Prune, TypeOK
    <2>3. UNCHANGED <<package, receipt, current, locks, mail, gen, reads, returned, attached, overlap>>
        BY <1>10 DEF Prune
    <2>4. TypeOK'
        BY <1>2, <2>1, <2>2, <2>3, SMTT(30) DEF TypeOK, Labels
    <2>5. QED
        BY <2>1, <2>4 DEF TypeInv
<1>11. CASE Ack(w)
    <2>1. Forget(w) /\ UNCHANGED <<files, locks, mail, overlap>>
        BY <1>11 DEF Ack
    <2>2. attached' \subseteq Workers
        BY <1>2, <1>11 DEF Ack, TypeOK
    <2>3. QED
        BY <1>1, <1>2, <2>1, <2>2, Forgotten DEF TypeInv, TypeOK, Labels
<1>12. CASE LoseChannel(w)
    <2>1. pc[w] # "IDLE"
        BY <1>12 DEF LoseChannel, Settled, WorkSteps
    <2>2. GiveBack(w) /\ UNCHANGED <<files, locks, pc, gen, reads, doomed, returned, overlap>>
        BY <1>12 DEF LoseChannel
    <2>3. /\ attached' \subseteq Workers /\ dead' \subseteq Generations
          /\ queue' \in [Generations \X (0..DeliveryLimit) -> Nat]
        BY <1>1, <2>1, <2>2, GivenBack
    <2>4. QED
        BY <1>2, <2>2, <2>3 DEF TypeInv, TypeOK, Busy
<1>13. QED
    BY <1>3, <1>4, <1>5, <1>6, <1>7, <1>8, <1>9, <1>10, <1>11, <1>12 DEF WorkNext

(* Taking and releasing locks, errors and crashes.                           *)
LEMMA TypeCommon ==
    ASSUME TypeInv, NEW p \in Processes, TakeLock(p) \/ DropLock(p) \/ Fail(p) \/ Crash(p)
    PROVE  TypeInv'
<1> USE DEF files, locks, mail, reads, work, Local
<1>1. TypeOK
    BY DEF TypeInv
<1>2. /\ lock' \in [Generations -> {"FREE", "HELD", "STALE"}]
      /\ gate' \in [Generations -> {"FREE", "HELD", "STALE"}]
    <2>1. CASE TakeLock(p) \/ DropLock(p)
        BY <1>1, <2>1 DEF TakeLock, DropLock, TypeOK
    <2>2. CASE Fail(p)
        BY <1>1, <2>2 DEF Fail, TypeOK
    <2>3. CASE Crash(p)
        BY <1>1, <2>3 DEF Crash, TypeOK
    <2>4. QED
        BY <2>1, <2>2, <2>3
<1>3. CASE TakeLock(p)
    <2>1. Busy' /\ pc' \in [Processes -> Labels]
        BY <1>3, Moved DEF TakeLock, Labels, UploadSteps, PublishSteps, WorkSteps
    <2>2. QED
        BY <1>1, <1>2, <1>3, <2>1 DEF TakeLock, TypeInv, TypeOK, Labels
<1>4. CASE DropLock(p)
    <2>1. CASE Forget(p)
        BY <1>1, <1>2, <1>4, <2>1, Forgotten DEF DropLock, TypeInv, TypeOK, Labels
    <2>2. CASE /\ Go(p, "ENSURED", "RECEIPTED") \/ Go(p, "DONE", "ACKING")
               /\ UNCHANGED <<gen, reads, doomed, returned>>
        <3>1. Busy' /\ pc' \in [Processes -> Labels]
            BY <2>2, Moved DEF Labels, UploadSteps, WorkSteps
        <3>2. QED
            BY <1>1, <1>2, <1>4, <2>2, <3>1 DEF DropLock, TypeInv, TypeOK, Labels
    <2>3. QED
        BY <1>4, <2>1, <2>2 DEF DropLock
<1>5. CASE Fail(p) \/ Crash(p)
    <2>1. Forget(p) /\ GiveBack(p) /\ pc[p] # "IDLE" /\ UNCHANGED <<files, overlap>>
        BY <1>5 DEF Fail, Crash
    <2>2. QED
        BY <1>1, <1>2, <2>1, Forgotten, GivenBack DEF TypeInv, TypeOK, Labels
<1>6. QED
    BY <1>3, <1>4, <1>5

(* Nothing but settling its delivery or an end of its work takes a worker    *)
(* from its steps.                                                           *)
LEMMA SettledStep ==
    ASSUME TypeInv, Settled, [Next]_vars
    PROVE  Settled'
<1> USE DEF files, locks, mail, reads, work, Local
<1> SUFFICES ASSUME NEW w \in attached' PROVE pc'[w] \in WorkSteps
    BY DEF Settled
<1>1. TypeOK
    BY DEF TypeInv
<1>2. ASSUME w \in attached, pc'[w] = pc[w]
      PROVE  pc'[w] \in WorkSteps
    BY <1>2 DEF Settled
<1>3. w \in attached => w \in Workers /\ w \in Processes /\ w \notin Uploads /\ w \notin Publishers
    BY <1>1, ProcessesAssumption DEF TypeOK, Processes
<1>4. CASE UNCHANGED vars
    BY <1>2, <1>4 DEF vars
<1>5. ASSUME NEW u \in Uploads, UploadNext(u) PROVE pc'[w] \in WorkSteps
    BY <1>1, <1>2, <1>3, <1>5 DEF UploadNext, Upload, Look, LinkPackage, EnsureReceipt, Extract,
       TakeGate, Promote, DropGate, Go, Forget, TypeOK
<1>6. ASSUME NEW b \in Publishers, PublishNext(b) PROVE pc'[w] \in WorkSteps
    BY <1>1, <1>2, <1>3, <1>6 DEF PublishNext, StartPublish, Publish, MarkPublished, Go, TypeOK
<1>7. ASSUME NEW v \in Workers, WorkNext(v) PROVE pc'[w] \in WorkSteps
    <2>1. v \in Processes
        BY DEF Processes
    <2>2. CASE \E g \in Generations, n \in 0..DeliveryLimit : Deliver(v, g, n)
        BY <1>1, <2>1, <2>2 DEF Deliver, Go, TypeOK, WorkSteps
    <2>3. CASE Ack(v) \/ LoseChannel(v)
        BY <1>1, <1>2, <1>3, <2>1, <2>3 DEF Ack, LoseChannel, GiveBack, Forget, TypeOK
    <2>4. CASE \/ Decide(v) \/ Reject(v) \/ Accept(v) \/ MarkLifecycle(v)
               \/ Activate(v) \/ WriteCurrent(v) \/ Retain(v) \/ Prune(v)
        <3>1. attached' = attached
            BY <2>4 DEF Decide, Reject, Accept, Transition, MarkLifecycle, Activate, WriteCurrent,
               Retain, Prune
        <3>2. pc' = pc \/ \E l \in WorkSteps : pc' = [pc EXCEPT ![v] = l]
            BY <2>4 DEF Decide, Reject, Accept, Transition, MarkLifecycle, Activate, WriteCurrent,
               Retain, Prune, Go, WorkSteps
        <3>3. QED
            BY <1>1, <1>2, <1>3, <2>1, <3>1, <3>2 DEF TypeOK
    <2>5. QED
        BY <1>7, <2>2, <2>3, <2>4 DEF WorkNext
<1>8. ASSUME NEW p \in Processes, TakeLock(p) \/ DropLock(p) \/ Fail(p) \/ Crash(p)
      PROVE  pc'[w] \in WorkSteps
    <2>1. CASE Fail(p) \/ Crash(p)
        BY <1>1, <1>2, <1>3, <1>8, <2>1 DEF Fail, Crash, GiveBack, Forget, TypeOK
    <2>2. CASE TakeLock(p) \/ DropLock(p)
        BY <1>1, <1>2, <1>3, <2>2 DEF TakeLock, DropLock, Go, Forget, TypeOK, Settled, WorkSteps
    <2>3. QED
        BY <1>8, <2>1, <2>2
<1>9. QED
    BY <1>4, <1>5, <1>6, <1>7, <1>8 DEF Next

(* The types of the variables, and what processes at work know, hold         *)
(* throughout, whoever fails, crashes or loses its channel.                  *)
LEMMA TypesHold == AnySpec => [](TypeInv /\ Settled)
<1>1. AnyInit => TypeInv /\ Settled
    BY TypeInit DEF AnyInit, InitWith, Settled
<1>2. TypeInv /\ Settled /\ [Next]_vars => (TypeInv /\ Settled)'
    <2> SUFFICES ASSUME TypeInv, Settled, [Next]_vars PROVE TypeInv'
        BY SettledStep
    <2>1. CASE UNCHANGED vars
        BY <2>1 DEF vars, files, locks, mail, reads, work, TypeInv, TypeOK, Busy
    <2>2. CASE Next
        BY <2>2, TypeUpload, TypePublish, TypeWork, TypeCommon DEF Next
    <2>3. QED
        BY <2>1, <2>2
<1>3. QED
    BY <1>1, <1>2, PTL DEF AnySpec

(* Every variable of PlayerAnalytics keeps its type.                         *)
THEOREM TypeCorrect == Spec \/ BacklogSpec => []TypeOK
<1>1. TypeInv /\ Settled => TypeOK
    BY DEF TypeInv
<1>2. QED
    BY <1>1, TypesHold, SpecsStart, PTL

-----------------------------------------------------------------------------
(* What others do does not touch what a process knows and where it is.       *)
Common(p) == TakeLock(p) \/ DropLock(p) \/ Fail(p) \/ Crash(p)

Untouched(p) ==
    /\ pc'[p] = pc[p] /\ gen'[p] = gen[p]
    /\ p \in Uploads => file'[p] = file[p]
    /\ p \in Workers => doomed'[p] = doomed[p]

LEMMA Bystander ==
    ASSUME TypeInv, Next, NEW p \in Processes
    PROVE  \/ Untouched(p)
           \/ p \in Uploads /\ UploadNext(p)
           \/ p \in Publishers /\ PublishNext(p)
           \/ p \in Workers /\ WorkNext(p)
           \/ Common(p)
<1> USE DEF files, locks, mail, reads, work, Local
<1>1. TypeOK
    BY DEF TypeInv
<1>2. ASSUME NEW u \in Uploads, UploadNext(u), u # p PROVE Untouched(p)
    <2>1. u \in Processes
        BY DEF Processes
    <2>2. QED
        BY <1>1, <1>2, <2>1 DEF UploadNext, Upload, Look, LinkPackage, EnsureReceipt, Extract,
           TakeGate, Promote, DropGate, Go, Forget, TypeOK, Untouched
<1>3. ASSUME NEW b \in Publishers, PublishNext(b), b # p PROVE Untouched(p)
    <2>1. b \in Processes
        BY DEF Processes
    <2>2. QED
        BY <1>1, <1>3, <2>1 DEF PublishNext, StartPublish, Publish, MarkPublished, Go, TypeOK, Untouched
<1>4. ASSUME NEW w \in Workers, WorkNext(w), w # p PROVE Untouched(p)
    <2>1. w \in Processes
        BY DEF Processes
    <2>2. CASE Ack(w) \/ LoseChannel(w) \/ \E g \in Generations, n \in 0..DeliveryLimit : Deliver(w, g, n)
        <3>1. CASE Ack(w)
            <4>1. Forget(w)
                BY <3>1 DEF Ack
            <4>2. QED
                BY <1>1, <1>4, <2>1, <4>1 DEF Forget, TypeOK, Untouched
        <3>2. CASE LoseChannel(w)
            <4>1. UNCHANGED <<pc, gen, file, doomed>>
                BY <3>2 DEF LoseChannel
            <4>2. QED
                BY <4>1 DEF Untouched
        <3>3. ASSUME NEW g \in Generations, NEW n \in 0..DeliveryLimit, Deliver(w, g, n)
              PROVE  Untouched(p)
            <4>1. /\ pc' = [pc EXCEPT ![w] = "DELIVERED"] /\ gen' = [gen EXCEPT ![w] = g]
                  /\ UNCHANGED <<file, doomed>>
                BY <3>3 DEF Deliver, Go
            <4>2. QED
                BY <1>1, <1>4, <2>1, <4>1 DEF TypeOK, Untouched
        <3>4. QED
            BY <2>2, <3>1, <3>2, <3>3
    <2>3. CASE \/ Decide(w) \/ Reject(w) \/ Accept(w) \/ MarkLifecycle(w)
               \/ Activate(w) \/ WriteCurrent(w)
        BY <1>1, <1>4, <2>1, <2>3 DEF Decide, Reject, Accept, Transition, MarkLifecycle, Activate,
           WriteCurrent, Go, TypeOK, Untouched
    <2>4. CASE Retain(w) \/ Prune(w)
        <3>1. UNCHANGED <<gen, file>>
            BY <2>4 DEF Retain, Prune
        <3>2. pc' = pc \/ \E l : pc' = [pc EXCEPT ![w] = l]
            BY <2>4 DEF Retain, Prune, Go
        <3>3. doomed' = doomed \/ \E d : doomed' = [doomed EXCEPT ![w] = d]
            BY <2>4 DEF Retain, Prune
        <3>4. QED
            BY <1>1, <1>4, <2>1, <3>1, <3>2, <3>3 DEF TypeOK, Untouched
    <2>5. QED
        BY <1>4, <2>2, <2>3, <2>4 DEF WorkNext
<1>5. ASSUME NEW q \in Processes, Common(q), q # p PROVE Untouched(p)
    BY <1>1, <1>5 DEF Common, TakeLock, DropLock, Fail, Crash, Go, Forget, TypeOK, Untouched
<1>6. QED
    BY <1>2, <1>3, <1>4, <1>5 DEF Next, Common

(* A package is never replaced, and a receipt keeps naming its archive.      *)
LEMMA Stays ==
    ASSUME TypeInv, Next, NEW g \in Generations
    PROVE  /\ package[g] \in Packages => package'[g] = package[g]
           /\ Has(g) => Has(g)' /\ receipt'[g].package = receipt[g].package
<1> USE DEF files, locks, mail, reads, work, Local
<1>1. TypeOK
    BY DEF TypeInv
<1>2. CASE UNCHANGED <<package, receipt>>
    BY <1>2 DEF Has
<1>3. ASSUME NEW u \in Uploads, LinkPackage(u) \/ EnsureReceipt(u)
      PROVE  /\ package[g] \in Packages => package'[g] = package[g]
             /\ Has(g) => Has(g)' /\ receipt'[g].package = receipt[g].package
    BY <1>1, <1>3, PackagesAssumption DEF LinkPackage, EnsureReceipt, TypeOK, Has
<1>4. ASSUME NEW p, MarkPublished(p) \/ MarkLifecycle(p)
      PROVE  /\ package[g] \in Packages => package'[g] = package[g]
             /\ Has(g) => Has(g)' /\ receipt'[g].package = receipt[g].package
    <2>1. receipt \in [Generations -> Receipts] /\ package' = package
        BY <1>1, <1>4 DEF MarkPublished, MarkLifecycle, TypeOK
    <2>2. CASE MarkPublished(p)
        BY <2>1, <2>2 DEF MarkPublished, Receipts, Has
    <2>3. CASE MarkLifecycle(p)
        <3>1. PICK v \in {"accepted", "rejected"} : receipt' = [receipt EXCEPT ![gen[p]].state = v]
            BY <2>3 DEF MarkLifecycle
        <3>2. /\ receipt'[g].package = receipt[g].package
              /\ receipt'[g].state = IF g = gen[p] THEN v ELSE receipt[g].state
            BY <2>1, <3>1, Marked
        <3>3. QED
            BY <2>1, <3>2 DEF Has
    <2>4. QED
        BY <1>4, <2>2, <2>3
<1>5. ASSUME NEW u \in Uploads, UploadNext(u)
      PROVE  LinkPackage(u) \/ EnsureReceipt(u) \/ UNCHANGED <<package, receipt>>
    BY <1>5 DEF UploadNext, Upload, Look, Extract, TakeGate, Promote, DropGate
<1>6. ASSUME NEW b \in Publishers, PublishNext(b)
      PROVE  MarkPublished(b) \/ UNCHANGED <<package, receipt>>
    BY <1>6 DEF PublishNext, StartPublish, Publish
<1>7. ASSUME NEW w \in Workers, WorkNext(w)
      PROVE  MarkLifecycle(w) \/ UNCHANGED <<package, receipt>>
    BY <1>7 DEF WorkNext, Deliver, Decide, Reject, Accept, Transition, Activate, WriteCurrent,
       Retain, Prune, Ack, LoseChannel
<1>8. ASSUME NEW p \in Processes, Common(p)
      PROVE  UNCHANGED <<package, receipt>>
    BY <1>8 DEF Common, TakeLock, DropLock, Fail, Crash
<1>9. QED
    BY <1>2, <1>3, <1>4, <1>5, <1>6, <1>7, <1>8 DEF Next, Common

(* Directories come from promotions, and go by verdicts and retention.       *)
LEMMA DirsStep ==
    ASSUME Next
    PROVE  \/ dirs' = dirs
           \/ \E u \in Uploads : Promote(u)
           \/ \E w \in Workers : Reject(w) \/ Accept(w) \/ Prune(w)
<1> USE DEF files
<1>1. ASSUME NEW u \in Uploads, UploadNext(u) PROVE Promote(u) \/ dirs' = dirs
    BY <1>1 DEF UploadNext, Upload, Look, LinkPackage, EnsureReceipt, Extract, TakeGate, DropGate
<1>2. ASSUME NEW b \in Publishers, PublishNext(b) PROVE dirs' = dirs
    BY <1>2 DEF PublishNext, StartPublish, Publish, MarkPublished
<1>3. ASSUME NEW w \in Workers, WorkNext(w) PROVE Reject(w) \/ Accept(w) \/ Prune(w) \/ dirs' = dirs
    BY <1>3 DEF WorkNext, Deliver, Decide, MarkLifecycle, Activate, WriteCurrent, Retain, Ack,
       LoseChannel
<1>4. ASSUME NEW p \in Processes, Common(p) PROVE dirs' = dirs
    BY <1>4 DEF Common, TakeLock, DropLock, Fail, Crash
<1>5. QED
    BY <1>1, <1>2, <1>3, <1>4 DEF Next, Common

-----------------------------------------------------------------------------
(* Why only the archive that the receipt names is ever extracted: the        *)
(* receipt is there and names it before the extraction begins.               *)
EnsuredSteps == {"ENSURED", "RECEIPTED", "EXTRACTED", "PROMOTING", "PROMOTED"}
KnownSteps   == EnsuredSteps \cup (WorkSteps \ {"DELIVERED"})

Named     == \A g \in Generations : Has(g) <=> receipt[g].package \in Packages
Known     == \A p \in Processes : pc[p] \in KnownSteps => Has(gen[p])
Ensured   == \A u \in Uploads : pc[u] \in EnsuredSteps => receipt[gen[u]].package = file[u]
Extracted == \A u \in Uploads : pc[u] \in {"EXTRACTED", "PROMOTING"} =>
                /\ package[gen[u]] = file[u]
                /\ file[u] \in WellFormed /\ For[file[u]] = gen[u]
PackInv   == Named /\ Known /\ Ensured /\ Extracted /\ ReceiptMatches

LEMMA KnownStep ==
    ASSUME TypeInv, PackInv, Next
    PROVE  Known'
<1> USE DEF files, locks, mail, reads, work, Local
<1> SUFFICES ASSUME NEW p \in Processes, pc'[p] \in KnownSteps PROVE Has(gen[p])'
    BY DEF Known
<1>1. TypeOK /\ "IDLE" \notin KnownSteps
    BY DEF TypeInv, KnownSteps, EnsuredSteps, WorkSteps
<1>2. ASSUME gen'[p] = gen[p], gen[p] \in Generations, Has(gen[p]) PROVE Has(gen[p])'
    <2>1. receipt'[gen[p]].state # "none"
        BY <1>2, Stays DEF Has
    <2>2. QED
        BY <1>2, <2>1 DEF Has
<1>3. ASSUME gen'[p] = gen[p], pc[p] \in KnownSteps PROVE Has(gen[p])'
    <2>1. gen[p] \in Generations
        BY <1>1, <1>3 DEF TypeInv, Busy
    <2>2. QED
        BY <1>2, <1>3, <2>1 DEF PackInv, Known
<1>4. CASE Untouched(p)
    BY <1>3, <1>4 DEF Untouched
<1>5. CASE p \in Uploads /\ UploadNext(p)
    <2>1. CASE EnsureReceipt(p)
        <3>1. gen[p] \in Generations /\ gen'[p] = gen[p]
            BY <2>1 DEF EnsureReceipt, Go, TypeInv, Busy
        <3>2. receipt'[gen[p]].state # "none"
            BY <1>1, <2>1, <3>1 DEF EnsureReceipt, Has, TypeOK
        <3>3. QED
            BY <3>1, <3>2 DEF Has
    <2>2. CASE Extract(p)
        BY <1>1, <1>3, <2>2 DEF Extract, Go, Forget, TypeOK, KnownSteps, EnsuredSteps
    <2>3. CASE TakeGate(p) \/ Promote(p)
        BY <1>1, <1>3, <2>3 DEF TakeGate, Promote, Go, TypeOK, KnownSteps, EnsuredSteps
    <2>4. CASE DropGate(p)
        BY <1>1, <2>4 DEF DropGate, Forget, TypeOK
    <2>5. CASE Look(p) \/ LinkPackage(p) \/ \E g \in Generations, q \in Packages : Upload(p, g, q)
        BY <1>1, <2>5 DEF Look, LinkPackage, Upload, Go, TypeOK, KnownSteps, EnsuredSteps, WorkSteps
    <2>6. QED
        BY <1>5, <2>1, <2>2, <2>3, <2>4, <2>5 DEF UploadNext
<1>6. CASE p \in Publishers /\ PublishNext(p)
    BY <1>1, <1>6 DEF PublishNext, StartPublish, Publish, MarkPublished, Go, TypeOK, KnownSteps,
       EnsuredSteps, WorkSteps
<1>7. CASE p \in Workers /\ WorkNext(p)
    <2>1. CASE Ack(p)
        BY <1>1, <2>1 DEF Ack, Forget, TypeOK
    <2>2. CASE \E g \in Generations, n \in 0..DeliveryLimit : Deliver(p, g, n)
        BY <1>1, <2>2 DEF Deliver, Go, TypeOK, KnownSteps, EnsuredSteps
    <2>3. CASE LoseChannel(p)
        BY <1>3, <2>3 DEF LoseChannel
    <2>4. CASE \/ Decide(p) \/ Reject(p) \/ Accept(p) \/ MarkLifecycle(p)
               \/ Activate(p) \/ WriteCurrent(p) \/ Retain(p) \/ Prune(p)
        <3>1. gen' = gen
            BY <2>4 DEF Decide, Reject, Accept, Transition, MarkLifecycle, Activate, WriteCurrent,
               Retain, Prune
        <3>2. pc[p] \in KnownSteps
            BY <2>4 DEF Decide, Reject, Accept, Transition, MarkLifecycle, Activate, WriteCurrent,
               Retain, Prune, Go, KnownSteps, WorkSteps
        <3>3. QED
            BY <1>3, <3>1, <3>2
    <2>5. QED
        BY <1>7, <2>1, <2>2, <2>3, <2>4 DEF WorkNext
<1>8. CASE Common(p)
    <2>1. CASE TakeLock(p)
        <3>1. gen'[p] = gen[p] /\ gen[p] \in Generations
            BY <2>1 DEF TakeLock, Go, TypeInv, Busy
        <3>2. Has(gen[p])
            BY <1>1, <2>1 DEF TakeLock, Go, TypeOK, KnownSteps, EnsuredSteps, WorkSteps
        <3>3. QED
            BY <1>2, <3>1, <3>2
    <2>2. CASE DropLock(p)
        BY <1>1, <1>3, <2>2 DEF DropLock, Go, Forget, TypeOK, KnownSteps, EnsuredSteps, WorkSteps
    <2>3. CASE Fail(p) \/ Crash(p)
        BY <1>1, <2>3 DEF Fail, Crash, Forget, TypeOK
    <2>4. QED
        BY <1>8, <2>1, <2>2, <2>3 DEF Common
<1>9. QED
    BY <1>4, <1>5, <1>6, <1>7, <1>8, Bystander

LEMMA NamedStep ==
    ASSUME TypeInv, PackInv, Next
    PROVE  Named'
<1> SUFFICES ASSUME NEW g \in Generations PROVE (Has(g) <=> receipt[g].package \in Packages)'
    BY DEF Named
<1>1. TypeOK
    BY DEF TypeInv
<1>2. CASE Has(g)
    <2>1. Has(g)' /\ receipt'[g].package = receipt[g].package
        BY <1>2, Stays
    <2>2. QED
        BY <1>2, <2>1 DEF PackInv, Named, Has
<1>3. CASE ~Has(g) /\ receipt'[g] = receipt[g]
    BY <1>3 DEF PackInv, Named, Has
<1>4. CASE ~Has(g) /\ receipt'[g] # receipt[g]
    <2>1. ASSUME NEW u \in Uploads, EnsureReceipt(u) PROVE (Has(g) <=> receipt[g].package \in Packages)'
        <3>1. u \in Processes
            BY DEF Processes
        <3>2. file[u] \in Packages /\ gen[u] \in Generations
            BY <2>1, <3>1 DEF EnsureReceipt, Go, TypeInv, Busy
        <3>3. receipt'[g] = [package |-> file[u], state |-> "received", published |-> FALSE]
            BY <1>1, <1>4, <2>1, <3>2 DEF EnsureReceipt, TypeOK
        <3>4. QED
            BY <3>2, <3>3 DEF Has
    <2>2. ASSUME NEW b \in Publishers, MarkPublished(b) PROVE (Has(g) <=> receipt[g].package \in Packages)'
        <3>1. receipt'[g].package = receipt[g].package /\ receipt'[g].state = receipt[g].state
            BY <1>1, <2>2 DEF MarkPublished, TypeOK, Receipts
        <3>2. QED
            BY <3>1 DEF PackInv, Named, Has
    <2>3. ASSUME NEW w \in Workers, MarkLifecycle(w) PROVE FALSE
        <3>1. pc[w] \in KnownSteps /\ w \in Processes
            BY <2>3 DEF MarkLifecycle, Go, KnownSteps, WorkSteps, Processes
        <3>2. Has(gen[w])
            BY <3>1 DEF PackInv, Known
        <3>3. g = gen[w]
            BY <1>1, <1>4, <2>3 DEF MarkLifecycle, TypeOK
        <3>4. QED
            BY <1>4, <3>2, <3>3
    <2>4. ASSUME NEW u \in Uploads, UploadNext(u) PROVE EnsureReceipt(u) \/ receipt' = receipt
        BY <2>4 DEF files, UploadNext, Upload, Look, LinkPackage, Extract, TakeGate, Promote, DropGate
    <2>5. ASSUME NEW b \in Publishers, PublishNext(b) PROVE MarkPublished(b) \/ receipt' = receipt
        BY <2>5 DEF files, PublishNext, StartPublish, Publish
    <2>6. ASSUME NEW w \in Workers, WorkNext(w) PROVE MarkLifecycle(w) \/ receipt' = receipt
        BY <2>6 DEF files, WorkNext, Deliver, Decide, Reject, Accept, Transition, Activate,
           WriteCurrent, Retain, Prune, Ack, LoseChannel
    <2>7. ASSUME NEW p \in Processes, Common(p) PROVE receipt' = receipt
        BY <2>7 DEF files, Common, TakeLock, DropLock, Fail, Crash
    <2>8. QED
        BY <1>4, <2>1, <2>2, <2>3, <2>4, <2>5, <2>6, <2>7 DEF Next, Common
<1>5. QED
    BY <1>2, <1>3, <1>4

(* An upload past its receipt was there before, or has just written it.      *)
LEMMA EnsuredStep ==
    ASSUME TypeInv, PackInv, Next
    PROVE  Ensured'
<1> USE DEF files, locks, mail, reads, work, Local
<1> SUFFICES ASSUME NEW u \in Uploads, pc'[u] \in EnsuredSteps
             PROVE  receipt'[gen'[u]].package = file'[u]
    BY DEF Ensured
<1>1. TypeOK /\ u \in Processes /\ "IDLE" \notin EnsuredSteps /\ u \notin Publishers /\ u \notin Workers
    BY ProcessesAssumption DEF TypeInv, EnsuredSteps, Processes
<1>2. ASSUME gen'[u] = gen[u], file'[u] = file[u], pc[u] \in EnsuredSteps
      PROVE  receipt'[gen'[u]].package = file'[u]
    <2>1. gen[u] \in Generations /\ Has(gen[u]) /\ receipt[gen[u]].package = file[u]
        BY <1>1, <1>2 DEF TypeInv, Busy, PackInv, Known, Ensured, KnownSteps
    <2>2. QED
        BY <1>2, <2>1, Stays
<1>3. CASE Untouched(u)
    BY <1>2, <1>3 DEF Untouched
<1>4. CASE UploadNext(u)
    <2>1. CASE EnsureReceipt(u)
        <3>1. gen[u] \in Generations /\ gen'[u] = gen[u] /\ file'[u] = file[u]
            BY <1>1, <2>1 DEF EnsureReceipt, Go, TypeInv, Busy
        <3>2. QED
            BY <1>1, <2>1, <3>1 DEF EnsureReceipt, TypeOK
    <2>2. CASE Extract(u)
        BY <1>1, <1>2, <2>2 DEF Extract, Go, Forget, TypeOK, EnsuredSteps
    <2>3. CASE TakeGate(u) \/ Promote(u)
        BY <1>1, <1>2, <2>3 DEF TakeGate, Promote, Go, TypeOK, EnsuredSteps
    <2>4. CASE DropGate(u)
        BY <1>1, <2>4 DEF DropGate, Forget, TypeOK
    <2>5. CASE Look(u) \/ LinkPackage(u) \/ \E g \in Generations, q \in Packages : Upload(u, g, q)
        BY <1>1, <2>5 DEF Look, LinkPackage, Upload, Go, TypeOK, EnsuredSteps
    <2>6. QED
        BY <1>4, <2>1, <2>2, <2>3, <2>4, <2>5 DEF UploadNext
<1>5. CASE Common(u)
    <2>1. CASE TakeLock(u)
        BY <1>1, <2>1 DEF TakeLock, Go, TypeOK, EnsuredSteps
    <2>2. CASE DropLock(u)
        BY <1>1, <1>2, <2>2 DEF DropLock, Go, Forget, TypeOK, EnsuredSteps
    <2>3. CASE Fail(u) \/ Crash(u)
        BY <1>1, <2>3 DEF Fail, Crash, Forget, TypeOK
    <2>4. QED
        BY <1>5, <2>1, <2>2, <2>3 DEF Common
<1>6. QED
    BY <1>1, <1>3, <1>4, <1>5, Bystander

LEMMA ExtractedStep ==
    ASSUME TypeInv, PackInv, Next
    PROVE  Extracted'
<1> USE DEF files, locks, mail, reads, work, Local
<1> SUFFICES ASSUME NEW u \in Uploads, pc'[u] \in {"EXTRACTED", "PROMOTING"}
             PROVE  /\ package'[gen'[u]] = file'[u]
                    /\ file'[u] \in WellFormed /\ For[file'[u]] = gen'[u]
    BY DEF Extracted
<1>1. TypeOK /\ u \in Processes /\ u \notin Publishers /\ u \notin Workers
    BY ProcessesAssumption DEF TypeInv, Processes
<1>2. ASSUME gen'[u] = gen[u], file'[u] = file[u], pc[u] # "IDLE",
             package[gen[u]] = file[u], file[u] \in WellFormed, For[file[u]] = gen[u]
      PROVE  /\ package'[gen'[u]] = file'[u]
             /\ file'[u] \in WellFormed /\ For[file'[u]] = gen'[u]
    <2>1. gen[u] \in Generations /\ package[gen[u]] \in Packages
        BY <1>1, <1>2, PackagesAssumption DEF TypeInv, Busy
    <2>2. QED
        BY <1>2, <2>1, Stays
<1>3. ASSUME gen'[u] = gen[u], file'[u] = file[u], pc[u] \in {"EXTRACTED", "PROMOTING"}
      PROVE  /\ package'[gen'[u]] = file'[u]
             /\ file'[u] \in WellFormed /\ For[file'[u]] = gen'[u]
    BY <1>2, <1>3 DEF PackInv, Extracted
<1>4. CASE Untouched(u)
    BY <1>3, <1>4 DEF Untouched
<1>5. CASE UploadNext(u)
    <2>1. CASE Extract(u)
        BY <1>1, <1>2, <2>1 DEF Extract, Extractable, Go, Forget, TypeOK
    <2>2. CASE TakeGate(u)
        BY <1>3, <2>2 DEF TakeGate, Go
    <2>3. CASE Promote(u) \/ DropGate(u)
        BY <1>1, <2>3 DEF Promote, DropGate, Go, Forget, TypeOK
    <2>4. CASE \/ Look(u) \/ LinkPackage(u) \/ EnsureReceipt(u)
               \/ \E g \in Generations, q \in Packages : Upload(u, g, q)
        BY <1>1, <2>4 DEF Look, LinkPackage, EnsureReceipt, Upload, Go, TypeOK
    <2>5. QED
        BY <1>5, <2>1, <2>2, <2>3, <2>4 DEF UploadNext
<1>6. CASE Common(u)
    BY <1>1, <1>6 DEF Common, TakeLock, DropLock, Fail, Crash, Go, Forget, TypeOK
<1>7. QED
    BY <1>1, <1>4, <1>5, <1>6, Bystander

LEMMA MatchesStep ==
    ASSUME TypeInv, PackInv, Next
    PROVE  ReceiptMatches'
<1> USE DEF files
<1> SUFFICES ASSUME NEW g \in Generations, dirs'[g] # {}
             PROVE  /\ receipt'[g].package = package'[g]
                    /\ package'[g] \in WellFormed /\ For[package'[g]] = g
    BY DEF ReceiptMatches
<1>1. TypeOK
    BY DEF TypeInv
<1>2. CASE dirs[g] # {}
    <2>1. /\ receipt[g].package = package[g] /\ package[g] \in Packages
          /\ package[g] \in WellFormed /\ For[package[g]] = g
        BY <1>2, PackagesAssumption DEF PackInv, ReceiptMatches
    <2>2. Has(g)
        BY <2>1 DEF PackInv, Named
    <2>3. QED
        BY <2>1, <2>2, Stays
<1>3. CASE dirs[g] = {}
    <2>1. PICK u \in Uploads : Promote(u) /\ g = gen[u]
        <3>1. ASSUME NEW w \in Workers, Reject(w) \/ Accept(w) \/ Prune(w) PROVE FALSE
            BY <1>1, <1>3, <3>1 DEF Reject, Accept, Transition, Prune, TypeOK
        <3>2. dirs' # dirs
            BY <1>3
        <3>3. PICK u \in Uploads : Promote(u)
            BY <3>1, <3>2, DirsStep
        <3>4. g = gen[u]
            BY <1>1, <1>3, <3>3 DEF Promote, TypeOK
        <3>5. QED
            BY <3>3, <3>4
    <2>2. /\ pc[u] = "PROMOTING" /\ UNCHANGED <<package, receipt>>
        BY <2>1 DEF Promote, Go
    <2>3. /\ receipt[g].package = file[u] /\ package[g] = file[u]
          /\ file[u] \in WellFormed /\ For[file[u]] = g
        BY <2>1, <2>2 DEF PackInv, Ensured, Extracted, EnsuredSteps
    <2>4. QED
        BY <2>2, <2>3
<1>4. QED
    BY <1>2, <1>3

LEMMA PackHolds == AnySpec => [](TypeInv /\ PackInv)
<1>1. AnyInit => PackInv
    <2> SUFFICES ASSUME NEW uploaded \in SUBSET Generations, InitWith(uploaded) PROVE PackInv
        BY DEF AnyInit
    <2>1. /\ receipt = [g \in Generations |->
                          IF g \in uploaded
                          THEN [package |-> package[g], state |-> "received", published |-> TRUE]
                          ELSE NoReceipt]
          /\ dirs = [g \in Generations |-> IF g \in uploaded THEN {"incoming"} ELSE {}]
          /\ pc = [p \in Processes |-> "IDLE"]
          /\ \A g \in uploaded : package[g] \in WellFormed /\ For[package[g]] = g
        BY DEF InitWith
    <2>2. Named
        BY <2>1, PackagesAssumption DEF Named, Has, NoReceipt
    <2>3. ReceiptMatches
        BY <2>1 DEF ReceiptMatches
    <2>4. QED
        BY <2>1, <2>2, <2>3 DEF PackInv, Known, Ensured, Extracted, KnownSteps, EnsuredSteps,
           WorkSteps, Processes
<1>2. TypeInv /\ PackInv /\ [Next]_vars => PackInv'
    <2> SUFFICES ASSUME TypeInv, PackInv, [Next]_vars PROVE PackInv'
        OBVIOUS
    <2>1. CASE Next
        BY <2>1, NamedStep, KnownStep, EnsuredStep, ExtractedStep, MatchesStep DEF PackInv
    <2>2. CASE UNCHANGED vars
        BY <2>2 DEF vars, files, locks, mail, reads, work, PackInv, Named, Known, Ensured, Extracted,
           ReceiptMatches, Has
    <2>3. QED
        BY <2>1, <2>2
<1>3. QED
    BY <1>1, <1>2, TypesHold, PTL DEF AnySpec

(* What is in incoming, accepted or rejected was extracted from the archive  *)
(* its receipt names, whatever requests race, fail, crash or are repeated.   *)
THEOREM ReceiptsMatch == Spec \/ BacklogSpec => []ReceiptMatches
<1>1. PackInv => ReceiptMatches
    BY DEF PackInv
<1>2. QED
    BY <1>1, PackHolds, SpecsStart, PTL

-----------------------------------------------------------------------------
(* Why verdicts do not change: both records of one, and the worker between   *)
(* them, follow the package, and that stays.                                 *)
Judged ==
    \A g \in Generations :
        /\ "accepted" \in dirs[g] \/ receipt[g].state = "accepted" => package[g] \in Valid
        /\ "rejected" \in dirs[g] \/ receipt[g].state = "rejected" => package[g] \in Packages \ Valid
Judging ==
    \A w \in Workers :
        /\ pc[w] \in {"ACCEPTING", "MARK_ACCEPTED"} => package[gen[w]] \in Valid
        /\ pc[w] \in {"REJECTING", "MARK_REJECTED"} => package[gen[w]] \in Packages \ Valid
VerdictInv == Judged /\ Judging

LEMMA JudgingStep ==
    ASSUME TypeInv, PackInv, VerdictInv, Next
    PROVE  Judging'
<1> USE DEF files, locks, mail, reads, work, Local
<1> DEFINE Steps == {"ACCEPTING", "MARK_ACCEPTED", "REJECTING", "MARK_REJECTED"}
           Right(l, k) == /\ l \in {"ACCEPTING", "MARK_ACCEPTED"} => k \in Valid
                          /\ l \in {"REJECTING", "MARK_REJECTED"} => k \in Packages \ Valid
<1> SUFFICES ASSUME NEW w \in Workers, pc'[w] \in Steps PROVE Right(pc'[w], package'[gen'[w]])
    BY DEF Judging
<1>1. TypeOK /\ w \in Processes /\ w \notin Publishers /\ w \notin Uploads
    BY ProcessesAssumption DEF TypeInv, Processes
<1>2. ASSUME gen'[w] = gen[w], pc[w] \in Steps, Right(pc[w], package[gen[w]]) => Right(pc'[w], package[gen[w]])
      PROVE  Right(pc'[w], package'[gen'[w]])
    <2>1. Right(pc[w], package[gen[w]])
        BY DEF VerdictInv, Judging
    <2>2. gen[w] \in Generations /\ package[gen[w]] \in Packages
        BY <1>1, <1>2, <2>1, PackagesAssumption DEF TypeInv, Busy
    <2>3. package'[gen[w]] = package[gen[w]]
        BY <2>2, Stays
    <2>4. QED
        BY <1>2, <2>1, <2>3
<1>3. CASE Untouched(w)
    BY <1>2, <1>3 DEF Untouched
<1>4. CASE WorkNext(w)
    <2>1. CASE Decide(w)
        <3>1. gen[w] \in Generations /\ gen'[w] = gen[w] /\ package' = package
            BY <1>1, <2>1 DEF Decide, Go, TypeInv, Busy
        <3>2. Status(gen[w]) = "incoming" => package[gen[w]] \in Packages
            BY <3>1, PackagesAssumption DEF Status, PackInv, ReceiptMatches
        <3>3. Status(gen[w]) = "accepted" => package[gen[w]] \in Valid
            BY <3>1 DEF Status, VerdictInv, Judged
        <3>4. Status(gen[w]) = "rejected" => package[gen[w]] \in Packages \ Valid
            BY <3>1 DEF Status, VerdictInv, Judged
        <3>5. QED
            BY <1>1, <2>1, <3>1, <3>2, <3>3, <3>4 DEF Decide, Validates, Go, TypeOK
    <2>2. CASE Reject(w) \/ Accept(w)
        BY <1>1, <1>2, <2>2 DEF Reject, Accept, Transition, Go, TypeOK
    <2>3. CASE Ack(w)
        BY <1>1, <2>3 DEF Ack, Forget, TypeOK
    <2>4. CASE LoseChannel(w)
        BY <1>2, <2>4 DEF LoseChannel
    <2>5. CASE Prune(w)
        BY <1>1, <2>5 DEF Prune, Go, TypeOK
    <2>6. CASE MarkLifecycle(w) \/ Activate(w) \/ WriteCurrent(w) \/ Retain(w)
        BY <1>1, <2>6 DEF MarkLifecycle, Activate, WriteCurrent, Retain, Go, TypeOK
    <2>7. CASE \E g \in Generations, n \in 0..DeliveryLimit : Deliver(w, g, n)
        BY <1>1, <2>7 DEF Deliver, Go, TypeOK
    <2>8. QED
        BY <1>4, <2>1, <2>2, <2>3, <2>4, <2>5, <2>6, <2>7 DEF WorkNext
<1>5. CASE Common(w)
    BY <1>1, <1>5 DEF Common, TakeLock, DropLock, Fail, Crash, Go, Forget, TypeOK
<1>6. QED
    BY <1>1, <1>3, <1>4, <1>5, Bystander

(* A verdict gets into a receipt by the worker that reached it.              *)
LEMMA MarkingStep ==
    ASSUME TypeInv, Next, NEW g \in Generations, NEW v \in {"accepted", "rejected"},
           receipt'[g].state = v, receipt[g].state # v
    PROVE  \E w \in Workers :
              /\ MarkLifecycle(w) /\ gen[w] = g
              /\ pc[w] = IF v = "accepted" THEN "MARK_ACCEPTED" ELSE "MARK_REJECTED"
<1> USE DEF files
<1>1. TypeOK
    BY DEF TypeInv
<1>2. ASSUME NEW u \in Uploads, UploadNext(u) PROVE EnsureReceipt(u) \/ receipt' = receipt
    BY <1>2 DEF UploadNext, Upload, Look, LinkPackage, Extract, TakeGate, Promote, DropGate
<1>3. ASSUME NEW u \in Uploads, EnsureReceipt(u) PROVE receipt'[g].state # v
    BY <1>1, <1>3 DEF EnsureReceipt, TypeOK
<1>4. ASSUME NEW b \in Publishers, PublishNext(b) PROVE MarkPublished(b) \/ receipt' = receipt
    BY <1>4 DEF PublishNext, StartPublish, Publish
<1>5. ASSUME NEW b \in Publishers, MarkPublished(b) PROVE receipt'[g].state = receipt[g].state
    BY <1>1, <1>5 DEF MarkPublished, TypeOK, Receipts
<1>6. ASSUME NEW w \in Workers, WorkNext(w) PROVE MarkLifecycle(w) \/ receipt' = receipt
    BY <1>6 DEF WorkNext, Deliver, Decide, Reject, Accept, Transition, Activate, WriteCurrent,
       Retain, Prune, Ack, LoseChannel
<1>7. ASSUME NEW p \in Processes, Common(p) PROVE receipt' = receipt
    BY <1>7 DEF Common, TakeLock, DropLock, Fail, Crash
<1>8. PICK w \in Workers : MarkLifecycle(w)
    BY <1>2, <1>3, <1>4, <1>5, <1>6, <1>7 DEF Next, Common
<1>9. receipt \in [Generations -> Receipts]
    BY <1>1 DEF TypeOK
<1>10. CASE pc[w] = "MARK_REJECTED"
    <2>1. receipt' = [receipt EXCEPT ![gen[w]].state = "rejected"]
        BY <1>8, <1>10 DEF MarkLifecycle, Go
    <2>2. g = gen[w] /\ v = "rejected"
        BY <1>9, <2>1, Marked
    <2>3. QED
        BY <1>8, <1>10, <2>2
<1>11. CASE pc[w] = "MARK_ACCEPTED"
    <2>1. receipt' = [receipt EXCEPT ![gen[w]].state = "accepted"]
        BY <1>8, <1>11 DEF MarkLifecycle, Go
    <2>2. g = gen[w] /\ v = "accepted"
        BY <1>9, <2>1, Marked
    <2>3. QED
        BY <1>8, <1>11, <2>2
<1>12. QED
    BY <1>8, <1>10, <1>11 DEF MarkLifecycle, Go

LEMMA JudgedStep ==
    ASSUME TypeInv, PackInv, VerdictInv, Next
    PROVE  Judged'
<1> USE DEF files
<1> SUFFICES ASSUME NEW g \in Generations
             PROVE  /\ "accepted" \in dirs'[g] \/ receipt'[g].state = "accepted" => package'[g] \in Valid
                    /\ "rejected" \in dirs'[g] \/ receipt'[g].state = "rejected" =>
                          package'[g] \in Packages \ Valid
    BY DEF Judged
<1> DEFINE Right(v, k) == /\ v = "accepted" => k \in Valid
                          /\ v = "rejected" => k \in Packages \ Valid
<1>1. TypeOK
    BY DEF TypeInv
<1>2. ASSUME NEW v \in {"accepted", "rejected"}, v \in dirs[g] \/ receipt[g].state = v
      PROVE  Right(v, package'[g])
    <2>1. Right(v, package[g]) /\ package[g] \in Packages
        BY <1>2, PackagesAssumption DEF VerdictInv, Judged
    <2>2. QED
        BY <2>1, Stays
<1>3. ASSUME NEW v \in {"accepted", "rejected"}, v \in dirs'[g], v \notin dirs[g]
      PROVE  Right(v, package'[g])
    <2>1. ASSUME NEW u \in Uploads, Promote(u) PROVE FALSE
        BY <1>1, <1>3, <2>1 DEF Promote, TypeOK
    <2>2. PICK w \in Workers : Reject(w) \/ Accept(w) \/ Prune(w)
        BY <1>3, <2>1, DirsStep
    <2>3. CASE Prune(w)
        BY <1>1, <1>3, <2>3 DEF Prune, TypeOK
    <2>4. CASE Reject(w) \/ Accept(w)
        <3>1. g = gen[w] /\ package' = package
            BY <1>1, <1>3, <2>4 DEF Reject, Accept, Transition, TypeOK
        <3>2. \/ v = "rejected" /\ pc[w] = "REJECTING"
              \/ v = "accepted" /\ pc[w] = "ACCEPTING"
            BY <1>1, <1>3, <2>4, <3>1 DEF Reject, Accept, Transition, Go, TypeOK
        <3>3. QED
            BY <3>1, <3>2 DEF VerdictInv, Judging
    <2>5. QED
        BY <2>2, <2>3, <2>4
<1>4. ASSUME NEW v \in {"accepted", "rejected"}, receipt'[g].state = v, receipt[g].state # v
      PROVE  Right(v, package'[g])
    <2>1. PICK w \in Workers : /\ MarkLifecycle(w) /\ gen[w] = g
                              /\ pc[w] = IF v = "accepted" THEN "MARK_ACCEPTED" ELSE "MARK_REJECTED"
        BY <1>4, MarkingStep
    <2>2. package' = package
        BY <2>1 DEF MarkLifecycle
    <2>3. QED
        BY <2>1, <2>2 DEF VerdictInv, Judging
<1>5. QED
    BY <1>2, <1>3, <1>4

LEMMA VerdictHolds == AnySpec => [](TypeInv /\ PackInv /\ VerdictInv)
<1>1. AnyInit => VerdictInv
    BY DEF AnyInit, InitWith, VerdictInv, Judged, Judging, NoReceipt, Processes
<1>2. TypeInv /\ PackInv /\ VerdictInv /\ [Next]_vars => VerdictInv'
    <2> SUFFICES ASSUME TypeInv, PackInv, VerdictInv, [Next]_vars PROVE VerdictInv'
        OBVIOUS
    <2>1. CASE Next
        BY <2>1, JudgedStep, JudgingStep DEF VerdictInv
    <2>2. CASE UNCHANGED vars
        BY <2>2 DEF vars, files, VerdictInv, Judged, Judging
    <2>3. QED
        BY <2>1, <2>2
<1>3. QED
    BY <1>1, <1>2, PackHolds, PTL DEF AnySpec

(* No generation is accepted and rejected, in the directories or in its      *)
(* receipt, and either verdict is the one the validator gives.               *)
THEOREM VerdictsStand == Spec \/ BacklogSpec => []OneVerdict
<1>1. VerdictInv => OneVerdict
    BY DEF VerdictInv, Judged, OneVerdict
<1>2. QED
    BY <1>1, VerdictHolds, SpecsStart, PTL

-----------------------------------------------------------------------------
(* Why the pointer stands while deliveries are worked on one by one: what a  *)
(* worker compared and what it will remove stays true until it is done.      *)
OneBusy == \A v, w \in Workers : pc[v] # "IDLE" /\ pc[w] # "IDLE" => v = w
WritesNewer == \A w \in Workers : pc[w] = "WRITING" =>
              /\ gen[w] \in Accepted
              /\ current # NoGeneration => TimeOf(gen[w]) > TimeOf(current)
Spared  == \A w \in Workers : pc[w] = "PRUNING" => current \notin doomed[w]
CurrentInv == ~overlap => OneBusy /\ WritesNewer /\ Spared /\ (current # NoGeneration => current \in Accepted)

LEMMA OneBusyStep ==
    ASSUME TypeInv, OneBusy, ~overlap, Next, ~overlap'
    PROVE  OneBusy'
<1> USE DEF files, locks, mail, reads, work, Local
<1>1. TypeOK
    BY DEF TypeInv
<1>2. ASSUME NEW v \in Workers, pc'[v] # "IDLE", pc[v] = "IDLE"
      PROVE  \A w \in Workers : w # v => pc'[w] = "IDLE"
    <2>1. v \in Processes /\ v \notin Publishers /\ v \notin Uploads
        BY ProcessesAssumption DEF Processes
    <2>2. CASE Untouched(v)
        BY <1>2, <2>2 DEF Untouched
    <2>3. CASE Common(v)
        BY <1>1, <1>2, <2>1, <2>3 DEF Common, TakeLock, DropLock, Fail, Crash, Go
    <2>4. CASE WorkNext(v)
        <3>1. \E g \in Generations, n \in 0..DeliveryLimit : Deliver(v, g, n)
            BY <1>2, <2>4 DEF WorkNext, Decide, Reject, Accept, Transition, MarkLifecycle, Activate,
               WriteCurrent, Retain, Prune, Ack, LoseChannel, Go
        <3>2. pc' = [pc EXCEPT ![v] = "DELIVERED"] /\ \A w \in Workers : pc[w] = "IDLE"
            BY <3>1 DEF Deliver, Go
        <3>3. QED
            BY <1>1, <3>2 DEF TypeOK, Processes
    <2>5. QED
        BY <2>1, <2>2, <2>3, <2>4, Bystander
<1>3. SUFFICES ASSUME NEW v \in Workers, NEW w \in Workers, pc'[v] # "IDLE", pc'[w] # "IDLE", v # w
               PROVE  FALSE
    BY DEF OneBusy
<1>4. pc[v] # "IDLE" /\ pc[w] # "IDLE"
    BY <1>2, <1>3
<1>5. QED
    BY <1>3, <1>4 DEF OneBusy

(* A worker keeps the generation it decided on to the end.                   *)
LEMMA WorkGoesOn ==
    ASSUME TypeInv, Next, NEW w \in Workers, pc'[w] \in {"WRITING", "PRUNING"}
    PROVE  \/ Untouched(w)
           \/ Activate(w) \/ Retain(w) \/ Prune(w)
           \/ LoseChannel(w)
<1>1. TypeOK /\ w \in Processes /\ w \notin Publishers /\ w \notin Uploads
    BY ProcessesAssumption DEF TypeInv, Processes
<1>2. CASE WorkNext(w)
    <2>1. CASE Ack(w) \/ \E g \in Generations, n \in 0..DeliveryLimit : Deliver(w, g, n)
        BY <1>1, <2>1 DEF Ack, Deliver, Go, Forget, TypeOK
    <2>2. CASE Decide(w)
        BY <1>1, <2>2 DEF Decide, Go, TypeOK
    <2>3. CASE Reject(w) \/ Accept(w) \/ MarkLifecycle(w) \/ WriteCurrent(w)
        BY <1>1, <2>3 DEF Reject, Accept, Transition, MarkLifecycle, WriteCurrent, Go, TypeOK
    <2>4. QED
        BY <1>2, <2>1, <2>2, <2>3 DEF WorkNext
<1>3. CASE Common(w)
    BY <1>1, <1>3 DEF Common, TakeLock, DropLock, Fail, Crash, Go, Forget, TypeOK
<1>4. QED
    BY <1>1, <1>2, <1>3, Bystander

(* Only the one that writes moves the pointer, and only to what is accepted  *)
(* and newer.                                                                *)
LEMMA CurrentMoves ==
    ASSUME Next
    PROVE  current' = current \/ \E w \in Workers : WriteCurrent(w)
<1> USE DEF files
<1>1. ASSUME NEW u \in Uploads, UploadNext(u) PROVE current' = current
    BY <1>1 DEF UploadNext, Upload, Look, LinkPackage, EnsureReceipt, Extract, TakeGate, Promote,
       DropGate
<1>2. ASSUME NEW b \in Publishers, PublishNext(b) PROVE current' = current
    BY <1>2 DEF PublishNext, StartPublish, Publish, MarkPublished
<1>3. ASSUME NEW w \in Workers, WorkNext(w) PROVE WriteCurrent(w) \/ current' = current
    BY <1>3 DEF WorkNext, Deliver, Decide, Reject, Accept, Transition, MarkLifecycle, Activate,
       Retain, Prune, Ack, LoseChannel
<1>4. ASSUME NEW p \in Processes, Common(p) PROVE current' = current
    BY <1>4 DEF Common, TakeLock, DropLock, Fail, Crash
<1>5. QED
    BY <1>1, <1>2, <1>3, <1>4 DEF Next, Common

LEMMA WrittenNewer ==
    ASSUME TypeInv, CurrentInv, ~overlap, NEW w \in Workers, WriteCurrent(w)
    PROVE  /\ current' = gen[w] /\ gen[w] \in Accepted' /\ dirs' = dirs
           /\ current # NoGeneration => TimeOf(gen[w]) > TimeOf(current)
BY DEF files, WriteCurrent, Go, CurrentInv, WritesNewer, Accepted

(* What is accepted stays so, unless a worker prunes it.                     *)
LEMMA AcceptedStays ==
    ASSUME TypeInv, Next, NEW g \in Accepted, g \notin Accepted'
    PROVE  \E w \in Workers : Prune(w) /\ g \in doomed[w] /\ pc[w] = "PRUNING"
<1>1. TypeOK /\ g \in Generations /\ "accepted" \in dirs[g] /\ "accepted" \notin dirs'[g]
    BY DEF TypeInv, Accepted
<1>2. ASSUME NEW u \in Uploads, Promote(u) PROVE FALSE
    BY <1>1, <1>2 DEF Promote, TypeOK
<1>3. ASSUME NEW w \in Workers, Reject(w) \/ Accept(w) PROVE FALSE
    BY <1>1, <1>3 DEF Reject, Accept, Transition, TypeOK
<1>4. PICK w \in Workers : Prune(w)
    BY <1>1, <1>2, <1>3, DirsStep
<1>5. g \in doomed[w] /\ pc[w] = "PRUNING"
    BY <1>1, <1>4 DEF Prune, TypeOK
<1>6. QED
    BY <1>4, <1>5

(* The time of what is accepted does not change.                             *)
LEMMA TimeStays ==
    ASSUME TypeInv, PackInv, Next, NEW g \in Accepted
    PROVE  package'[g] = package[g]
<1>1. g \in Generations /\ package[g] \in Packages
    BY PackagesAssumption DEF Accepted, PackInv, ReceiptMatches
<1>2. QED
    BY <1>1, Stays

LEMMA CurrentStep ==
    ASSUME TypeInv, PackInv, CurrentInv, Next
    PROVE  CurrentInv'
<1> USE DEF files, locks, mail, reads, work, Local
<1>1. SUFFICES ASSUME ~overlap'
               PROVE  (OneBusy /\ WritesNewer /\ Spared /\ (current # NoGeneration => current \in Accepted))'
    BY DEF CurrentInv
<1>2. ~overlap
    <2>1. ASSUME NEW u \in Uploads, UploadNext(u) PROVE overlap' = overlap
        BY <2>1 DEF UploadNext, Upload, Look, LinkPackage, EnsureReceipt, Extract, TakeGate, Promote,
           DropGate
    <2>2. ASSUME NEW b \in Publishers, PublishNext(b) PROVE overlap' = overlap
        BY <2>2 DEF PublishNext, StartPublish, Publish, MarkPublished
    <2>3. ASSUME NEW w \in Workers, WorkNext(w) PROVE overlap => overlap'
        BY <2>3 DEF WorkNext, Deliver, Decide, Reject, Accept, Transition, MarkLifecycle, Activate,
           WriteCurrent, Retain, Prune, Ack, LoseChannel
    <2>4. ASSUME NEW p \in Processes, Common(p) PROVE overlap' = overlap
        BY <2>4 DEF Common, TakeLock, DropLock, Fail, Crash
    <2>5. QED
        BY <1>1, <2>1, <2>2, <2>3, <2>4 DEF Next, Common
<1>3. TypeOK /\ OneBusy /\ WritesNewer /\ Spared /\ (current # NoGeneration => current \in Accepted)
    BY <1>2 DEF TypeInv, CurrentInv
<1>4. OneBusy'
    BY <1>1, <1>2, <1>3, OneBusyStep
<1>5. current' # NoGeneration => current' \in Accepted'
    <2>1. CASE current' = current
        <3>1. ASSUME NEW w \in Workers, Prune(w), pc[w] = "PRUNING" PROVE current \notin doomed[w]
            BY <1>3, <3>1 DEF Spared
        <3>2. QED
            BY <1>3, <2>1, <3>1, AcceptedStays
    <2>2. CASE \E w \in Workers : WriteCurrent(w)
        BY <1>2, <2>2, WrittenNewer
    <2>3. QED
        BY <2>1, <2>2, CurrentMoves
<1>6. WritesNewer'
    <2> SUFFICES ASSUME NEW w \in Workers, pc'[w] = "WRITING"
                 PROVE  /\ gen'[w] \in Accepted'
                        /\ current' # NoGeneration =>
                              Time[package'[gen'[w]]] > Time[package'[current']]
        BY DEF WritesNewer, TimeOf
    <2>1. w \in Processes
        BY DEF Processes
    <2>2. /\ gen'[w] = gen[w] /\ gen[w] \in Accepted
          /\ current # NoGeneration => TimeOf(gen[w]) > TimeOf(current)
        <3>1. CASE Untouched(w) \/ LoseChannel(w)
            BY <1>3, <3>1 DEF Untouched, LoseChannel, WritesNewer
        <3>2. CASE Activate(w)
            BY <1>3, <2>1, <3>2, PackagesAssumption DEF Activate, Go, TypeOK
        <3>3. CASE Retain(w) \/ Prune(w)
            BY <1>3, <2>1, <3>3 DEF Retain, Prune, Go, TypeOK
        <3>4. QED
            BY <3>1, <3>2, <3>3, WorkGoesOn
    <2>3. pc[w] \in {"WRITING", "ACTIVATING"}
        <3>1. CASE Untouched(w) \/ LoseChannel(w)
            BY <3>1 DEF Untouched, LoseChannel
        <3>2. CASE Activate(w) \/ Retain(w) \/ Prune(w)
            BY <1>3, <2>1, <3>2 DEF Activate, Retain, Prune, Go, TypeOK
        <3>3. QED
            BY <3>1, <3>2, WorkGoesOn
    <2>4. ASSUME NEW v \in Workers, Prune(v) \/ WriteCurrent(v) PROVE FALSE
        <3>1. pc[v] # "IDLE"
            BY <2>4 DEF Prune, WriteCurrent, Go
        <3>2. v = w
            BY <1>3, <2>3, <3>1 DEF OneBusy
        <3>3. pc'[w] # "WRITING"
            BY <1>3, <2>1, <2>3, <2>4, <3>2 DEF Prune, WriteCurrent, Go, TypeOK
        <3>4. QED
            BY <3>3
    <2>5. current' = current /\ gen[w] \in Accepted'
        BY <2>2, <2>4, CurrentMoves, AcceptedStays
    <2>6. package'[gen[w]] = package[gen[w]]
        BY <2>2, TimeStays
    <2>7. current # NoGeneration => package'[current] = package[current]
        BY <1>3, TimeStays
    <2>8. QED
        BY <2>2, <2>5, <2>6, <2>7 DEF TimeOf
<1>7. Spared'
    <2> SUFFICES ASSUME NEW w \in Workers, pc'[w] = "PRUNING" PROVE current' \notin doomed'[w]
        BY DEF Spared
    <2>1. w \in Processes
        BY DEF Processes
    <2>2. current \notin doomed'[w]
        <3>1. CASE Untouched(w) \/ LoseChannel(w)
            BY <1>3, <3>1 DEF Untouched, LoseChannel, Spared
        <3>2. CASE Activate(w)
            BY <1>3, <2>1, <3>2 DEF Activate, Go, TypeOK
        <3>3. CASE Retain(w)
            BY <1>3, <2>1, <3>3 DEF Retain, Go, TypeOK, Others
        <3>4. CASE Prune(w)
            BY <1>3, <2>1, <3>4 DEF Prune, Go, TypeOK, Spared
        <3>5. QED
            BY <3>1, <3>2, <3>3, <3>4, WorkGoesOn
    <2>3. pc[w] \in {"RETAINING", "PRUNING"}
        <3>1. CASE Untouched(w) \/ LoseChannel(w)
            BY <3>1 DEF Untouched, LoseChannel
        <3>2. CASE Activate(w) \/ Retain(w) \/ Prune(w)
            BY <1>3, <2>1, <3>2 DEF Activate, Retain, Prune, Go, TypeOK
        <3>3. QED
            BY <3>1, <3>2, WorkGoesOn
    <2>4. ASSUME NEW v \in Workers, WriteCurrent(v) PROVE FALSE
        <3>1. pc[v] = "WRITING"
            BY <2>4 DEF WriteCurrent, Go
        <3>2. QED
            BY <1>3, <2>3, <3>1 DEF OneBusy
    <2>5. QED
        BY <2>2, <2>4, CurrentMoves
<1>8. QED
    BY <1>4, <1>5, <1>6, <1>7

LEMMA CurrentHolds == AnySpec => [](TypeInv /\ PackInv /\ CurrentInv)
<1>1. AnyInit => CurrentInv
    BY DEF AnyInit, InitWith, CurrentInv, OneBusy, WritesNewer, Spared, Processes
<1>2. TypeInv /\ PackInv /\ CurrentInv /\ [Next]_vars => CurrentInv'
    <2> SUFFICES ASSUME TypeInv, PackInv, CurrentInv, [Next]_vars PROVE CurrentInv'
        OBVIOUS
    <2>1. CASE Next
        BY <2>1, CurrentStep
    <2>2. CASE UNCHANGED vars
        BY <2>2 DEF vars, files, reads, work, CurrentInv, OneBusy, WritesNewer, Spared, Accepted, TimeOf
    <2>3. QED
        BY <2>1, <2>2
<1>3. QED
    BY <1>1, <1>2, PackHolds, PTL DEF AnySpec

(* As long as no two deliveries are worked on at once, what the pointer      *)
(* names is on disk ...                                                      *)
THEOREM PointerStands == Spec \/ BacklogSpec => []CurrentStands
<1>1. CurrentInv => CurrentStands
    BY DEF CurrentInv, CurrentStands
<1>2. QED
    BY <1>1, CurrentHolds, SpecsStart, PTL

(* ... and it moves to newer generations only.                               *)
THEOREM PointerAdvances == Spec \/ BacklogSpec => NeverOlder
<1> DEFINE Advance == ~overlap /\ current' # current /\ current # NoGeneration =>
                         TimeOf(current') > TimeOf(current)
<1>1. TypeInv /\ PackInv /\ CurrentInv /\ [Next]_vars => [Advance]_vars
    <2> SUFFICES ASSUME TypeInv, CurrentInv, Next, ~overlap, current' # current, current # NoGeneration
                 PROVE  TimeOf(current') > TimeOf(current)
        BY DEF vars, files
    <2>1. PICK w \in Workers : WriteCurrent(w)
        BY CurrentMoves
    <2>2. QED
        BY <2>1, WrittenNewer
<1>2. QED
    BY <1>1, CurrentHolds, SpecsStart, PTL DEF AnySpec, NeverOlder

-----------------------------------------------------------------------------
(* Why enough newer generations stay: whatever is about to be removed, or is *)
(* gone after its verdict, has newer ones that nobody is about to remove.    *)
(* Two workers at once break no more than that: what the second one keeps    *)
(* and the first one removes has its own newer ones, and the second one      *)
(* spares those too.                                                         *)
Doomed == UNION {doomed[w] : w \in Workers}

AtRisk(g) ==
    \/ g \in Doomed
    \/ /\ g \notin Accepted
       /\ \/ receipt[g].state = "accepted"
          \/ \E w \in Workers : pc[w] = "MARK_ACCEPTED" /\ gen[w] = g

Witnessed(g) ==
    \E W \in SUBSET (Accepted \ Doomed) : Cardinality(W) >= Retained /\ \A h \in W : Newer(h, g)

Dated   == \A g \in Doomed : package[g] \in Packages
KeptInv == Dated /\ \A g \in Generations : AtRisk(g) => Witnessed(g)

LEMMA DoomedIn ==
    ASSUME TypeOK
    PROVE  Doomed \subseteq Generations
BY DEF TypeOK, Doomed

LEMMA AcceptedDated ==
    ASSUME PackInv, NEW g \in Accepted
    PROVE  g \in Generations /\ package[g] \in Packages
BY PackagesAssumption DEF Accepted, PackInv, ReceiptMatches

LEMMA RiskDated ==
    ASSUME TypeOK, VerdictInv, Dated, NEW g \in Generations, AtRisk(g)
    PROVE  package[g] \in Packages
BY PackagesAssumption DEF AtRisk, Dated, VerdictInv, Judged, Judging

(* Among generations with a manifest, the order of retention is one.         *)
LEMMA NewerIsOrder ==
    ASSUME NEW g \in Generations, NEW h \in Generations, NEW k \in Generations,
           package[g] \in Packages, package[h] \in Packages, package[k] \in Packages
    PROVE  /\ Newer(g, h) => ~Newer(h, g)
           /\ Newer(g, h) /\ Newer(h, k) => Newer(g, k)
<1>1. TimeOf(g) \in Nat /\ TimeOf(h) \in Nat /\ TimeOf(k) \in Nat
    BY PackagesAssumption DEF TimeOf
<1>2. IdRank[g] \in Nat /\ IdRank[h] \in Nat /\ IdRank[k] \in Nat
    BY IdsAssumption
<1>3. QED
    BY <1>1, <1>2 DEF Newer

LEMMA NewerStays ==
    ASSUME TypeInv, Next, NEW g \in Generations, NEW h \in Generations,
           package[g] \in Packages, package[h] \in Packages, Newer(h, g)
    PROVE  Newer(h, g)'
<1>1. package'[g] = package[g] /\ package'[h] = package[h]
    BY Stays
<1>2. QED
    BY <1>1 DEF Newer, TimeOf

(* Only retention dooms.                                                     *)
LEMMA DoomedStep ==
    ASSUME TypeInv, Next, NEW w \in Workers, doomed'[w] # doomed[w]
    PROVE  doomed'[w] \subseteq doomed[w] \/ Retain(w)
<1> USE DEF files, locks, mail, reads, work, Local
<1>1. TypeOK /\ w \in Processes /\ w \notin Publishers /\ w \notin Uploads
    BY ProcessesAssumption DEF TypeInv, Processes
<1>2. CASE WorkNext(w)
    <2>1. CASE Ack(w)
        BY <1>1, <2>1 DEF Ack, Forget, TypeOK
    <2>2. CASE Prune(w)
        BY <1>1, <2>2 DEF Prune, TypeOK
    <2>3. CASE LoseChannel(w) \/ \E g \in Generations, n \in 0..DeliveryLimit : Deliver(w, g, n)
        BY <2>3 DEF LoseChannel, Deliver
    <2>4. CASE \/ Decide(w) \/ Reject(w) \/ Accept(w) \/ MarkLifecycle(w)
               \/ Activate(w) \/ WriteCurrent(w)
        BY <2>4 DEF Decide, Reject, Accept, Transition, MarkLifecycle, Activate, WriteCurrent
    <2>5. QED
        BY <1>2, <2>1, <2>2, <2>3, <2>4 DEF WorkNext
<1>3. CASE Common(w)
    BY <1>1, <1>3 DEF Common, TakeLock, DropLock, Fail, Crash, Forget, TypeOK
<1>4. QED
    BY <1>1, <1>2, <1>3, Bystander DEF Untouched

(* Nothing else puts a generation at risk.                                   *)
LEMMA RiskStep ==
    ASSUME TypeInv, Next, NEW g \in Generations, AtRisk(g)', g \in Doomed' => g \in Doomed
    PROVE  AtRisk(g)
<1> USE DEF files, locks, mail, reads, work, Local
<1>1. TypeOK
    BY DEF TypeInv
<1>2. CASE g \in Doomed'
    BY <1>2 DEF AtRisk
<1>3. CASE g \in Accepted /\ g \notin Accepted'
    BY <1>3, AcceptedStays DEF AtRisk, Doomed
<1>4. CASE g \notin Accepted /\ receipt'[g].state = "accepted"
    <2>1. CASE receipt[g].state = "accepted"
        BY <1>4, <2>1 DEF AtRisk
    <2>2. CASE receipt[g].state # "accepted"
        <3>1. PICK w \in Workers : gen[w] = g /\ pc[w] = "MARK_ACCEPTED"
            BY <1>4, <2>2, MarkingStep
        <3>2. QED
            BY <1>4, <3>1 DEF AtRisk
    <2>3. QED
        BY <2>1, <2>2
<1>5. ASSUME g \notin Accepted, g \notin Accepted',
             NEW w \in Workers, pc'[w] = "MARK_ACCEPTED", gen'[w] = g
      PROVE  AtRisk(g)
    <2>1. w \in Processes /\ w \notin Publishers /\ w \notin Uploads
        BY ProcessesAssumption DEF Processes
    <2>2. CASE Untouched(w)
        BY <1>5, <2>2 DEF Untouched, AtRisk
    <2>3. CASE WorkNext(w)
        <3>1. CASE Decide(w)
            <4>1. gen[w] = g /\ Status(g) = "accepted"
                BY <1>1, <1>5, <2>1, <3>1 DEF Decide, Go, TypeOK
            <4>2. "accepted" \in dirs[g]
                BY <4>1 DEF Status
            <4>3. QED
                BY <1>5, <4>2 DEF Accepted
        <3>2. CASE Accept(w)
            <4>1. gen[w] = g /\ dirs' = [dirs EXCEPT ![g] = (@ \ {"incoming"}) \cup {"accepted"}]
                BY <1>5, <3>2 DEF Accept, Transition
            <4>2. g \in Accepted'
                BY <1>1, <4>1 DEF Accepted, TypeOK
            <4>3. QED
                BY <1>5, <4>2
        <3>3. CASE LoseChannel(w)
            BY <1>5, <3>3 DEF LoseChannel, AtRisk
        <3>4. CASE Ack(w) \/ \E h \in Generations, n \in 0..DeliveryLimit : Deliver(w, h, n)
            BY <1>1, <1>5, <2>1, <3>4 DEF Ack, Forget, Deliver, Go, TypeOK
        <3>5. CASE Reject(w) \/ MarkLifecycle(w) \/ Activate(w) \/ WriteCurrent(w) \/ Retain(w) \/ Prune(w)
            BY <1>1, <1>5, <2>1, <3>5 DEF Reject, Transition, MarkLifecycle, Activate, WriteCurrent,
               Retain, Prune, Go, TypeOK
        <3>6. QED
            BY <2>3, <3>1, <3>2, <3>3, <3>4, <3>5 DEF WorkNext
    <2>4. CASE Common(w)
        BY <1>1, <1>5, <2>1, <2>4 DEF Common, TakeLock, DropLock, Fail, Crash, Go, Forget, TypeOK
    <2>5. QED
        BY <2>1, <2>2, <2>3, <2>4, Bystander
<1>6. QED
    BY <1>2, <1>3, <1>4, <1>5 DEF AtRisk

(* A witness that nobody is about to remove stays.                           *)
LEMMA WitnessStays ==
    ASSUME TypeInv, PackInv, Next, NEW g \in Generations, package[g] \in Packages,
           NEW W \in SUBSET (Accepted \ Doomed), Cardinality(W) >= Retained,
           \A h \in W : Newer(h, g), W \cap Doomed' = {}
    PROVE  Witnessed(g)'
<1>1. ASSUME NEW h \in W
      PROVE  h \in Accepted' /\ Newer(h, g)'
    <2>1. h \in Accepted /\ h \notin Doomed
        OBVIOUS
    <2>2. h \in Accepted'
        BY <2>1, AcceptedStays DEF Doomed
    <2>3. h \in Generations /\ package[h] \in Packages
        BY <2>1, AcceptedDated
    <2>4. QED
        BY <1>1, <2>2, <2>3, NewerStays
<1>2. W \in SUBSET (Accepted' \ Doomed')
    BY <1>1
<1>3. QED
    BY <1>1, <1>2 DEF Witnessed

(* What a worker spares, or what an earlier worker spared, is newer than all *)
(* that it dooms.                                                            *)
LEMMA RetainSpares ==
    ASSUME TypeInv, PackInv, KeptInv, NEW w \in Workers, Retain(w), doomed' # doomed
    PROVE  \E W \in SUBSET (Accepted \ Doomed) :
              /\ Cardinality(W) >= Retained /\ W \cap doomed'[w] = {}
              /\ \A h \in W, d \in doomed'[w] : Newer(h, d)
<1>1. PICK K \in SUBSET Others :
          /\ Cardinality(K) = Retained
          /\ \A g \in K, h \in Others \ K : Newer(g, h)
          /\ doomed' = [doomed EXCEPT ![w] = Others \ K]
    BY DEF Retain
<1>2. doomed'[w] = Others \ K
    BY <1>1 DEF TypeInv, TypeOK
<1>3. ASSUME NEW g \in Others PROVE g \in Accepted /\ g \in Generations /\ package[g] \in Packages
    BY AcceptedDated DEF Others
<1>4. CASE K \cap Doomed = {}
    <2>1. K \in SUBSET (Accepted \ Doomed)
        BY <1>3, <1>4
    <2>2. Cardinality(K) >= Retained
        BY <1>1, BoundsAssumption
    <2>3. QED
        BY <1>1, <1>2, <2>1, <2>2
<1>5. ASSUME NEW x \in K, x \in Doomed
      PROVE  \E W \in SUBSET (Accepted \ Doomed) :
                /\ Cardinality(W) >= Retained /\ W \cap doomed'[w] = {}
                /\ \A h \in W, d \in doomed'[w] : Newer(h, d)
    <2>1. x \in Others /\ x \in Generations /\ package[x] \in Packages
        BY <1>3
    <2>2. PICK W \in SUBSET (Accepted \ Doomed) : Cardinality(W) >= Retained /\ \A h \in W : Newer(h, x)
        BY <1>5, <2>1 DEF KeptInv, AtRisk, Witnessed
    <2>3. ASSUME NEW h \in W PROVE Newer(h, x) /\ h \in Generations /\ package[h] \in Packages
        <3>1. h \in Accepted
            OBVIOUS
        <3>2. QED
            BY <2>2, <2>3, <3>1, AcceptedDated
    <2>4. ASSUME NEW d \in doomed'[w] PROVE Newer(x, d) /\ d \in Generations /\ package[d] \in Packages
        BY <1>1, <1>2, <1>3, <2>4
    <2>5. W \cap doomed'[w] = {}
        <3> SUFFICES ASSUME NEW h \in W, h \in doomed'[w] PROVE FALSE
            OBVIOUS
        <3>1. Newer(h, x) /\ Newer(x, h) /\ h \in Generations /\ package[h] \in Packages
            BY <2>3, <2>4
        <3>2. QED
            BY <2>1, <3>1, NewerIsOrder
    <2>6. ASSUME NEW h \in W, NEW d \in doomed'[w] PROVE Newer(h, d)
        <3>1. Newer(h, x) /\ Newer(x, d) /\ h \in Generations /\ package[h] \in Packages
              /\ d \in Generations /\ package[d] \in Packages
            BY <2>3, <2>4
        <3>2. QED
            BY <2>1, <3>1, NewerIsOrder
    <2>7. QED
        BY <2>2, <2>5, <2>6
<1>6. QED
    BY <1>4, <1>5

LEMMA KeptStep ==
    ASSUME TypeInv, PackInv, VerdictInv, KeptInv, Next
    PROVE  KeptInv'
<1>1. TypeOK /\ Dated /\ Doomed \subseteq Generations
    BY DoomedIn DEF TypeInv, KeptInv
<1>2. ASSUME NEW g \in Doomed PROVE package'[g] \in Packages
    BY <1>1, <1>2, Stays DEF Dated
<1>3. ASSUME NEW g \in Generations, AtRisk(g)
      PROVE  \E W \in SUBSET (Accepted \ Doomed) : Cardinality(W) >= Retained /\ \A h \in W : Newer(h, g)
    BY <1>3 DEF KeptInv, Witnessed
<1>4. ASSUME NEW g \in Generations, AtRisk(g) PROVE package[g] \in Packages
    BY <1>1, <1>4, RiskDated
<1>5. CASE Doomed' \subseteq Doomed
    <2>1. Dated'
        BY <1>2, <1>5 DEF Dated
    <2>2. ASSUME NEW g \in Generations, AtRisk(g)' PROVE Witnessed(g)'
        <3>1. AtRisk(g)
            BY <1>5, <2>2, RiskStep
        <3>2. PICK W \in SUBSET (Accepted \ Doomed) : Cardinality(W) >= Retained /\ \A h \in W : Newer(h, g)
            BY <1>3, <3>1
        <3>3. W \cap Doomed' = {} /\ package[g] \in Packages
            BY <1>4, <1>5, <3>1
        <3>4. QED
            BY <3>2, <3>3, WitnessStays
    <2>3. QED
        BY <2>1, <2>2 DEF KeptInv
<1>6. CASE ~(Doomed' \subseteq Doomed)
    <2>1. PICK w \in Workers : ~(doomed'[w] \subseteq Doomed)
        BY <1>6 DEF Doomed
    <2>2. Retain(w) /\ doomed' # doomed
        BY <2>1, DoomedStep DEF Doomed
    <2>3. PICK W \in SUBSET (Accepted \ Doomed) :
              /\ Cardinality(W) >= Retained /\ W \cap doomed'[w] = {}
              /\ \A h \in W, d \in doomed'[w] : Newer(h, d)
        BY <2>2, RetainSpares DEF KeptInv
    <2>4. doomed'[w] \subseteq Accepted
        BY <1>1, <2>2 DEF Retain, Others, TypeOK
    <2>5. \A v \in Workers : v # w => doomed'[v] = doomed[v]
        BY <1>1, <2>2 DEF Retain, TypeOK
    <2>6. Doomed' \subseteq Doomed \cup doomed'[w]
        BY <2>5 DEF Doomed
    <2>7. ASSUME NEW d \in doomed'[w] PROVE d \in Generations /\ package[d] \in Packages
        BY <2>4, <2>7, AcceptedDated
    <2>8. ASSUME NEW h \in W PROVE h \in Generations /\ package[h] \in Packages
        <3>1. h \in Accepted
            OBVIOUS
        <3>2. QED
            BY <3>1, AcceptedDated
    <2>9. Dated'
        <3>1. package' = package
            BY <2>2 DEF Retain, files
        <3>2. QED
            BY <1>2, <2>6, <2>7, <3>1 DEF Dated
    <2>10. W \cap Doomed' = {}
        BY <2>3, <2>6
    <2>11. ASSUME NEW g \in Generations, AtRisk(g)' PROVE Witnessed(g)'
        <3>1. CASE g \in doomed'[w]
            BY <2>3, <2>7, <2>10, <3>1, WitnessStays
        <3>2. CASE g \notin doomed'[w]
            <4>1. AtRisk(g)
                BY <2>6, <2>11, <3>2, RiskStep
            <4>2. PICK V \in SUBSET (Accepted \ Doomed) :
                      Cardinality(V) >= Retained /\ \A h \in V : Newer(h, g)
                BY <1>3, <4>1
            <4>3. package[g] \in Packages
                BY <1>4, <4>1
            <4>4. CASE V \cap doomed'[w] = {}
                <5>1. V \cap Doomed' = {}
                    BY <2>6, <4>4
                <5>2. QED
                    BY <4>2, <4>3, <5>1, WitnessStays
            <4>5. ASSUME NEW d \in V, d \in doomed'[w] PROVE Witnessed(g)'
                <5>1. ASSUME NEW h \in W PROVE Newer(h, g)
                    <6>1. Newer(h, d) /\ Newer(d, g)
                        BY <2>3, <4>2, <4>5
                    <6>2. QED
                        BY <2>7, <2>8, <4>3, <4>5, <6>1, NewerIsOrder
                <5>2. QED
                    BY <2>3, <2>10, <4>3, <5>1, WitnessStays
            <4>6. QED
                BY <4>4, <4>5
        <3>3. QED
            BY <3>1, <3>2
    <2>12. QED
        BY <2>9, <2>11 DEF KeptInv
<1>7. QED
    BY <1>5, <1>6

(* A witness is a set of newer accepted generations.                         *)
LEMMA WitnessCounts ==
    ASSUME TypeOK, KeptInv
    PROVE  NewestKept
<1> SUFFICES ASSUME NEW g \in Generations, receipt[g].state = "accepted", g \notin Accepted
             PROVE  Cardinality({h \in Accepted : Newer(h, g)}) >= Retained
    BY DEF NewestKept
<1> DEFINE N == {h \in Accepted : Newer(h, g)}
<1>1. PICK W \in SUBSET (Accepted \ Doomed) : Cardinality(W) >= Retained /\ \A h \in W : Newer(h, g)
    BY DEF KeptInv, AtRisk, Witnessed
<1>2. W \subseteq N /\ N \subseteq Generations
    BY <1>1 DEF Accepted
<1>3. IsFiniteSet(N)
    BY <1>2, BoundsAssumption, FS_Subset
<1>4. Cardinality(W) \in Nat /\ Cardinality(N) \in Nat /\ Cardinality(W) <= Cardinality(N)
    BY <1>2, <1>3, FS_Subset, FS_CardinalityType
<1>5. Cardinality(N) >= Retained
    BY <1>1, <1>4, BoundsAssumption
<1>6. QED
    BY <1>5

LEMMA KeptHolds == AnySpec => [](TypeInv /\ PackInv /\ VerdictInv /\ KeptInv)
<1>1. AnyInit => KeptInv
    <2> SUFFICES ASSUME NEW uploaded \in SUBSET Generations, InitWith(uploaded) PROVE KeptInv
        BY DEF AnyInit
    <2>1. /\ doomed = [w \in Workers |-> {}] /\ pc = [p \in Processes |-> "IDLE"]
          /\ \A g \in Generations : receipt[g].state # "accepted"
        BY DEF InitWith, NoReceipt
    <2>2. Doomed = {}
        BY <2>1 DEF Doomed
    <2>3. QED
        BY <2>1, <2>2 DEF KeptInv, Dated, AtRisk, Processes
<1>2. TypeInv /\ PackInv /\ VerdictInv /\ KeptInv /\ [Next]_vars => KeptInv'
    <2> SUFFICES ASSUME TypeInv, PackInv, VerdictInv, KeptInv, [Next]_vars PROVE KeptInv'
        OBVIOUS
    <2>1. CASE Next
        BY <2>1, KeptStep
    <2>2. CASE UNCHANGED vars
        <3>1. UNCHANGED <<package, receipt, dirs, pc, gen, doomed>>
            BY <2>2 DEF vars, files, work
        <3>2. QED
            BY <3>1 DEF KeptInv, Dated, AtRisk, Witnessed, Doomed, Accepted, Newer, TimeOf
    <2>3. QED
        BY <2>1, <2>2
<1>3. QED
    BY <1>1, <1>2, VerdictHolds, PTL DEF AnySpec

(* However many workers decide and remove at once, whatever is interrupted   *)
(* and delivered again: of any generation that is gone after its verdict,    *)
(* enough newer ones are kept.                                               *)
THEOREM NewestStay == Spec \/ BacklogSpec => []NewestKept
<1>1. TypeInv /\ KeptInv => NewestKept
    BY WitnessCounts DEF TypeInv
<1>2. QED
    BY <1>1, KeptHolds, SpecsStart, PTL

=============================================================================

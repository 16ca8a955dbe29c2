--------------------------- MODULE PlayerAnalytics ---------------------------
(***************************************************************************)
(* Generations of player analytics: uploaded to the API, announced over    *)
(* RabbitMQ, judged and activated by a worker.  All shared state but the   *)
(* queue is files, and every file operation is a step: a process may fail  *)
(* or crash between any two of them, and others go on meanwhile.           *)
(*                                                                         *)
(* The per-generation lifecycle lock and the per-generation promotion lock *)
(* are files created with O_EXCL.  A process that fails removes them in a  *)
(* finally block; one that crashes leaves them behind, and nothing ever    *)
(* removes them.  Waiting for a lock is bounded (100 attempts): giving up  *)
(* is one of the failures.                                                 *)
(***************************************************************************)
EXTENDS Naturals, FiniteSets, FiniteSetsExt

CONSTANTS
    Generations,  \* generation ids
    Packages,     \* contents of uploaded archives
    For,          \* generationId in the manifest of a package
    Time,         \* generatedAt in the manifest of a package
    IdRank,       \* place of a generation id in the order of localeCompare
    WellFormed,   \* packages that pass the checks of the ingestion
    Valid,        \* packages that pass the validator of the worker too
    Uploads,      \* PUT requests
    Publishers,   \* best-effort publication after a PUT, reconciliation
    Workers,      \* consumers of the queue
    Retained,     \* accepted generations kept besides the current one
    DeliveryLimit,  \* how often a message returns to the queue
    MaxCopies,    \* bound on the messages of one generation
    NoGeneration, NoPackage

ASSUME PackagesAssumption ==
    /\ For \in [Packages -> Generations] /\ Time \in [Packages -> Nat]
    /\ WellFormed \subseteq Packages /\ Valid \subseteq WellFormed
    /\ NoPackage \notin Packages /\ NoGeneration \notin Generations
ASSUME IdsAssumption ==
    /\ IdRank \in [Generations -> Nat]
    /\ \A g, h \in Generations : IdRank[g] = IdRank[h] => g = h
ASSUME ProcessesAssumption ==
    /\ Uploads \cap Publishers = {} /\ Uploads \cap Workers = {} /\ Publishers \cap Workers = {}
ASSUME BoundsAssumption == Retained \in Nat /\ MaxCopies \in Nat /\ DeliveryLimit \in Nat
                            /\ IsFiniteSet(Generations)

VARIABLES
    package,   \* tmp/packages/<generation>.tar.gz
    receipt,   \* delivery/<generation>.json
    dirs,      \* which of incoming, accepted and rejected has the generation
    current,   \* the pointer file
    lock,      \* tmp/lifecycle-locks/<generation>.lock
    gate,      \* tmp/extract/.publish-<generation>.lock
    queue,     \* messages of a generation that returned n times and wait
    dead,      \* generations with a message in the dead letter queue
    pc, gen,   \* where each process is, and with which generation
    file, known, seen,  \* of an upload: its archive, and what it has read
    doomed,    \* of a worker: the accepted generations it will remove
    returned,  \* of a worker: how often its message had returned
    attached,  \* workers whose delivery is not settled
    overlap    \* history: two deliveries have been worked on at once

files == <<package, receipt, dirs, current>>
locks == <<lock, gate>>
mail  == <<queue, dead>>
reads == <<file, known, seen>>
work  == <<doomed, returned, attached, overlap>>
vars  == <<files, locks, mail, pc, gen, reads, work>>

-----------------------------------------------------------------------------
Processes == Uploads \cup Publishers \cup Workers
Places    == {"incoming", "accepted", "rejected"}
Verdicts  == {"received", "accepted", "rejected"}
States    == Places \cup {"current", "not_found"}

Receipts  == [package : Packages \cup {NoPackage}, state : Verdicts \cup {"none"},
              published : BOOLEAN]
NoReceipt == [package |-> NoPackage, state |-> "none", published |-> FALSE]

UploadSteps  == {"RECEIPT_READ", "LOOKED", "LINKED", "ENSURING", "ENSURED",
                 "RECEIPTED", "EXTRACTED", "PROMOTING", "PROMOTED"}
PublishSteps == {"ELIGIBLE", "PUBLISHING", "CONFIRMED", "PUBLISHED"}
WorkSteps    == {"DELIVERED", "DECIDING", "REJECTING", "ACCEPTING", "MARK_REJECTED",
                 "MARK_ACCEPTED", "ACTIVATING", "WRITING", "RETAINING", "PRUNING", "DONE",
                 "ACKING"}

(* Where a process holds the lifecycle lock of its generation. *)
Locked == {"ENSURING", "ENSURED", "PUBLISHING", "CONFIRMED", "PUBLISHED"}
             \cup (WorkSteps \ {"DELIVERED", "ACKING"})
(* Where an upload holds the promotion lock of its generation. *)
Gated  == {"PROMOTING", "PROMOTED"}

TypeOK ==
    /\ package  \in [Generations -> Packages \cup {NoPackage}]
    /\ receipt  \in [Generations -> Receipts]
    /\ dirs     \in [Generations -> SUBSET Places]
    /\ current  \in Generations \cup {NoGeneration}
    /\ lock     \in [Generations -> {"FREE", "HELD", "STALE"}]
    /\ gate     \in [Generations -> {"FREE", "HELD", "STALE"}]
    /\ queue    \in [Generations \X (0..DeliveryLimit) -> Nat]
    /\ dead     \subseteq Generations
    /\ pc       \in [Processes -> {"IDLE"} \cup UploadSteps \cup PublishSteps \cup WorkSteps]
    /\ gen      \in [Processes -> Generations \cup {NoGeneration}]
    /\ file     \in [Uploads -> Packages \cup {NoPackage}]
    /\ known    \in [Uploads -> Verdicts \cup {"none"}]
    /\ seen     \in [Uploads -> States]
    /\ doomed   \in [Workers -> SUBSET Generations]
    /\ returned \in [Workers -> 0..DeliveryLimit]
    /\ attached \subseteq Workers
    /\ overlap  \in BOOLEAN

(* status() of the storage service *)
Status(g) ==
    IF current = g THEN "current"
    ELSE IF "accepted" \in dirs[g] THEN "accepted"
    ELSE IF "rejected" \in dirs[g] THEN "rejected"
    ELSE IF "incoming" \in dirs[g] THEN "incoming"
    ELSE "not_found"

Accepted    == {g \in Generations : "accepted" \in dirs[g]}
TimeOf(g)   == Time[package[g]]
Has(g)      == receipt[g].state # "none"

(* The given generations were uploaded and announced before, and wait: the   *)
(* worker was away.                                                          *)
InitWith(uploaded) ==
    /\ package \in [Generations -> Packages \cup {NoPackage}]
    /\ \A g \in Generations :
          IF g \in uploaded THEN package[g] \in WellFormed /\ For[package[g]] = g
                            ELSE package[g] = NoPackage
    /\ receipt = [g \in Generations |->
                    IF g \in uploaded
                    THEN [package |-> package[g], state |-> "received", published |-> TRUE]
                    ELSE NoReceipt]
    /\ dirs    = [g \in Generations |-> IF g \in uploaded THEN {"incoming"} ELSE {}]
    /\ current = NoGeneration
    /\ lock    = [g \in Generations |-> "FREE"]
    /\ gate    = [g \in Generations |-> "FREE"]
    /\ queue   = [m \in Generations \X (0..DeliveryLimit) |->
                    IF m[2] = 0 /\ m[1] \in uploaded THEN 1 ELSE 0]
    /\ dead    = {}
    /\ pc      = [p \in Processes |-> "IDLE"]
    /\ gen     = [p \in Processes |-> NoGeneration]
    /\ file    = [u \in Uploads |-> NoPackage]
    /\ known   = [u \in Uploads |-> "none"]
    /\ seen    = [u \in Uploads |-> "not_found"]
    /\ doomed   = [w \in Workers |-> {}]
    /\ returned = [w \in Workers |-> 0]
    /\ attached = {}
    /\ overlap  = FALSE

Init == InitWith({})

-----------------------------------------------------------------------------
Go(p, from, to) ==
    /\ pc[p] = from
    /\ pc' = [pc EXCEPT ![p] = to]

(* The operation of p is over: nothing of it is left in memory. *)
Forget(p) ==
    /\ pc'    = [pc EXCEPT ![p] = "IDLE"]
    /\ gen'   = [gen EXCEPT ![p] = NoGeneration]
    /\ file'  = [u \in Uploads |-> IF u = p THEN NoPackage ELSE file[u]]
    /\ known' = [u \in Uploads |-> IF u = p THEN "none" ELSE known[u]]
    /\ seen'  = [u \in Uploads |-> IF u = p THEN "not_found" ELSE seen[u]]
    /\ doomed'   = [w \in Workers |-> IF w = p THEN {} ELSE doomed[w]]
    /\ returned' = [w \in Workers |-> IF w = p THEN 0 ELSE returned[w]]

Local == UNCHANGED <<gen, reads, work>>

(* withLifecycleLock *)
TakeLock(p) ==
    /\ \/ Go(p, "LINKED", "ENSURING")
       \/ Go(p, "ELIGIBLE", "PUBLISHING")
       \/ Go(p, "DELIVERED", "DECIDING") /\ Has(gen[p])
    /\ lock[gen[p]] = "FREE"
    /\ lock' = [lock EXCEPT ![gen[p]] = "HELD"]
    /\ Local /\ UNCHANGED <<files, gate, mail>>

DropLock(p) ==
    /\ \/ Go(p, "ENSURED", "RECEIPTED") /\ UNCHANGED <<gen, reads, doomed, returned>>
       \/ Go(p, "DONE", "ACKING") /\ UNCHANGED <<gen, reads, doomed, returned>>
       \/ pc[p] = "PUBLISHED" /\ Forget(p)
    /\ lock' = [lock EXCEPT ![gen[p]] = "FREE"]
    /\ UNCHANGED <<files, gate, mail, attached, overlap>>

-----------------------------------------------------------------------------
(* ingest: the archive of a PUT has arrived, and the receipt is read.        *)
Upload(u, g, p) ==
    /\ Go(u, "IDLE", "RECEIPT_READ")
    /\ gen'   = [gen   EXCEPT ![u] = g]
    /\ file'  = [file  EXCEPT ![u] = p]
    /\ known' = [known EXCEPT ![u] = receipt[g].state]
    /\ UNCHANGED <<files, locks, mail, seen, work>>

(* status() looks at the places one after the other, without the lock: a     *)
(* generation that is accepted between its two looks is found nowhere.       *)
Look(u) == LET g == gen[u] IN
    /\ Go(u, "RECEIPT_READ", "LOOKED")
    /\ seen' = [seen EXCEPT ![u] = IF Status(g) = "incoming" THEN "not_found" ELSE Status(g)]
    /\ UNCHANGED <<files, locks, mail, gen, file, known, work>>

(* The state the upload finds: of a pruned generation only the receipt is left. *)
Found(u) ==
    IF seen[u] # "not_found" THEN seen[u]
    ELSE IF "incoming" \in dirs[gen[u]] THEN "incoming"
    ELSE IF known[u] \in {"accepted", "rejected"} THEN known[u]
    ELSE "not_found"

(* The first archive of a generation becomes its package: link() fails with  *)
(* EEXIST when another request was first.  Both refusals are Fail.           *)
LinkPackage(u) == LET g == gen[u] IN
    /\ Go(u, "LOOKED", "LINKED")
    /\ known[u] = "none" => Found(u) = "not_found"
    /\ known[u] # "none" /\ package[g] = NoPackage => Found(u) # "not_found"
    /\ seen'  = [seen  EXCEPT ![u] = Found(u)]
    /\ known' = [known EXCEPT ![u] = "none"]
    /\ package' = IF known[u] = "none" /\ package[g] = NoPackage
                  THEN [package EXCEPT ![g] = file[u]] ELSE package
    /\ UNCHANGED <<receipt, dirs, current, locks, mail, gen, file, work>>

(* Mutant: ensure takes an existing receipt for its own. *)
EnsureAnyReceipt(u) == LET g == gen[u] IN
    /\ Go(u, "ENSURING", "ENSURED")
    /\ receipt' = IF Has(g) THEN receipt
                  ELSE [receipt EXCEPT ![g] = [package |-> file[u], state |-> "received",
                                               published |-> FALSE]]
    /\ Local /\ UNCHANGED <<package, dirs, current, locks, mail>>

(* ensure: a receipt for another archive is a conflict (Fail). *)
EnsureReceipt(u) == LET g == gen[u] IN
    /\ Go(u, "ENSURING", "ENSURED")
    /\ Has(g) => receipt[g].package = file[u]
    /\ receipt' = IF Has(g) THEN receipt
                  ELSE [receipt EXCEPT ![g] = [package |-> file[u], state |-> "received",
                                               published |-> FALSE]]
    /\ Local /\ UNCHANGED <<package, dirs, current, locks, mail>>

(* inspectArchive, extractArchive and validateManifest: anything else is Fail. *)
Extractable(p, g) == p \in WellFormed /\ For[p] = g

(* A generation already decided or waiting is answered; otherwise the        *)
(* package is extracted into a directory of the request's own.               *)
Extract(u) == LET g == gen[u] IN
    /\ pc[u] = "RECEIPTED"
    /\ \/ /\ seen[u] # "not_found" \/ (package[g] = file[u] /\ "incoming" \in dirs[g])
          /\ Forget(u)
       \/ /\ seen[u] = "not_found" /\ package[g] = file[u] /\ "incoming" \notin dirs[g]
          /\ Extractable(file[u], g)
          /\ Go(u, "RECEIPTED", "EXTRACTED")
          /\ UNCHANGED <<gen, reads, doomed, returned>>
    /\ UNCHANGED <<files, locks, mail, attached, overlap>>

(* promoteExtractIfAbsent, under a lock of its own. *)
TakeGate(u) ==
    /\ Go(u, "EXTRACTED", "PROMOTING")
    /\ gate[gen[u]] = "FREE"
    /\ gate' = [gate EXCEPT ![gen[u]] = "HELD"]
    /\ Local /\ UNCHANGED <<files, lock, mail>>

Promote(u) == LET g == gen[u] IN
    /\ Go(u, "PROMOTING", "PROMOTED")
    /\ dirs' = [dirs EXCEPT ![g] = @ \cup {"incoming"}]
    /\ Local /\ UNCHANGED <<package, receipt, current, locks, mail>>

(* Whatever the answer is, the request is over. *)
DropGate(u) ==
    /\ pc[u] = "PROMOTED"
    /\ gate' = [gate EXCEPT ![gen[u]] = "FREE"]
    /\ Forget(u)
    /\ UNCHANGED <<files, lock, mail, attached, overlap>>

-----------------------------------------------------------------------------
(* publishGenerationReceivedIfEligible, after a PUT or for a generation that *)
(* the reconciliation lists: either way it was seen in incoming.             *)
StartPublish(b, g) ==
    /\ "incoming" \in dirs[g]
    /\ Go(b, "IDLE", "ELIGIBLE")
    /\ gen' = [gen EXCEPT ![b] = g]
    /\ UNCHANGED <<files, locks, mail, reads, work>>

Eligible(g) == receipt[g].state = "received" /\ ~receipt[g].published /\ Status(g) = "incoming"

(* The messages of a generation, waiting or out for delivery. *)
Copies(g) == MapThenSumSet(LAMBDA n : queue[<<g, n>>], 0..DeliveryLimit)
                + Cardinality({w \in attached : gen[w] = g})

(* Mutant: the confirmation of the broker is not waited for. *)
PublishUnconfirmed(b) == LET g == gen[b] IN
    /\ pc[b] = "PUBLISHING"
    /\ \/ /\ Eligible(g) /\ Copies(g) < MaxCopies
          /\ Go(b, "PUBLISHING", "CONFIRMED")
          /\ queue' = [queue EXCEPT ![<<g, 0>>] = @ + 1] \/ UNCHANGED queue
       \/ /\ ~Eligible(g)
          /\ Go(b, "PUBLISHING", "PUBLISHED")
          /\ UNCHANGED queue
    /\ Local /\ UNCHANGED <<files, locks, dead>>

(* publishConfirmed: the broker has the message, whether or not its          *)
(* confirmation arrives.                                                     *)
Publish(b) == LET g == gen[b] IN
    /\ pc[b] = "PUBLISHING"
    /\ \/ /\ Eligible(g) /\ Copies(g) < MaxCopies
          /\ Go(b, "PUBLISHING", "CONFIRMED")
          /\ queue' = [queue EXCEPT ![<<g, 0>>] = @ + 1]
       \/ /\ ~Eligible(g)
          /\ Go(b, "PUBLISHING", "PUBLISHED")
          /\ UNCHANGED queue
    /\ Local /\ UNCHANGED <<files, locks, dead>>

(* markPublishedWithinLock *)
MarkPublished(b) ==
    /\ Go(b, "CONFIRMED", "PUBLISHED")
    /\ receipt' = [receipt EXCEPT ![gen[b]].published = TRUE]
    /\ Local /\ UNCHANGED <<package, dirs, current, locks, mail>>

-----------------------------------------------------------------------------
(* A single active consumer with a prefetch of one: nothing is delivered     *)
(* while a delivery is not settled.                                          *)
Deliver(w, g, n) ==
    /\ attached = {}
    /\ queue[<<g, n>>] > 0
    /\ Go(w, "IDLE", "DELIVERED")
    /\ queue'    = [queue EXCEPT ![<<g, n>>] = @ - 1]
    /\ gen'      = [gen EXCEPT ![w] = g]
    /\ returned' = [returned EXCEPT ![w] = n]
    /\ attached' = {w}
    /\ overlap'  = (overlap \/ \E v \in Workers : pc[v] # "IDLE")
    /\ UNCHANGED <<files, locks, dead, reads, doomed>>

(* What the validator finds right in the extracted files. *)
Validates(p) == p \in Valid

(* Mutant: any error of the validator is a verdict. *)
DecideOnError(w) == LET g == gen[w] IN
    /\ pc[w] = "DECIDING"
    /\ \/ Status(g) = "incoming" /\ Validates(package[g]) /\ Go(w, "DECIDING", "ACCEPTING")
       \/ Status(g) = "incoming" /\ Go(w, "DECIDING", "REJECTING")
       \/ Status(g) = "accepted" /\ receipt[g].state # "accepted" /\ Go(w, "DECIDING", "MARK_ACCEPTED")
       \/ Status(g) = "rejected" /\ receipt[g].state # "rejected" /\ Go(w, "DECIDING", "MARK_REJECTED")
    /\ Local /\ UNCHANGED <<files, locks, mail>>

(* processGeneration: what state and receipt, read under the lock, ask for.  *)
(* A generation nobody knows is Fail, and so is an error of the validator.   *)
Decide(w) == LET g == gen[w] IN
    /\ pc[w] = "DECIDING"
    /\ \/ Status(g) = "not_found" /\ receipt[g].state # "received" /\ Go(w, "DECIDING", "DONE")
       \/ Status(g) = "rejected" /\ receipt[g].state # "rejected" /\ Go(w, "DECIDING", "MARK_REJECTED")
       \/ Status(g) = "rejected" /\ receipt[g].state = "rejected" /\ Go(w, "DECIDING", "DONE")
       \/ Status(g) = "incoming" /\ Validates(package[g]) /\ Go(w, "DECIDING", "ACCEPTING")
       \/ Status(g) = "incoming" /\ ~Validates(package[g]) /\ Go(w, "DECIDING", "REJECTING")
       \/ Status(g) = "accepted" /\ receipt[g].state # "accepted" /\ Go(w, "DECIDING", "MARK_ACCEPTED")
       \/ Status(g) = "accepted" /\ receipt[g].state = "accepted" /\ Go(w, "DECIDING", "ACTIVATING")
       \/ Status(g) = "current" /\ Go(w, "DECIDING", "ACTIVATING")
    /\ Local /\ UNCHANGED <<files, locks, mail>>

(* transition: one rename, refused when the destination exists. *)
Transition(w, from, to, place) == LET g == gen[w] IN
    /\ Go(w, from, to)
    /\ "incoming" \in dirs[g] /\ place \notin dirs[g]
    /\ dirs' = [dirs EXCEPT ![g] = (@ \ {"incoming"}) \cup {place}]
    /\ Local /\ UNCHANGED <<package, receipt, current, locks, mail>>

Reject(w) == Transition(w, "REJECTING", "MARK_REJECTED", "rejected")
Accept(w) == Transition(w, "ACCEPTING", "MARK_ACCEPTED", "accepted")

(* markLifecycleWithinLock *)
MarkLifecycle(w) ==
    /\ \/ /\ Go(w, "MARK_REJECTED", "DONE")
          /\ receipt' = [receipt EXCEPT ![gen[w]].state = "rejected"]
       \/ /\ Go(w, "MARK_ACCEPTED", "ACTIVATING")
          /\ receipt' = [receipt EXCEPT ![gen[w]].state = "accepted"]
    /\ Local /\ UNCHANGED <<package, dirs, current, locks, mail>>

(* Mutant: whatever was accepted last becomes the current generation. *)
ActivateLast(w) ==
    /\ \/ current = gen[w] /\ Go(w, "ACTIVATING", "RETAINING")
       \/ current # gen[w] /\ gen[w] \in Accepted /\ Go(w, "ACTIVATING", "WRITING")
    /\ Local /\ UNCHANGED <<files, locks, mail>>

(* activate: a manifest that cannot be read is Fail. *)
Activate(w) == LET g == gen[w] IN
    /\ \/ current = g /\ Go(w, "ACTIVATING", "RETAINING")
       \/ current = NoGeneration /\ g \in Accepted /\ Go(w, "ACTIVATING", "WRITING")
       \/ /\ current \in Accepted \ {g} /\ g \in Accepted
          /\ \/ TimeOf(g) > TimeOf(current) /\ Go(w, "ACTIVATING", "WRITING")
             \/ TimeOf(g) <= TimeOf(current) /\ Go(w, "ACTIVATING", "RETAINING")
    /\ Local /\ UNCHANGED <<files, locks, mail>>

(* writeCurrent: written aside and renamed. *)
WriteCurrent(w) ==
    /\ Go(w, "WRITING", "RETAINING")
    /\ current' = gen[w]
    /\ Local /\ UNCHANGED <<package, receipt, dirs, locks, mail>>

(* The order of retention: of the same age, by id. *)
Newer(g, h) == TimeOf(g) > TimeOf(h) \/ (TimeOf(g) = TimeOf(h) /\ IdRank[g] > IdRank[h])

(* Mutant: the current generation is not spared. *)
AllAccepted == Accepted

Others == Accepted \ {current}

(* Mutant: sorted the other way round. *)
RetainOldest(w) ==
    /\ Cardinality(Accepted) > Retained + 1
    /\ current \in Accepted
    /\ Go(w, "RETAINING", "PRUNING")
    /\ \E kept \in SUBSET Others :
          /\ Cardinality(kept) = Retained
          /\ \A g \in kept, h \in Others \ kept : Newer(h, g)
          /\ doomed' = [doomed EXCEPT ![w] = Others \ kept]
    /\ UNCHANGED <<files, locks, mail, gen, reads, returned, attached, overlap>>

(* retainAccepted: everything but the current generation and the newest      *)
(* others is to be removed.  Without a current generation among the accepted *)
(* ones it is Fail.                                                          *)
Retain(w) ==
    /\ \/ /\ Cardinality(Accepted) <= Retained + 1
          /\ Go(w, "RETAINING", "DONE")
          /\ UNCHANGED doomed
       \/ /\ Cardinality(Accepted) > Retained + 1
          /\ current \in Accepted
          /\ Go(w, "RETAINING", "PRUNING")
          /\ \E kept \in SUBSET Others :
                /\ Cardinality(kept) = Retained
                /\ \A g \in kept, h \in Others \ kept : Newer(g, h)
                /\ doomed' = [doomed EXCEPT ![w] = Others \ kept]
    /\ UNCHANGED <<files, locks, mail, gen, reads, returned, attached, overlap>>

(* One directory after the other; one that is gone is no error. *)
Prune(w) ==
    /\ \/ /\ doomed[w] = {}
          /\ Go(w, "PRUNING", "DONE")
          /\ UNCHANGED <<dirs, doomed>>
       \/ /\ pc[w] = "PRUNING" /\ UNCHANGED pc
          /\ \E g \in doomed[w] :
                /\ dirs'   = [dirs EXCEPT ![g] = @ \ {"accepted"}]
                /\ doomed' = [doomed EXCEPT ![w] = @ \ {g}]
    /\ UNCHANGED <<package, receipt, current, locks, mail, gen, reads, returned, attached, overlap>>

Ack(w) ==
    /\ pc[w] = "ACKING"
    /\ Forget(w)
    /\ attached' = attached \ {w}
    /\ UNCHANGED <<files, locks, mail, overlap>>

-----------------------------------------------------------------------------
(* The message of w goes back to the queue, or to the dead letter queue when *)
(* it was returned too often: the broker counts every return.                *)
GiveBack(w) ==
    /\ attached' = attached \ {w}
    /\ IF w \notin attached THEN UNCHANGED mail
       ELSE IF returned[w] < DeliveryLimit
       THEN queue' = [queue EXCEPT ![<<gen[w], returned[w] + 1>>] = @ + 1] /\ UNCHANGED dead
       ELSE dead' = dead \cup {gen[w]} /\ UNCHANGED queue

(* An error: the finally blocks remove the locks, the worker rejects its     *)
(* message.                                                                  *)
Fail(p) ==
    /\ pc[p] # "IDLE"
    /\ lock' = IF pc[p] \in Locked THEN [lock EXCEPT ![gen[p]] = "FREE"] ELSE lock
    /\ gate' = IF pc[p] \in Gated THEN [gate EXCEPT ![gen[p]] = "FREE"] ELSE gate
    /\ GiveBack(p) /\ Forget(p)
    /\ UNCHANGED <<files, overlap>>

(* The process is killed: the lock files stay, the broker takes the message  *)
(* back.                                                                     *)
Crash(p) ==
    /\ pc[p] # "IDLE"
    /\ lock' = IF pc[p] \in Locked THEN [lock EXCEPT ![gen[p]] = "STALE"] ELSE lock
    /\ gate' = IF pc[p] \in Gated THEN [gate EXCEPT ![gen[p]] = "STALE"] ELSE gate
    /\ GiveBack(p) /\ Forget(p)
    /\ UNCHANGED <<files, overlap>>

(* The channel is closed, by an error or by a shutdown: the broker takes the *)
(* message back although the handler runs to its end.                        *)
LoseChannel(w) ==
    /\ w \in attached
    /\ GiveBack(w)
    /\ UNCHANGED <<files, locks, pc, gen, reads, doomed, returned, overlap>>

UploadNext(u) ==
    \/ \E g \in Generations, p \in Packages : Upload(u, g, p)
    \/ Look(u) \/ LinkPackage(u) \/ EnsureReceipt(u) \/ Extract(u)
    \/ TakeGate(u) \/ Promote(u) \/ DropGate(u)
PublishNext(b) == (\E g \in Generations : StartPublish(b, g)) \/ Publish(b) \/ MarkPublished(b)
WorkNext(w) ==
    \/ \E g \in Generations, n \in 0..DeliveryLimit : Deliver(w, g, n)
    \/ Decide(w) \/ Reject(w) \/ Accept(w) \/ MarkLifecycle(w)
    \/ Activate(w) \/ WriteCurrent(w) \/ Retain(w) \/ Prune(w) \/ Ack(w) \/ LoseChannel(w)

Next ==
    \/ \E u \in Uploads : UploadNext(u)
    \/ \E b \in Publishers : PublishNext(b)
    \/ \E w \in Workers : WorkNext(w)
    \/ \E p \in Processes : TakeLock(p) \/ DropLock(p) \/ Fail(p) \/ Crash(p)

Spec == Init /\ [][Next]_vars
BacklogSpec == InitWith(Generations) /\ [][Next]_vars

-----------------------------------------------------------------------------
(* The generation that consumers read is on disk, as long as no two          *)
(* deliveries were worked on at once: activation and retention each look at  *)
(* the pointer under the lock of their own generation only.                  *)
CurrentStands == ~overlap /\ current # NoGeneration => current \in Accepted

(* And it is only ever replaced by one with a newer manifest, whatever order *)
(* generations are uploaded, delivered, redelivered and decided in.          *)
NeverOlder ==
    [][~overlap /\ current' # current /\ current # NoGeneration =>
          TimeOf(current') > TimeOf(current)]_vars

(* What is in incoming, accepted or rejected was extracted from the archive  *)
(* the receipt names: no race of two archives for one generation id, no      *)
(* crash and no repeated upload puts another one's files there.              *)
ReceiptMatches ==
    \A g \in Generations : dirs[g] # {} =>
        /\ receipt[g].package = package[g]
        /\ package[g] \in WellFormed /\ For[package[g]] = g

(* A verdict is final and both records of it agree, whoever is interrupted   *)
(* between moving the directory and writing the receipt: nothing is accepted *)
(* and rejected.                                                             *)
OneVerdict ==
    \A g \in Generations :
        /\ receipt[g].state = "accepted" => "rejected" \notin dirs[g] /\ package[g] \in Valid
        /\ receipt[g].state = "rejected" => "accepted" \notin dirs[g] /\ package[g] \notin Valid
        /\ ~({"accepted", "rejected"} \subseteq dirs[g])

(* Retention only removes generations when enough newer ones stay, also when *)
(* two workers prune at once and each has spared what the other removes.     *)
NewestKept ==
    \A g \in Generations : receipt[g].state = "accepted" /\ g \notin Accepted =>
        Cardinality({h \in Accepted : Newer(h, g)}) >= Retained

(* Operations that have begun go on, or fail.                                *)
GoesOn(p) ==
    \/ TakeLock(p) \/ DropLock(p) \/ Fail(p)
    \/ p \in Uploads /\ (\/ Look(p) \/ LinkPackage(p) \/ EnsureReceipt(p) \/ Extract(p) \/ TakeGate(p)
                          \/ Promote(p) \/ DropGate(p))
    \/ p \in Publishers /\ (Publish(p) \/ MarkPublished(p))
    \/ p \in Workers /\ (\/ Decide(p) \/ Reject(p) \/ Accept(p) \/ MarkLifecycle(p) \/ Activate(p)
                          \/ WriteCurrent(p) \/ Retain(p) \/ Prune(p) \/ Ack(p))

(* The reconciliation comes by, its files can be written and the broker be   *)
(* reached now and then; the broker delivers what waits; and the uploads of  *)
(* a generation come to an end: their waiting for its lock could otherwise   *)
(* make every announcement give up.                                          *)
FairSpec ==
    /\ Spec
    /\ \A p \in Processes : WF_vars(GoesOn(p))
    /\ \A b \in Publishers :
          /\ SF_vars(TakeLock(b)) /\ SF_vars(Publish(b)) /\ SF_vars(MarkPublished(b))
          /\ \A g \in Generations : SF_vars(StartPublish(b, g))
    /\ \A g \in Generations, n \in 0..DeliveryLimit :
          SF_vars(\E w \in Workers : Deliver(w, g, n))
    /\ <>[][\A u \in Uploads, g \in Generations, p \in Packages : ~Upload(u, g, p)]_vars

(* Every generation in incoming that has no verdict gets one, although       *)
(* nobody is told when its announcement is lost, unless its message ends in  *)
(* the dead letter queue or a crash left its lock behind.                    *)
DecidedInTheEnd ==
    \A g \in Generations :
        ("incoming" \in dirs[g]) ~>
            (receipt[g].state # "received" \/ g \in dead \/ lock[g] = "STALE")

=============================================================================

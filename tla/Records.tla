------------------------------- MODULE Records -------------------------------
(***************************************************************************)
(* How records come into the data files and are worked off: listings, by   *)
(* handle_create_auction (server/auction_engine.c), whose number and place *)
(* in auctions.dat follow from the size of the file; feedback, appended by *)
(* handle_submit_feedback (server/bid_handler.c), then listed and marked   *)
(* in two passes by handle_view_feedback (server/dispute.c).  A read of    *)
(* the size, a read and a write of one record are one step each, and the   *)
(* server may be killed between any two.                                   *)
(***************************************************************************)
EXTENDS Integers, Sequences, FiniteSets

CONSTANTS
  Threads,            \* workers
  Items, NoItem,      \* what is put up for sale
  Capacity,           \* entries of the list in handle_view_feedback
  MaxListings,        \* bound: auctions created in one behaviour
  MaxFeedback         \* bound: records of feedback.dat

ASSUME RecordsAssumption ==
  /\ NoItem \notin Items
  /\ Capacity \in Nat \ {0}
  /\ MaxListings \in Nat /\ MaxFeedback \in Nat

VARIABLES
  auctions,           \* auctions.dat: the item at each position
  feedback,           \* feedback.dat: whether what is at a position is reviewed
  task,               \* what each thread is doing
  confirmed,          \* history: [id, item] of the auctions sellers were told of
  clashed,            \* history: the auction ids two creations took at a time
  quiet               \* history: positions of feedback that came while nobody
                      \* was viewing, and found room on the list

vars == <<auctions, feedback, task, confirmed, clashed, quiet>>

\* models.h: "0 = pending, 1 = seen by mod"
Marks == {"pending", "seen"}

\* id: the number taken; item: of a listing; pos: where a pass over
\* feedback.dat is; list: the positions collected by the first pass.
Steps == {"idle", "create", "list", "mark", "reply"}
Task == [step : Steps, id : Nat, item : Items \cup {NoItem}, pos : Nat,
         list : SUBSET (1..MaxFeedback)]
Idle == [step |-> "idle", id |-> 0, item |-> NoItem, pos |-> 0, list |-> {}]

TypeOK ==
  /\ auctions \in Seq(Items)
  /\ feedback \in Seq(Marks)
  /\ task \in [Threads -> Task]
  /\ \A t \in Threads : Cardinality(task[t].list) <= Capacity
  /\ confirmed \subseteq [id : Nat \ {0}, item : Items]
  /\ clashed \subseteq Nat
  /\ quiet \subseteq 1..MaxFeedback

Init ==
  /\ auctions = <<>> /\ feedback = <<>>
  /\ task = [t \in Threads |-> Idle]
  /\ confirmed = {} /\ clashed = {} /\ quiet = {}

Becomes(t, k) == task' = [task EXCEPT ![t] = k]

-----------------------------------------------------------------------------
(* handle_create_auction *)

\* Mutant: the next number is the size of the file.
NextAuctionIdOffByOne == IF auctions = <<>> THEN 1 ELSE Len(auctions)

\* next_auction_id
NextAuctionId == Len(auctions) + 1

Taken(id) == \E t \in Threads : task[t].step = "create" /\ task[t].id = id

CreateNumber(t) ==
  /\ task[t].step = "idle"
  /\ Len(auctions) < MaxListings
  /\ \E i \in Items :
       Becomes(t, [Idle EXCEPT !.step = "create", !.id = NextAuctionId, !.item = i])
  /\ clashed' = IF Taken(NextAuctionId) THEN clashed \cup {NextAuctionId} ELSE clashed
  /\ UNCHANGED <<auctions, feedback, confirmed, quiet>>

\* write_auction, at the place of the number; the seller is sent the record
\* (if that fails, or the server is killed before, he is told of nothing).
CreateWrite(t) ==
  LET k == task[t] IN
  /\ k.step = "create"
  /\ auctions' = IF k.id \in DOMAIN auctions
                 THEN [auctions EXCEPT ![k.id] = k.item]
                 ELSE Append(auctions, k.item)
  /\ confirmed' = confirmed \cup {[id |-> k.id, item |-> k.item]}
  /\ Becomes(t, Idle)
  /\ UNCHANGED <<feedback, clashed, quiet>>

-----------------------------------------------------------------------------
(* handle_submit_feedback *)

\* A second pass marks as well what is appended after the first one, and what
\* did not fit into the list; all other feedback is quiet.
Waiting == {i \in DOMAIN feedback : feedback[i] = "pending"}
Viewing(t) == task[t].step \in {"list", "mark"}
Quiet == Cardinality(Waiting) < Capacity /\ \A t \in Threads : ~Viewing(t)

\* append_feedback.  (No code uses the feedback_id that it is given.)
SubmitFeedback(t) ==
  /\ task[t].step = "idle"
  /\ Len(feedback) < MaxFeedback
  /\ feedback' = Append(feedback, "pending")
  /\ quiet' = IF Quiet THEN quiet \cup {Len(feedback) + 1} ELSE quiet
  /\ UNCHANGED <<auctions, task, confirmed, clashed>>

-----------------------------------------------------------------------------
(* handle_view_feedback *)

View(t) ==
  /\ task[t].step = "idle" /\ feedback # <<>>
  /\ Becomes(t, [Idle EXCEPT !.step = "list", !.pos = 1])
  /\ UNCHANGED <<auctions, feedback, confirmed, clashed, quiet>>

More(t) == task[t].pos \in DOMAIN feedback
Here(t) == feedback[task[t].pos]

\* Mutant: the first pass stops at the first reviewed record.
ListFeedbackStopsAtReviewed(t) ==
  LET k == task[t] IN
  /\ k.step = "list"
  /\ IF More(t) /\ Here(t) = "pending" /\ Cardinality(k.list) < Capacity
     THEN Becomes(t, [k EXCEPT !.pos = @ + 1, !.list = @ \cup {k.pos}])
     ELSE Becomes(t, [k EXCEPT !.step = "mark", !.pos = 1])
  /\ UNCHANGED <<auctions, feedback, confirmed, clashed, quiet>>

\* Mutant: the list takes one record more than it has room for.
ListFeedbackOffByOne(t) ==
  LET k == task[t] IN
  /\ k.step = "list"
  /\ IF More(t) /\ Cardinality(k.list) <= Capacity
     THEN Becomes(t, [k EXCEPT !.pos = @ + 1,
            !.list = IF Here(t) = "pending" THEN @ \cup {k.pos} ELSE @])
     ELSE Becomes(t, [k EXCEPT !.step = "mark", !.pos = 1])
  /\ UNCHANGED <<auctions, feedback, confirmed, clashed, quiet>>

\* The first pass collects what is not reviewed, until the list is full; the
\* second begins at the start of the file and knows nothing of the list.
ListFeedback(t) ==
  LET k == task[t] IN
  /\ k.step = "list"
  /\ IF More(t) /\ Cardinality(k.list) < Capacity
     THEN Becomes(t, [k EXCEPT !.pos = @ + 1,
            !.list = IF Here(t) = "pending" THEN @ \cup {k.pos} ELSE @])
     ELSE Becomes(t, [k EXCEPT !.step = "mark", !.pos = 1])
  /\ UNCHANGED <<auctions, feedback, confirmed, clashed, quiet>>

\* The second pass marks every record that is not reviewed.
MarkFeedback(t) ==
  LET k == task[t] IN
  /\ k.step = "mark"
  /\ IF More(t)
     THEN /\ Becomes(t, [k EXCEPT !.pos = @ + 1])
          /\ feedback' = [feedback EXCEPT ![k.pos] = "seen"]
     ELSE Becomes(t, [k EXCEPT !.step = "reply", !.pos = 0]) /\ UNCHANGED feedback
  /\ UNCHANGED <<auctions, confirmed, clashed, quiet>>

\* send_msg of the list.  Its result is ignored: when it fails, as when the
\* server is killed before, the list is lost and the marks remain.
ReplyFeedback(t) ==
  /\ task[t].step = "reply"
  /\ Becomes(t, Idle)
  /\ UNCHANGED <<auctions, feedback, confirmed, clashed, quiet>>

-----------------------------------------------------------------------------

\* The files survive.
Kill ==
  /\ task' = [t \in Threads |-> Idle]
  /\ UNCHANGED <<auctions, feedback, confirmed, clashed, quiet>>

Step(t) ==
  \/ CreateNumber(t) \/ CreateWrite(t)
  \/ SubmitFeedback(t)
  \/ View(t) \/ ListFeedback(t) \/ MarkFeedback(t) \/ ReplyFeedback(t)

Next == Kill \/ \E t \in Threads : Step(t)

Spec == Init /\ [][Next]_vars

-----------------------------------------------------------------------------
(* Properties *)

\* An auction whose seller was told that it exists is the one on file under
\* its number, unless another creation took this number before the first one
\* had written: whatever other creations overlap, or are killed.
ListingsKept ==
  \A c \in confirmed : c.id \notin clashed =>
    c.id \in DOMAIN auctions /\ auctions[c.id] = c.item

\* models.h: "1 = seen by mod".  Quiet feedback is marked as reviewed only by
\* a pass that has it on the list to be sent: however many moderators view,
\* whatever other feedback comes in the middle or exceeds the list, and
\* wherever the server was killed.
QuietIsListed ==
  [][\A i \in quiet : feedback[i] = "pending" /\ feedback'[i] = "seen"
        => \E t \in Threads : Viewing(t) /\ i \in task[t].list]_vars
=============================================================================

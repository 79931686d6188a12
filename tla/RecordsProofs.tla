---------------------------- MODULE RecordsProofs ----------------------------
(***************************************************************************)
(* For any number of threads, listings and records of feedback and any     *)
(* capacity of the moderator's list: a listing is lost only to a creation  *)
(* that took the same number, and feedback that came while nobody viewed   *)
(* and found room is marked only by a pass that has it on its list.        *)
(***************************************************************************)
EXTENDS Records, FiniteSetTheorems, SequenceTheorems, TLAPS

USE RecordsAssumption

\* The types, and that a listing under way has a number and an item.
Creating(k) == k.step = "create" => k.id # 0 /\ k.item \in Items
TypeInv ==
  /\ TypeOK
  /\ Len(feedback) <= MaxFeedback
  /\ \A t \in Threads : Creating(task[t])

LEMMA IdleType == Idle \in Task /\ Cardinality(Idle.list) <= Capacity /\ Creating(Idle)
BY FS_EmptySet DEF Idle, Task, Steps, Creating

LEMMA InitType == Init => TypeInv
<1> SUFFICES ASSUME Init PROVE TypeInv
  OBVIOUS
<1>1. /\ auctions \in Seq(Items) /\ feedback \in Seq(Marks)
      /\ Len(feedback) <= MaxFeedback
  BY DEF Init
<1>2. /\ task \in [Threads -> Task]
      /\ \A t \in Threads : Cardinality(task[t].list) <= Capacity /\ Creating(task[t])
  BY IdleType DEF Init
<1> QED
  BY <1>1, <1>2 DEF Init, TypeInv, TypeOK

LEMMA MarkSeq ==
  ASSUME NEW i \in DOMAIN feedback, feedback \in Seq(Marks)
  PROVE  LET new == [feedback EXCEPT ![i] = "seen"] IN
         /\ new \in Seq(Marks) /\ Len(new) = Len(feedback)
         /\ DOMAIN new = DOMAIN feedback
         /\ \A j \in DOMAIN feedback : new[j] = IF j = i THEN "seen" ELSE feedback[j]
<1>1. "seen" \in Marks
  BY DEF Marks
<1>2. LET new == [feedback EXCEPT ![i] = "seen"] IN
      new \in Seq(Marks) /\ Len(new) = Len(feedback)
  BY <1>1, ExceptSeq
<1> QED
  BY <1>2

LEMMA Appended ==
  ASSUME NEW S, NEW s \in Seq(S), NEW e \in S
  PROVE  /\ Append(s, e) \in Seq(S) /\ Len(Append(s, e)) = Len(s) + 1
         /\ DOMAIN Append(s, e) = 1..(Len(s) + 1)
         /\ \A i \in DOMAIN s : i \in DOMAIN Append(s, e) /\ Append(s, e)[i] = s[i]
         /\ Append(s, e)[Len(s) + 1] = e
<1>1. Append(s, e) \in Seq(S) /\ Len(Append(s, e)) = Len(s) + 1
  BY AppendProperties
<1>2. Len(s) \in Nat /\ DOMAIN s = 1..Len(s) /\ DOMAIN Append(s, e) = 1..(Len(s) + 1)
  BY <1>1, LenProperties
<1>3. \A i \in 1..Len(s) : Append(s, e)[i] = s[i]
  BY AppendProperties
<1>4. Append(s, e)[Len(s) + 1] = e
  BY AppendProperties
<1> QED
  BY <1>1, <1>2, <1>3, <1>4

\* A thread's new task has its type, and its list fits: enough for TypeOK of
\* all tasks.
LEMMA BecomesType ==
  ASSUME TypeInv, NEW t \in Threads, NEW k \in Task, Cardinality(k.list) <= Capacity,
         Creating(k), Becomes(t, k)
  PROVE  /\ task' \in [Threads -> Task]
         /\ \A s \in Threads :
              Cardinality(task'[s].list) <= Capacity /\ Creating(task'[s])
BY DEF TypeInv, TypeOK, Becomes

\* A first pass never lists more than its buffer holds.
LEMMA ListFits ==
  ASSUME TypeInv, NEW t \in Threads, More(t), Cardinality(task[t].list) < Capacity
  PROVE  /\ task[t].list \cup {task[t].pos} \subseteq 1..MaxFeedback
         /\ Cardinality(task[t].list \cup {task[t].pos}) <= Capacity
<1>1. task[t].pos \in 1..MaxFeedback /\ task[t].list \subseteq 1..MaxFeedback
  BY DEF TypeInv, TypeOK, Task, More
<1>2. IsFiniteSet(task[t].list)
  <2>1. IsFiniteSet(1..MaxFeedback)
    BY FS_Interval
  <2> QED
    BY <1>1, <2>1, FS_Subset
<1>3. Cardinality(task[t].list) \in Nat
  BY <1>2, FS_CardinalityType
<1>4. \/ Cardinality(task[t].list \cup {task[t].pos}) = Cardinality(task[t].list)
      \/ Cardinality(task[t].list \cup {task[t].pos}) = Cardinality(task[t].list) + 1
  <2> HIDE <1>1, <1>3
  <2> QED
    BY <1>2, FS_AddElement, Zenon
<1>5. Cardinality(task[t].list \cup {task[t].pos}) <= Capacity
  BY <1>3, <1>4
<1> QED
  BY <1>1, <1>5

\* What the two passes make of a thread's task.
LEMMA ListBecomes ==
  ASSUME TypeInv, NEW t \in Threads, ListFeedback(t)
  PROVE  \E n \in Task :
           /\ Becomes(t, n) /\ Cardinality(n.list) <= Capacity
           /\ \/ /\ More(t) /\ Cardinality(task[t].list) < Capacity
                 /\ n.step = "list" /\ n.pos = task[t].pos + 1
                 /\ n.list = IF Here(t) = "pending" THEN task[t].list \cup {task[t].pos}
                                                    ELSE task[t].list
              \/ /\ ~(More(t) /\ Cardinality(task[t].list) < Capacity)
                 /\ n.step = "mark" /\ n.list = task[t].list
<1> PICK k : k = task[t]
  OBVIOUS
<1>0. k \in Task /\ Cardinality(k.list) <= Capacity /\ k.step = "list"
  BY DEF TypeInv, TypeOK, ListFeedback
<1>1. CASE More(t) /\ Cardinality(k.list) < Capacity
  <2> PICK l : l = IF Here(t) = "pending" THEN k.list \cup {k.pos} ELSE k.list
    OBVIOUS
  <2> PICK n : n = [k EXCEPT !.pos = @ + 1, !.list = l]
    OBVIOUS
  <2>1. Becomes(t, n)
    BY <1>0, <1>1 DEF ListFeedback, Task
  <2>2. l \subseteq 1..MaxFeedback /\ Cardinality(l) <= Capacity
    <3>1. /\ k.list \cup {k.pos} \subseteq 1..MaxFeedback
          /\ Cardinality(k.list \cup {k.pos}) <= Capacity
      BY <1>1, ListFits
    <3> QED
      BY <1>0, <3>1 DEF Task
  <2>3. k.pos + 1 \in Nat
    BY <1>0 DEF Task
  <2>4. n \in Task /\ n.step = "list" /\ n.pos = k.pos + 1 /\ n.list = l
    BY <1>0, <2>2, <2>3 DEF Task
  <2> QED
    BY <1>1, <2>1, <2>2, <2>4
<1>2. CASE ~(More(t) /\ Cardinality(k.list) < Capacity)
  <2> PICK n : n = [k EXCEPT !.step = "mark", !.pos = 1]
    OBVIOUS
  <2>1. Becomes(t, n)
    BY <1>2 DEF ListFeedback
  <2>2. n \in Task /\ n.step = "mark" /\ n.list = k.list
    BY <1>0 DEF Task, Steps
  <2> QED
    BY <1>0, <1>2, <2>1, <2>2
<1> QED
  BY <1>1, <1>2

LEMMA MarkBecomes ==
  ASSUME TypeInv, NEW t \in Threads, MarkFeedback(t)
  PROVE  \E n \in Task :
           Becomes(t, n) /\ n.step \in {"mark", "reply"} /\ n.list = task[t].list
<1> PICK k : k = task[t]
  OBVIOUS
<1>0. k \in Task /\ k.step = "mark"
  BY DEF TypeInv, TypeOK, MarkFeedback
<1>1. CASE More(t)
  <2> PICK n : n = [k EXCEPT !.pos = @ + 1]
    OBVIOUS
  <2>1. Becomes(t, n)
    BY <1>1 DEF MarkFeedback
  <2>2. n \in Task /\ n.step = "mark" /\ n.list = k.list
    BY <1>0 DEF Task
  <2> QED
    BY <2>1, <2>2
<1>2. CASE ~More(t)
  <2> PICK n : n = [k EXCEPT !.step = "reply", !.pos = 0]
    OBVIOUS
  <2>1. Becomes(t, n)
    BY <1>2 DEF MarkFeedback
  <2>2. n \in Task /\ n.step = "reply" /\ n.list = k.list
    BY <1>0 DEF Task, Steps
  <2> QED
    BY <2>1, <2>2
<1> QED
  BY <1>1, <1>2

\* The second pass touches the record at its position and no other.
LEMMA MarkTouches ==
  ASSUME TypeInv, NEW t \in Threads, MarkFeedback(t)
  PROVE  /\ feedback' \in Seq(Marks) /\ Len(feedback') = Len(feedback)
         /\ DOMAIN feedback' = DOMAIN feedback
         /\ \A i \in DOMAIN feedback :
              /\ feedback'[i] = "pending" => feedback[i] = "pending"
              /\ i # task[t].pos => feedback'[i] = feedback[i]
<1>0. feedback \in Seq(Marks)
  BY DEF TypeInv, TypeOK
<1>1. CASE More(t)
  <2>1. feedback' = [feedback EXCEPT ![task[t].pos] = "seen"]
    BY <1>1 DEF MarkFeedback
  <2> QED
    BY <1>0, <1>1, <2>1, MarkSeq DEF More
<1>2. CASE ~More(t)
  BY <1>0, <1>2 DEF MarkFeedback
<1> QED
  BY <1>1, <1>2

LEMMA NextType ==
  ASSUME TypeInv, Next
  PROVE  TypeInv'
<1>0. Idle \in Task /\ Cardinality(Idle.list) <= Capacity /\ Creating(Idle)
  BY IdleType
<1>k. CASE Kill
  <2>1. \A s \in Threads : task'[s] = Idle
    BY <1>k DEF Kill
  <2>2. task' \in [Threads -> Task]
    BY <1>0, <1>k DEF Kill
  <2> QED
    BY <1>0, <1>k, <2>1, <2>2 DEF Kill, TypeInv, TypeOK
<1>s. ASSUME NEW t \in Threads, Step(t)
      PROVE  TypeInv'
  <2>0. task[t] \in Task /\ Cardinality(task[t].list) <= Capacity /\ Creating(task[t])
    BY DEF TypeInv, TypeOK
  <2>1. CASE CreateNumber(t)
    <3> PICK i \in Items : Becomes(t, [Idle EXCEPT !.step = "create",
                                         !.id = NextAuctionId, !.item = i])
      BY <2>1 DEF CreateNumber
    <3> PICK n : n = [Idle EXCEPT !.step = "create", !.id = NextAuctionId, !.item = i]
      OBVIOUS
    <3>1. NextAuctionId \in Nat \ {0}
      BY LenProperties DEF TypeInv, TypeOK, NextAuctionId
    <3>2. n \in Task /\ n.list = Idle.list /\ Creating(n)
      BY <3>1 DEF Task, Idle, Steps, Creating
    <3>3. /\ task' \in [Threads -> Task]
          /\ \A s \in Threads : Cardinality(task'[s].list) <= Capacity /\ Creating(task'[s])
      BY <1>0, <3>2, BecomesType
    <3>4. clashed' \subseteq Nat
      BY <2>1, <3>1 DEF CreateNumber, TypeInv, TypeOK
    <3> QED
      BY <2>1, <3>3, <3>4 DEF CreateNumber, TypeInv, TypeOK
  <2>2. CASE CreateWrite(t)
    <3>1. task[t].id \in Nat \ {0} /\ task[t].item \in Items
      BY <2>0, <2>2 DEF CreateWrite, Creating, Task
    <3>2. auctions' \in Seq(Items)
      BY <2>2, <3>1, AppendProperties, ExceptSeq DEF CreateWrite, TypeInv, TypeOK
    <3>3. confirmed' \subseteq [id : Nat \ {0}, item : Items]
      BY <2>2, <3>1 DEF CreateWrite, TypeInv, TypeOK
    <3>4. /\ task' \in [Threads -> Task]
          /\ \A s \in Threads : Cardinality(task'[s].list) <= Capacity /\ Creating(task'[s])
      BY <1>0, <2>2, BecomesType DEF CreateWrite
    <3> QED
      BY <2>2, <3>2, <3>3, <3>4 DEF CreateWrite, TypeInv, TypeOK
  <2>3. CASE SubmitFeedback(t)
    <3>1. "pending" \in Marks
      BY DEF Marks
    <3>2. feedback' \in Seq(Marks) /\ Len(feedback') = Len(feedback) + 1
      BY <2>3, <3>1, AppendProperties DEF SubmitFeedback, TypeInv, TypeOK
    <3>3. Len(feedback) \in Nat /\ Len(feedback) < MaxFeedback
      BY <2>3, LenProperties DEF SubmitFeedback, TypeInv, TypeOK
    <3>4. Len(feedback) + 1 \in 1..MaxFeedback /\ Len(feedback) + 1 <= MaxFeedback
      BY <3>3
    <3>5. quiet' \in {quiet, quiet \cup {Len(feedback) + 1}}
      BY <2>3 DEF SubmitFeedback
    <3>6. quiet' \subseteq 1..MaxFeedback
      BY <3>4, <3>5 DEF TypeInv, TypeOK
    <3> QED
      BY <2>3, <3>2, <3>4, <3>6 DEF SubmitFeedback, TypeInv, TypeOK
  <2>4. CASE View(t)
    <3> PICK n : n = [Idle EXCEPT !.step = "list", !.pos = 1]
      OBVIOUS
    <3>1. n \in Task /\ n.list = Idle.list /\ Creating(n)
      BY DEF Task, Idle, Steps, Creating
    <3>2. /\ task' \in [Threads -> Task]
          /\ \A s \in Threads : Cardinality(task'[s].list) <= Capacity /\ Creating(task'[s])
      BY <1>0, <2>4, <3>1, BecomesType DEF View
    <3> QED
      BY <2>4, <3>2 DEF View, TypeInv, TypeOK
  <2>5. CASE ListFeedback(t)
    <3>1. PICK n \in Task : /\ Becomes(t, n) /\ Cardinality(n.list) <= Capacity
                            /\ n.step \in {"list", "mark"}
      BY <2>5, ListBecomes
    <3>2. Creating(n)
      BY <3>1 DEF Creating
    <3> QED
      BY <2>5, <3>1, <3>2, BecomesType DEF ListFeedback, TypeInv, TypeOK
  <2>6. CASE MarkFeedback(t)
    <3>1. PICK n \in Task : /\ Becomes(t, n) /\ n.step \in {"mark", "reply"}
                            /\ n.list = task[t].list
      BY <2>6, MarkBecomes
    <3>2. Creating(n) /\ Cardinality(n.list) <= Capacity
      BY <2>0, <3>1 DEF Creating
    <3>3. feedback' \in Seq(Marks) /\ Len(feedback') = Len(feedback)
      BY <2>6, MarkTouches
    <3> QED
      BY <2>6, <3>1, <3>2, <3>3, BecomesType DEF MarkFeedback, TypeInv, TypeOK
  <2>7. CASE ReplyFeedback(t)
    <3>1. /\ task' \in [Threads -> Task]
          /\ \A s \in Threads : Cardinality(task'[s].list) <= Capacity /\ Creating(task'[s])
      BY <1>0, <2>7, BecomesType DEF ReplyFeedback
    <3> QED
      BY <2>7, <3>1 DEF ReplyFeedback, TypeInv, TypeOK
  <2> QED
    BY <1>s, <2>1, <2>2, <2>3, <2>4, <2>5, <2>6, <2>7 DEF Step
<1> QED
  BY <1>k, <1>s DEF Next

\* The steps that have nothing to do with listings leave who is creating, and
\* what, as it is.
LEMMA ReadersCreateNothing ==
  ASSUME TypeInv, NEW t \in Threads,
         \/ SubmitFeedback(t) \/ View(t) \/ ListFeedback(t)
         \/ MarkFeedback(t) \/ ReplyFeedback(t)
  PROVE  /\ UNCHANGED <<auctions, confirmed, clashed>>
         /\ \A s \in Threads : task'[s].step = "create" => task'[s] = task[s]
<1>0. task \in [Threads -> Task]
  BY DEF TypeInv, TypeOK
<1>1. UNCHANGED <<auctions, confirmed, clashed>>
  BY DEF SubmitFeedback, View, ListFeedback, MarkFeedback, ReplyFeedback
<1>2. CASE SubmitFeedback(t)
  BY <1>1, <1>2 DEF SubmitFeedback
<1>3. CASE View(t)
  BY <1>0, <1>1, <1>3 DEF View, Becomes, Idle
<1>4. CASE ListFeedback(t)
  <2>1. PICK n \in Task : Becomes(t, n) /\ n.step \in {"list", "mark"}
    BY <1>4, ListBecomes
  <2> QED
    BY <1>0, <1>1, <2>1 DEF Becomes
<1>5. CASE MarkFeedback(t)
  <2>1. PICK n \in Task : Becomes(t, n) /\ n.step \in {"mark", "reply"}
    BY <1>5, MarkBecomes
  <2> QED
    BY <1>0, <1>1, <2>1 DEF Becomes
<1>6. CASE ReplyFeedback(t)
  BY <1>0, <1>1, <1>6 DEF ReplyFeedback, Becomes, Idle
<1> QED
  BY <1>2, <1>3, <1>4, <1>5, <1>6

-----------------------------------------------------------------------------
(* Listings: a number that nobody else took is the next one until its      *)
(* record is written.                                                      *)

Creates(t, id) == task[t].step = "create" /\ task[t].id = id
ListingInv ==
  /\ ListingsKept
  /\ \A t \in Threads : task[t].step = "create" => task[t].id <= Len(auctions) + 1
  /\ \A t \in Threads, id \in Nat \ clashed : Creates(t, id) =>
       /\ id = Len(auctions) + 1
       /\ \A s \in Threads : Creates(s, id) => s = t

LEMMA InitListing == Init => ListingInv
BY DEF Init, ListingInv, ListingsKept, Creates, Idle

LEMMA CreatingIds ==
  ASSUME TypeInv
  PROVE  \A t \in Threads : task[t].id \in Nat
BY DEF TypeInv, TypeOK, Task

LEMMA NextListing ==
  ASSUME TypeInv, ListingInv, Next
  PROVE  ListingInv'
<1>0. /\ task \in [Threads -> Task] /\ auctions \in Seq(Items)
      /\ Len(auctions) \in Nat /\ DOMAIN auctions = 1..Len(auctions)
  BY LenProperties DEF TypeInv, TypeOK
<1>k. CASE Kill
  <2>1. \A s \in Threads : task'[s].step # "create"
    BY <1>k DEF Kill, Idle
  <2> QED
    BY <1>k, <2>1 DEF Kill, ListingInv, ListingsKept, Creates
<1>s. ASSUME NEW t \in Threads, Step(t)
      PROVE  ListingInv'
  <2>1. CASE CreateNumber(t)
    <3>1. /\ UNCHANGED <<auctions, confirmed>>
          /\ \A s \in Threads \ {t} : task'[s] = task[s]
          /\ task'[t].step = "create" /\ task'[t].id = Len(auctions) + 1
          /\ ~Taken(Len(auctions) + 1) => clashed' = clashed
          /\ Taken(Len(auctions) + 1) => clashed' = clashed \cup {Len(auctions) + 1}
      BY <1>0, <2>1 DEF CreateNumber, NextAuctionId, Becomes, Idle
    <3>2. ListingsKept'
      BY <3>1 DEF ListingInv, ListingsKept
    <3>3. ASSUME NEW s \in Threads, NEW id \in Nat \ clashed', Creates(s, id)'
          PROVE  /\ id = Len(auctions) + 1
                 /\ \A r \in Threads : Creates(r, id)' => r = s
      <4>1. id \notin clashed
        BY <3>1
      <4>2. id = Len(auctions) + 1
        BY <3>1, <3>3, <4>1 DEF ListingInv, Creates
      <4>3. ~Taken(id)
        BY <3>1, <4>2
      <4>4. \A r \in Threads : Creates(r, id)' => r = t
        BY <3>1, <4>3 DEF Taken, Creates
      <4> QED
        BY <3>3, <4>2, <4>4
    <3>4. \A s \in Threads : task'[s].step = "create" => task'[s].id <= Len(auctions') + 1
      BY <1>0, <3>1, CreatingIds DEF ListingInv
    <3> QED
      BY <3>1, <3>2, <3>3, <3>4 DEF ListingInv
  <2>2. CASE CreateWrite(t)
    <3> PICK n, x : n = task[t].id /\ x = task[t].item
      OBVIOUS
    <3>1. /\ n \in Nat \ {0} /\ Creates(t, n) /\ UNCHANGED clashed
          /\ confirmed' = confirmed \cup {[id |-> n, item |-> x]}
          /\ auctions' = IF n \in DOMAIN auctions
                         THEN [auctions EXCEPT ![n] = x] ELSE Append(auctions, x)
      BY <1>0, <2>2 DEF CreateWrite, TypeInv, Creating, Creates, Task
    <3>2. /\ \A s \in Threads \ {t} : task'[s] = task[s]
          /\ task'[t].step # "create"
      BY <1>0, <2>2 DEF CreateWrite, Becomes, Idle
    <3>0. x \in Items
      BY <2>2 DEF CreateWrite, TypeInv, Creating
    <3>a. LET new == Append(auctions, x) IN
          /\ Len(new) = Len(auctions) + 1 /\ DOMAIN new = 1..(Len(auctions) + 1)
          /\ \A i \in DOMAIN auctions : i \in DOMAIN new /\ new[i] = auctions[i]
          /\ new[Len(auctions) + 1] = x
      BY <1>0, <3>0, Appended
    <3>3. CASE n \in clashed
      <4>1. n <= Len(auctions) + 1
        BY <3>1 DEF ListingInv, Creates
      <4>2. /\ \A i \in DOMAIN auctions :
                 i \in DOMAIN auctions' /\ (i # n => auctions'[i] = auctions[i])
            /\ \/ Len(auctions') = Len(auctions)
               \/ n = Len(auctions) + 1 /\ Len(auctions') = Len(auctions) + 1
        <5>1. CASE n \in DOMAIN auctions
          <6>1. auctions' = [auctions EXCEPT ![n] = x]
            BY <3>1, <5>1
          <6>2. Len(auctions') = Len(auctions) /\ DOMAIN auctions' = DOMAIN auctions
            BY <1>0, <3>0, <3>1, <5>1, <6>1, ExceptSeq
          <6> QED
            BY <6>1, <6>2
        <5>2. CASE n \notin DOMAIN auctions
          <6>1. auctions' = Append(auctions, x)
            BY <3>1, <5>2
          <6>2. n = Len(auctions) + 1
            BY <1>0, <3>1, <4>1, <5>2
          <6> QED
            BY <1>0, <3>a, <6>1, <6>2
        <5> QED
          BY <5>1, <5>2
      <4>3. ListingsKept'
        BY <3>1, <3>3, <4>2 DEF ListingInv, ListingsKept
      <4>4. ASSUME NEW s \in Threads, NEW id \in Nat \ clashed, Creates(s, id)'
            PROVE  /\ Creates(s, id) /\ id = Len(auctions')  + 1
                   /\ \A r \in Threads : Creates(r, id)' => r = s
        <5>1. Creates(s, id) /\ id # n
          BY <3>2, <3>3, <4>4 DEF Creates
        <5>2. id = Len(auctions) + 1 /\ \A r \in Threads : Creates(r, id) => r = s
          BY <5>1 DEF ListingInv
        <5> QED
          BY <3>2, <4>2, <5>1, <5>2 DEF Creates
      <4>5. \A s \in Threads : task'[s].step = "create" => task'[s].id <= Len(auctions') + 1
        <5>1. \A s \in Threads : task'[s].step = "create" =>
                task[s].id = task'[s].id /\ task[s].id \in Nat /\ task[s].id <= Len(auctions) + 1
          BY <3>2, CreatingIds DEF ListingInv
        <5> QED
          BY <1>0, <4>2, <5>1
      <4> QED
        BY <3>1, <4>3, <4>4, <4>5 DEF ListingInv
    <3>4. CASE n \notin clashed
      <4>1. n = Len(auctions) + 1 /\ \A s \in Threads : Creates(s, n) => s = t
        BY <3>1, <3>4 DEF ListingInv
      <4>2. auctions' = Append(auctions, x)
        BY <1>0, <3>1, <4>1
      <4>3. /\ DOMAIN auctions' = 1..(Len(auctions) + 1)
            /\ \A i \in DOMAIN auctions : i \in DOMAIN auctions' /\ auctions'[i] = auctions[i]
            /\ auctions'[Len(auctions) + 1] = x
        BY <3>a, <4>2
      <4>4. n \in DOMAIN auctions' /\ auctions'[n] = x
        BY <1>0, <4>1, <4>3
      <4>5. ListingsKept'
        BY <3>1, <4>3, <4>4 DEF ListingInv, ListingsKept
      <4>6. \A s \in Threads, id \in Nat \ clashed : ~Creates(s, id)'
        BY <3>1, <3>2, <4>1 DEF ListingInv, Creates
      <4>7. \A s \in Threads : task'[s].step = "create" => task'[s].id <= Len(auctions') + 1
        <5>1. Len(auctions') = Len(auctions) + 1
          BY <3>a, <4>2
        <5>2. \A s \in Threads : task'[s].step = "create" =>
                task[s].id = task'[s].id /\ task[s].id \in Nat /\ task[s].id <= Len(auctions) + 1
          BY <3>2, CreatingIds DEF ListingInv
        <5> QED
          BY <1>0, <5>1, <5>2
      <4> QED
        BY <3>1, <4>5, <4>6, <4>7 DEF ListingInv
    <3> QED
      BY <3>3, <3>4
  <2>3. CASE \/ SubmitFeedback(t) \/ View(t) \/ ListFeedback(t)
             \/ MarkFeedback(t) \/ ReplyFeedback(t)
    BY <2>3, ReadersCreateNothing DEF ListingInv, ListingsKept, Creates
  <2> QED
    BY <1>s, <2>1, <2>2, <2>3 DEF Step
<1> QED
  BY <1>k, <1>s DEF Next

-----------------------------------------------------------------------------
(* Feedback: when it comes while nobody is viewing, everything in front of *)
(* it that waits fits into a list with room to spare; nothing is added to  *)
(* what waits in front of it; so no first pass that begins later is full   *)
(* before it gets there.                                                   *)

\* W holds what waits before i, and what any first pass listed on its way.
Before(i, W) ==
  /\ Cardinality(W) < Capacity
  /\ \A j \in DOMAIN feedback : j < i /\ feedback[j] = "pending" => j \in W
  /\ \A t \in Threads : task[t].step = "list" /\ task[t].pos <= i => task[t].list \subseteq W

\* A pass that is past i has it on its list.
Passed(t, i) == task[t].step = "mark" \/ (task[t].step = "list" /\ i < task[t].pos)
Collected(i) == feedback[i] = "pending" =>
                  \A t \in Threads : Passed(t, i) => i \in task[t].list

FeedbackInv ==
  /\ \A t \in Threads : task[t].step = "list" => task[t].pos # 0
  /\ \A i \in quiet : /\ i \in DOMAIN feedback
                      /\ Collected(i)
                      /\ \E W \in SUBSET (1..MaxFeedback) : Before(i, W)

LEMMA InitFeedback == Init => FeedbackInv
BY DEF Init, FeedbackInv, Idle

\* A step of thread t that starts it anew, or stops it, and touches no
\* feedback, keeps what was said of the others.
LEMMA FreshTask ==
  ASSUME TypeInv, FeedbackInv, UNCHANGED <<feedback, quiet>>,
         \A s \in Threads : \/ task'[s] = task[s]
                            \/ task'[s].step \notin {"list", "mark"}
                            \/ /\ task'[s].step = "list" /\ task'[s].pos = 1
                               /\ task'[s].list = {}
  PROVE  FeedbackInv'
<1>0. DOMAIN feedback = 1..Len(feedback) /\ Len(feedback) \in Nat
  BY LenProperties DEF TypeInv, TypeOK
<1>1. \A s \in Threads : task'[s].step = "list" => task'[s].pos # 0
  BY DEF FeedbackInv
<1>2. ASSUME NEW i \in quiet
      PROVE  /\ i \in DOMAIN feedback' /\ Collected(i)'
             /\ \E W \in SUBSET (1..MaxFeedback) : Before(i, W)'
  <2>1. i \in DOMAIN feedback /\ Collected(i) /\ i \in Nat /\ ~(i < 1)
    BY <1>0, <1>2 DEF FeedbackInv
  <2>2. Collected(i)'
    BY <2>1 DEF Collected, Passed
  <2> PICK W \in SUBSET (1..MaxFeedback) : Before(i, W)
    BY <1>2 DEF FeedbackInv
  <2>3. Before(i, W)'
    BY DEF Before
  <2> QED
    BY <2>1, <2>2, <2>3
<1> QED
  BY <1>1, <1>2 DEF FeedbackInv

\* The first pass at a quiet record: it has room for it.
LEMMA RoomAtQuiet ==
  ASSUME TypeInv, NEW t \in Threads, NEW i \in Nat, NEW W \in SUBSET (1..MaxFeedback),
         Before(i, W), task[t].step = "list", task[t].pos <= i
  PROVE  Cardinality(task[t].list) < Capacity
<1>1. IsFiniteSet(W)
  <2>1. IsFiniteSet(1..MaxFeedback)
    BY FS_Interval
  <2> QED
    BY <2>1, FS_Subset
<1>2. task[t].list \subseteq W /\ Cardinality(W) < Capacity
  BY DEF Before
<1>3. Cardinality(task[t].list) <= Cardinality(W)
  BY <1>1, <1>2, FS_Subset
<1>4. Cardinality(task[t].list) \in Nat /\ Cardinality(W) \in Nat
  BY <1>1, <1>2, FS_Subset, FS_CardinalityType
<1> QED
  BY <1>2, <1>3, <1>4

LEMMA NextFeedback ==
  ASSUME TypeInv, FeedbackInv, Next
  PROVE  FeedbackInv'
<1>0. /\ task \in [Threads -> Task] /\ feedback \in Seq(Marks)
      /\ DOMAIN feedback = 1..Len(feedback) /\ Len(feedback) \in Nat
      /\ \A s \in Threads : task[s].pos \in Nat
  BY LenProperties DEF TypeInv, TypeOK, Task
<1>k. CASE Kill
  <2>1. \A s \in Threads : task'[s].step \notin {"list", "mark"}
    BY <1>k DEF Kill, Idle
  <2> QED
    BY <1>k, <2>1, FreshTask DEF Kill
<1>s. ASSUME NEW t \in Threads, Step(t)
      PROVE  FeedbackInv'
  <2>1. CASE CreateNumber(t) \/ CreateWrite(t) \/ View(t) \/ ReplyFeedback(t)
    <3>1. /\ UNCHANGED <<feedback, quiet>>
          /\ \A s \in Threads \ {t} : task'[s] = task[s]
      BY <1>0, <2>1 DEF CreateNumber, CreateWrite, View, ReplyFeedback, Becomes
    <3>2. \/ task'[t].step \notin {"list", "mark"}
          \/ task'[t].step = "list" /\ task'[t].pos = 1 /\ task'[t].list = {}
      <4>1. CASE CreateNumber(t)
        BY <1>0, <4>1 DEF CreateNumber, Becomes, Idle
      <4>2. CASE CreateWrite(t)
        BY <1>0, <4>2 DEF CreateWrite, Becomes, Idle
      <4>3. CASE View(t)
        BY <1>0, <4>3 DEF View, Becomes, Idle
      <4>4. CASE ReplyFeedback(t)
        BY <1>0, <4>4 DEF ReplyFeedback, Becomes, Idle
      <4> QED
        BY <2>1, <4>1, <4>2, <4>3, <4>4
    <3> QED
      BY <3>1, <3>2, FreshTask
  <2>2. CASE SubmitFeedback(t)
    <3> PICK n : n = Len(feedback) + 1
      OBVIOUS
    <3>1. /\ DOMAIN feedback' = 1..n /\ n \in Nat
          /\ \A i \in DOMAIN feedback : i \in DOMAIN feedback' /\ feedback'[i] = feedback[i]
          /\ feedback'[n] = "pending" /\ UNCHANGED task
          /\ n \in DOMAIN feedback' /\ n \notin DOMAIN feedback
      <4>1. feedback' = Append(feedback, "pending") /\ UNCHANGED task /\ "pending" \in Marks
        BY <2>2 DEF SubmitFeedback, Marks
      <4> QED
        BY <1>0, <4>1, Appended
    <3>2. ASSUME NEW i \in quiet
          PROVE  /\ i \in DOMAIN feedback' /\ Collected(i)'
                 /\ \E W \in SUBSET (1..MaxFeedback) : Before(i, W)'
      <4>1. i \in DOMAIN feedback /\ Collected(i) /\ i \in Nat /\ i < n
        BY <1>0, <3>2 DEF FeedbackInv
      <4>2. Collected(i)'
        BY <3>1, <4>1 DEF Collected, Passed
      <4> PICK W \in SUBSET (1..MaxFeedback) : Before(i, W)
        BY <3>2 DEF FeedbackInv
      <4>3. Before(i, W)'
        BY <1>0, <3>1, <4>1 DEF Before
      <4> QED
        BY <3>1, <4>1, <4>2, <4>3
    <3>3. ASSUME Quiet
          PROVE  Collected(n)' /\ \E W \in SUBSET (1..MaxFeedback) : Before(n, W)'
      <4>1. \A s \in Threads : task'[s].step \notin {"list", "mark"}
        BY <3>1, <3>3 DEF Quiet, Viewing
      <4>2. Waiting \in SUBSET (1..MaxFeedback)
        BY <1>0 DEF Waiting, TypeInv
      <4>3. Cardinality(Waiting) < Capacity
        BY <3>3 DEF Quiet
      <4> PICK W : W = Waiting
        OBVIOUS
      <4>4. \A j \in DOMAIN feedback' : j < n /\ feedback'[j] = "pending" => j \in W
        BY <1>0, <3>1 DEF Waiting
      <4>5. Before(n, W)'
        BY <4>1, <4>3, <4>4 DEF Before
      <4>6. Collected(n)'
        BY <4>1 DEF Collected, Passed
      <4> QED
        BY <4>2, <4>5, <4>6
    <3>4. quiet' = quiet \/ (Quiet /\ quiet' = quiet \cup {n})
      BY <2>2 DEF SubmitFeedback
    <3> QED
      BY <3>1, <3>2, <3>3, <3>4 DEF FeedbackInv
  <2>3. CASE ListFeedback(t)
    <3>1. PICK n \in Task :
            /\ Becomes(t, n)
            /\ \/ /\ More(t) /\ n.step = "list" /\ n.pos = task[t].pos + 1
                  /\ n.list = IF Here(t) = "pending" THEN task[t].list \cup {task[t].pos}
                                                     ELSE task[t].list
               \/ /\ ~(More(t) /\ Cardinality(task[t].list) < Capacity)
                  /\ n.step = "mark" /\ n.list = task[t].list
      BY <2>3, ListBecomes
    <3>2. /\ UNCHANGED <<feedback, quiet>> /\ task[t].step = "list" /\ task[t].pos # 0
          /\ task'[t] = n /\ \A s \in Threads \ {t} : task'[s] = task[s]
      BY <1>0, <2>3, <3>1 DEF ListFeedback, Becomes, FeedbackInv
    <3>3. ASSUME NEW i \in quiet
          PROVE  Collected(i)' /\ \E W \in SUBSET (1..MaxFeedback) : Before(i, W)'
      <4>1. i \in DOMAIN feedback /\ Collected(i) /\ i \in Nat
        BY <1>0, <3>3 DEF FeedbackInv
      <4> PICK W \in SUBSET (1..MaxFeedback) : Before(i, W)
        BY <3>3 DEF FeedbackInv
      <4>2. CASE /\ More(t) /\ n.step = "list" /\ n.pos = task[t].pos + 1
                 /\ n.list = IF Here(t) = "pending" THEN task[t].list \cup {task[t].pos}
                                                    ELSE task[t].list
        <5>1. feedback[i] = "pending" /\ i < n.pos => i \in n.list
          BY <1>0, <3>2, <4>1, <4>2 DEF Collected, Passed, Here
        <5>2. n.pos <= i => n.list \subseteq W
          BY <1>0, <3>2, <4>1, <4>2 DEF Before, Here, More
        <5>3. Collected(i)'
          BY <3>2, <4>1, <4>2, <5>1 DEF Collected, Passed
        <5>4. Before(i, W)'
          BY <3>2, <4>2, <5>2 DEF Before
        <5> QED
          BY <5>3, <5>4
      <4>3. CASE /\ ~(More(t) /\ Cardinality(task[t].list) < Capacity)
                 /\ n.step = "mark" /\ n.list = task[t].list
        <5>1. i < task[t].pos
          <6> SUFFICES ASSUME task[t].pos <= i PROVE FALSE
            BY <1>0, <4>1
          <6>1. More(t)
            BY <1>0, <3>2, <4>1 DEF More
          <6>2. Cardinality(task[t].list) < Capacity
            BY <3>2, <4>1, RoomAtQuiet
          <6> QED
            BY <4>3, <6>1, <6>2
        <5>2. feedback[i] = "pending" => i \in n.list
          BY <3>2, <4>1, <4>3, <5>1 DEF Collected, Passed
        <5>3. Collected(i)'
          BY <3>2, <4>1, <5>2 DEF Collected, Passed
        <5>4. Before(i, W)'
          BY <3>2, <4>3 DEF Before
        <5> QED
          BY <5>3, <5>4
      <4> QED
        BY <3>1, <4>2, <4>3
    <3>4. \A s \in Threads : task'[s].step = "list" => task'[s].pos # 0
      BY <1>0, <3>1, <3>2 DEF FeedbackInv
    <3> QED
      BY <3>2, <3>3, <3>4 DEF FeedbackInv
  <2>4. CASE MarkFeedback(t)
    <3>1. PICK n \in Task :
            Becomes(t, n) /\ n.step \in {"mark", "reply"} /\ n.list = task[t].list
      BY <2>4, MarkBecomes
    <3>2. /\ UNCHANGED quiet /\ task[t].step = "mark"
          /\ task'[t] = n /\ \A s \in Threads \ {t} : task'[s] = task[s]
      BY <1>0, <2>4, <3>1 DEF MarkFeedback, Becomes
    <3>3. /\ DOMAIN feedback' = DOMAIN feedback
          /\ \A i \in DOMAIN feedback : feedback'[i] = "pending" => feedback[i] = "pending"
      BY <2>4, MarkTouches
    <3>4. ASSUME NEW i \in quiet
          PROVE  /\ i \in DOMAIN feedback' /\ Collected(i)'
                 /\ \E W \in SUBSET (1..MaxFeedback) : Before(i, W)'
      <4>1. i \in DOMAIN feedback /\ Collected(i)
        BY <3>4 DEF FeedbackInv
      <4>2. Collected(i)'
        BY <3>1, <3>2, <3>3, <4>1 DEF Collected, Passed
      <4> PICK W \in SUBSET (1..MaxFeedback) : Before(i, W)
        BY <3>4 DEF FeedbackInv
      <4>3. Before(i, W)'
        BY <3>1, <3>2, <3>3 DEF Before
      <4> QED
        BY <3>3, <4>1, <4>2, <4>3
    <3>5. \A s \in Threads : task'[s].step = "list" => task'[s].pos # 0
      BY <3>1, <3>2 DEF FeedbackInv
    <3> QED
      BY <3>2, <3>4, <3>5 DEF FeedbackInv
  <2> QED
    BY <1>s, <2>1, <2>2, <2>3, <2>4 DEF Step
<1> QED
  BY <1>k, <1>s DEF Next

\* So whoever marks a quiet record has it on his list.
LEMMA QuietStep ==
  ASSUME TypeInv, FeedbackInv, Next, NEW i \in quiet,
         feedback[i] = "pending", feedback'[i] = "seen"
  PROVE  \E t \in Threads : Viewing(t) /\ i \in task[t].list
<1>0. /\ i \in DOMAIN feedback /\ Collected(i)
      /\ feedback \in Seq(Marks) /\ "pending" \in Marks
  BY DEF FeedbackInv, TypeInv, TypeOK, Marks
<1>1. feedback' # feedback
  OBVIOUS
<1> PICK t \in Threads : SubmitFeedback(t) \/ MarkFeedback(t)
  BY <1>1 DEF Next, Kill, Step, CreateNumber, CreateWrite, View, ListFeedback, ReplyFeedback
<1>2. CASE SubmitFeedback(t)
  BY <1>0, <1>2, Appended DEF SubmitFeedback
<1>3. CASE MarkFeedback(t)
  BY <1>0, <1>3 DEF MarkFeedback, Collected, Passed, Viewing
<1> QED
  BY <1>2, <1>3

-----------------------------------------------------------------------------
RecordsInv == TypeInv /\ ListingInv /\ FeedbackInv

LEMMA StutterInv == RecordsInv /\ UNCHANGED vars => RecordsInv'
BY DEF RecordsInv, TypeInv, TypeOK, Creating, ListingInv, ListingsKept, Creates,
       FeedbackInv, Collected, Passed, Before, vars

LEMMA InvariantHolds == Spec => []RecordsInv
<1>1. Init => RecordsInv
  BY InitType, InitListing, InitFeedback DEF RecordsInv
<1>2. RecordsInv /\ [Next]_vars => RecordsInv'
  BY NextType, NextListing, NextFeedback, StutterInv DEF RecordsInv
<1> QED
  BY <1>1, <1>2, PTL DEF Spec

\* Type correctness: in particular, the list of handle_view_feedback never
\* outgrows its buffer.
THEOREM TypeCorrect == Spec => []TypeOK
<1>1. RecordsInv => TypeOK
  BY DEF RecordsInv, TypeInv
<1> QED
  BY <1>1, InvariantHolds, PTL

\* handle_create_auction loses a listing only to a creation that took the same
\* number, whatever else overlaps and wherever the server is killed.
THEOREM ListingsStay == Spec => []ListingsKept
<1>1. RecordsInv => ListingsKept
  BY DEF RecordsInv, ListingInv
<1> QED
  BY <1>1, InvariantHolds, PTL

\* handle_view_feedback marks feedback that came while nobody was viewing, and
\* found room, only in a pass that has it on its list.
THEOREM QuietStaysListed == Spec => QuietIsListed
<1>1. RecordsInv /\ [Next]_vars =>
        [\A i \in quiet : feedback[i] = "pending" /\ feedback'[i] = "seen"
            => \E t \in Threads : Viewing(t) /\ i \in task[t].list]_vars
  BY QuietStep DEF RecordsInv
<1> QED
  BY <1>1, InvariantHolds, PTL DEF Spec, QuietIsListed
=============================================================================

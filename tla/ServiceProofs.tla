---------------------------- MODULE ServiceProofs ----------------------------
(***************************************************************************)
(* What the two sides of the service promise, which share no state.        *)
(*                                                                         *)
(* The clients, for any number of clients, tasks, calls and crashes: what  *)
(* is observed is stored once, and what a client has put aside is kept     *)
(* until the service has answered it.                                      *)
(*                                                                         *)
(* The kernel, for any number of calls, whatever they ask and however      *)
(* often the process is restarted: the revisions appended to a block are   *)
(* one chain, and every result that is given or kept is true of the store. *)
(***************************************************************************)
EXTENDS ClientWrites, Kernel, FiniteSetTheorems, TLAPS

-----------------------------------------------------------------------------
(* the clients *)

Buffered == [call : Nat, kind : WriteKinds \cup {"none"}, tries : Nat]
Tasked ==
    [pc : {"idle", "sending", "dequeue", "drain", "replay", "rotate", "rename", "append", "unlink"}, entry : Buffered,
     attempt : Nat, replay : BOOLEAN, timedOut : BOOLEAN, left : Seq(Buffered), at : Nat]

Types ==
    /\ language \in [Clients -> Languages]
    /\ file \in Seq(Buffered) /\ old \in Seq(Buffered) /\ disk \in Seq(Buffered)
    /\ queue \in [Clients -> Seq(Buffered)]
    /\ task \in [Tasks -> Tasked]
    /\ numCalls \in Nat

\* What is stored has the key of the call it is of.
KeysOfCalls == \A r \in observed : r = [call |-> r.call, key |-> <<r.call, 0>>]

-----------------------------------------------------------------------------
(* sequences of entries *)

LEMMA CallsOfAppend ==
    ASSUME NEW s \in Seq(Buffered), NEW e \in Buffered
    PROVE  CallsOf(Append(s, e)) = CallsOf(s) \cup {e.call}
  <1>1. /\ DOMAIN Append(s, e) = DOMAIN s \cup {Len(s) + 1}
        /\ \A i \in DOMAIN s : Append(s, e)[i] = s[i]
        /\ Append(s, e)[Len(s) + 1] = e
    OBVIOUS
  <1> QED BY <1>1 DEF CallsOf, Members

LEMMA CallsOfSplit ==
    ASSUME NEW s \in Seq(Buffered), NEW n \in 0 .. Len(s)
    PROVE  /\ CallsOf(s) = CallsOf(SubSeq(s, 1, n)) \cup CallsOf(Rest(s, n))
           /\ SubSeq(s, 1, n) \in Seq(Buffered) /\ Rest(s, n) \in Seq(Buffered)
  <1> DEFINE p == SubSeq(s, 1, n)
             q == SubSeq(s, n + 1, Len(s))
  <1>1. p \in Seq(Buffered) /\ Len(p) = n /\ \A i \in 1 .. n : p[i] = s[i]
    OBVIOUS
  <1>2. q \in Seq(Buffered) /\ Len(q) = Len(s) - n /\ \A i \in 1 .. Len(s) - n : q[i] = s[n + i]
    OBVIOUS
  <1> HIDE DEF p, q
  <1>3. CallsOf(s) = {s[i].call : i \in 1 .. Len(s)}
    BY DEF CallsOf, Members
  <1>4. CallsOf(p) = {s[i].call : i \in 1 .. n}
    BY <1>1 DEF CallsOf, Members
  <1>5. CallsOf(q) = {s[n + i].call : i \in 1 .. Len(s) - n}
    BY <1>2 DEF CallsOf, Members
  <1>6. \A i \in 1 .. Len(s) : i \in 1 .. n \/ \E j \in 1 .. Len(s) - n : i = n + j
    <2> TAKE i \in 1 .. Len(s)
    <2>1. CASE i > n
      <3>1. i - n \in 1 .. Len(s) - n /\ i = n + (i - n)
        BY <2>1
      <3> QED BY <3>1
    <2>2. CASE i <= n
      BY <2>2
    <2> QED BY <2>1, <2>2
  <1>7. \A j \in 1 .. Len(s) - n : n + j \in 1 .. Len(s)
    OBVIOUS
  <1>8. CallsOf(s) = CallsOf(p) \cup CallsOf(q)
    BY <1>3, <1>4, <1>5, <1>6, <1>7
  <1> QED BY <1>1, <1>2, <1>8 DEF p, q, Rest

LEMMA CallsOfHead ==
    ASSUME NEW s \in Seq(Buffered), s # <<>>
    PROVE  /\ CallsOf(s) = CallsOf(Tail(s)) \cup {Head(s).call}
           /\ Tail(s) \in Seq(Buffered) /\ Head(s) \in Buffered
  <1> DEFINE q == Tail(s)
  <1>1. q \in Seq(Buffered) /\ Len(q) = Len(s) - 1 /\ \A i \in 1 .. Len(s) - 1 : q[i] = s[i + 1]
    OBVIOUS
  <1>2. Head(s) = s[1] /\ Head(s) \in Buffered /\ Len(s) \in Nat /\ Len(s) >= 1
    OBVIOUS
  <1> HIDE DEF q
  <1>3. CallsOf(s) = {s[i].call : i \in 1 .. Len(s)}
    BY DEF CallsOf, Members
  <1>4. CallsOf(q) = {s[i + 1].call : i \in 1 .. Len(s) - 1}
    BY <1>1 DEF CallsOf, Members
  <1>5. \A i \in 1 .. Len(s) : i = 1 \/ (i - 1 \in 1 .. Len(s) - 1 /\ i = (i - 1) + 1)
    BY <1>2
  <1>6. \A i \in 1 .. Len(s) - 1 : i + 1 \in 1 .. Len(s)
    BY <1>2
  <1>7. 1 \in 1 .. Len(s)
    BY <1>2
  <1>8. CallsOf(s) = CallsOf(q) \cup {s[1].call}
    BY <1>3, <1>4, <1>5, <1>6, <1>7
  <1> QED BY <1>1, <1>2, <1>8 DEF q

LEMMA CallsOfNone == CallsOf(<<>>) = {}
  BY DEF CallsOf, Members

-----------------------------------------------------------------------------
(* what is known of a task, and of the copy on the disk *)

SentCalls == {s.call : s \in sent}

\* What a task k may be, by a Python client or not, when the calls of `done` have been sent: a
\* replay works through the batch it holds, what stands before its place has been sent, and
\* nobody else holds anything.
Fits(py, k, done) ==
    /\ (k.pc \in {"idle", "dequeue", "drain", "rotate", "rename", "append"} \/ (k.pc = "sending" /\ ~k.replay))
         => k.left = <<>>
    /\ k.pc \notin {"sending", "replay"} => ~k.replay
    /\ k.pc \in {"rotate", "rename", "append", "dequeue", "unlink", "replay"} => py
    /\ k.pc = "drain" => ~py
    /\ ~py => k.left = <<>>
    /\ ~k.replay => k.at = 1
    /\ (py /\ k.replay) => (k.at \in 1 .. Len(k.left) /\ k.entry.call \in CallsOf(k.left))
    /\ (py /\ k.replay /\ k.pc = "sending") => k.entry = k.left[k.at]
    /\ py => \A i \in 1 .. k.at - 1 : k.left[i].call \in done
TasksFit == \A t \in Tasks : Fits(Python(t), task[t], SentCalls)

\* What a task k holds.
Hands(k) == CallsOf(k.left) \cup (IF k.replay THEN {k.entry.call} ELSE {})

\* The copy of a queue on the disk is of writes that the clients who have one hold as well.
Queued     == UNION {CallsOf(queue[c]) : c \in {d \in Clients : language[d] = "typescript"}}
Drawn      == UNION {InHand(t) : t \in {u \in Tasks : Lang(u) = "typescript"}}
DiskBacked == CallsOf(disk) \subseteq dead \cup Queued \cup Drawn \cup SentCalls

\* The inductive invariant.
ClientInv == Types /\ TasksFit /\ DiskBacked

\* What is kept or has been answered.
Safe == Kept \cup SentCalls

LEMMA InHandIs == \A t \in Tasks : InHand(t) = Hands(task[t])
  BY DEF InHand, Hands, EntryOf

\* Nothing is held by a task that is idle, or about to take something.
LEMMA EmptyHands ==
    ASSUME NEW py, NEW k, NEW done, Fits(py, k, done),
           k.pc \in {"idle", "dequeue", "drain", "rotate", "rename", "append"} \/ (k.pc = "sending" /\ ~k.replay)
    PROVE  Hands(k) = {}
  <1>1. ~k.replay /\ k.left = <<>>
    BY DEF Fits
  <1> QED BY <1>1, CallsOfNone DEF Hands

LEMMA IdleFits == ASSUME NEW py, NEW done PROVE Idle \in Tasked /\ Fits(py, Idle, done)
  <1>1. Idle \in Tasked
    BY DEF Idle, Tasked, Buffered
  <1> QED BY <1>1 DEF Idle, Fits

-----------------------------------------------------------------------------
\* What a step of one task does to the others.
LEMMA Going ==
    ASSUME ClientInv, NEW t \in Tasks, NEW new \in Tasked, Goes(t, new), UNCHANGED language,
           sent \subseteq sent', Fits(Python(t), new, SentCalls')
    PROVE  /\ TasksFit' /\ task' \in [Tasks -> Tasked] /\ InHand(t)' = Hands(new)
           /\ \A u \in Tasks : u # t => InHand(u)' = InHand(u)
           /\ \A u \in Tasks : Python(u)' = Python(u)
           /\ SentCalls \subseteq SentCalls'
  <1>1. task'[t] = new /\ task' \in [Tasks -> Tasked] /\ \A u \in Tasks : u # t => task'[u] = task[u]
    BY DEF Goes, ClientInv, Types
  <1>2. SentCalls \subseteq SentCalls'
    BY DEF SentCalls
  <1>3. \A u \in Tasks : Python(u)' = Python(u)
    BY DEF Python, Lang
  <1>4. ASSUME NEW u \in Tasks, u # t PROVE Fits(Python(u), task[u], SentCalls')
    <2>1. Fits(Python(u), task[u], SentCalls)
      BY DEF ClientInv, TasksFit
    <2> QED BY <1>2, <2>1 DEF Fits
  <1>5. TasksFit'
    BY <1>1, <1>3, <1>4 DEF TasksFit
  <1>6. /\ \A u \in Tasks : u # t => InHand(u)' = InHand(u)
        /\ InHand(t)' = Hands(new)
    BY <1>1 DEF InHand, EntryOf, Hands
  <1> QED BY <1>1, <1>2, <1>3, <1>5, <1>6

\* A step loses what the places it takes from lose, and no more.
LEMMA KeepingBut ==
    ASSUME DiskBacked, NEW lost, SentCalls \subseteq SentCalls', dead \subseteq dead',
           CallsOf(file) \subseteq Safe' \cup lost, CallsOf(old) \subseteq Safe' \cup lost,
           \A c \in Clients : CallsOf(queue[c]) \subseteq Safe' \cup lost,
           \A u \in Tasks : InHand(u)' = InHand(u) \/ InHand(u) \subseteq Safe' \cup lost
    PROVE  Kept \subseteq Safe' \cup lost
  <1>1. dead \subseteq Safe' /\ SentCalls \subseteq Safe'
    BY DEF Safe, Kept
  <1>2. \A u \in Tasks : InHand(u) \subseteq Safe' \cup lost
    BY DEF Safe, Kept
  <1>3. Queued \subseteq Safe' \cup lost /\ Drawn \subseteq Safe' \cup lost
    BY <1>2 DEF Queued, Drawn
  <1>4. CallsOf(disk) \subseteq Safe' \cup lost
    BY <1>1, <1>3 DEF DiskBacked
  <1> QED BY <1>1, <1>2, <1>4 DEF Kept

LEMMA Keeping ==
    ASSUME DiskBacked, NEW t \in Tasks, \A u \in Tasks : u # t => InHand(u)' = InHand(u),
           SentCalls \subseteq SentCalls', dead \subseteq dead',
           CallsOf(file) \subseteq Safe', CallsOf(old) \subseteq Safe',
           \A c \in Clients : CallsOf(queue[c]) \subseteq Safe', InHand(t) \subseteq Safe'
    PROVE  Kept \subseteq Safe'
  <1> PICK lost : lost = {}
    OBVIOUS
  <1>1. Safe' \cup lost = Safe'
    OBVIOUS
  <1> QED BY <1>1, KeepingBut

\* A step of one task that leaves the queues alone.
LEMMA Backing ==
    ASSUME ClientInv, NEW t \in Tasks, \A u \in Tasks : u # t => InHand(u)' = InHand(u),
           SentCalls \subseteq SentCalls', dead \subseteq dead', UNCHANGED <<language, queue, disk>>,
           Python(t) \/ InHand(t) \subseteq dead' \cup SentCalls' \cup InHand(t)'
    PROVE  DiskBacked'
  <1>1. Queued' = Queued /\ CallsOf(disk)' = CallsOf(disk)
    BY DEF Queued
  <1>2. ASSUME NEW u \in Tasks, Lang(u) = "typescript"
        PROVE  InHand(u) \subseteq dead' \cup SentCalls' \cup Drawn'
    <2>1. InHand(u)' \subseteq Drawn'
      BY <1>2 DEF Drawn, Lang
    <2>2. CASE u = t
      BY <1>2, <2>1, <2>2 DEF Python
    <2>3. CASE u # t
      BY <2>1, <2>3
    <2> QED BY <2>2, <2>3
  <1>3. Drawn \subseteq dead' \cup SentCalls' \cup Drawn'
    BY <1>2 DEF Drawn
  <1> QED BY <1>1, <1>3 DEF ClientInv, DiskBacked

\* A step that leaves the buffers alone, but for more dead letters.
Quietly(t) == UNCHANGED <<language, file, old, queue, disk>> /\ dead \subseteq dead' /\ sent \subseteq sent'
LEMMA Quiet ==
    ASSUME ClientInv, NEW t \in Tasks, NEW new \in Tasked, Goes(t, new), Quietly(t),
           Fits(Python(t), new, SentCalls'),
           Hands(task[t]) \subseteq dead' \cup SentCalls' \cup Hands(new)
    PROVE  TasksFit' /\ DiskBacked' /\ task' \in [Tasks -> Tasked] /\ Kept \subseteq Safe'
  <1>1. /\ TasksFit' /\ task' \in [Tasks -> Tasked] /\ InHand(t)' = Hands(new)
        /\ \A u \in Tasks : u # t => InHand(u)' = InHand(u)
        /\ \A u \in Tasks : Python(u)' = Python(u)
        /\ SentCalls \subseteq SentCalls'
    BY Going DEF Quietly
  <1>2. InHand(t) \subseteq dead' \cup SentCalls' \cup InHand(t)'
    BY <1>1, InHandIs
  <1>3. DiskBacked'
    BY <1>1, <1>2, Backing DEF Quietly
  <1>4. /\ CallsOf(file) \subseteq Safe' /\ CallsOf(old) \subseteq Safe'
        /\ \A c \in Clients : CallsOf(queue[c]) \subseteq Safe'
    BY DEF Quietly, Safe, Kept
  <1>5. InHand(t) \subseteq Safe'
    BY <1>2 DEF Safe, Kept
  <1>6. Kept \subseteq Safe'
    BY <1>1, <1>4, <1>5, Keeping DEF Quietly, ClientInv
  <1> QED BY <1>1, <1>3, <1>6


-----------------------------------------------------------------------------
(* the steps that leave the buffers alone *)

Carried == ClientInv' /\ Kept \subseteq Safe'

\* As Quiet, with the types.
LEMMA QuietDone ==
    ASSUME ClientInv, NEW t \in Tasks, NEW new \in Tasked, Goes(t, new), Quietly(t), numCalls' \in Nat,
           Fits(Python(t), new, SentCalls'),
           Hands(task[t]) \subseteq dead' \cup SentCalls' \cup Hands(new)
    PROVE  Carried
  <1>1. TasksFit' /\ DiskBacked' /\ task' \in [Tasks -> Tasked] /\ Kept \subseteq Safe'
    BY Quiet
  <1>2. Types'
    BY <1>1 DEF Quietly, ClientInv, Types
  <1> QED BY <1>1, <1>2 DEF Carried, ClientInv

LEMMA Known ==
    ASSUME ClientInv, NEW t \in Tasks
    PROVE  task[t] \in Tasked /\ Fits(Python(t), task[t], SentCalls)
  BY DEF ClientInv, Types, TasksFit

LEMMA CallDone ==
    ASSUME ClientInv, NEW t \in Tasks, Call(t)
    PROVE  Carried
  <1>1. task[t] \in Tasked /\ Fits(Python(t), task[t], SentCalls)
    BY Known
  <1>2. PICK kind \in WriteKinds :
            Goes(t, [Idle EXCEPT !.pc = "sending",
                                 !.entry = [call |-> numCalls + 1, kind |-> kind, tries |-> 0]])
    BY DEF Call
  <1> DEFINE new == [Idle EXCEPT !.pc = "sending",
                                 !.entry = [call |-> numCalls + 1, kind |-> kind, tries |-> 0]]
  <1>3. new \in Tasked
    <2>1. [call |-> numCalls + 1, kind |-> kind, tries |-> 0] \in Buffered
      BY DEF ClientInv, Types, Buffered
    <2> QED BY <2>1, IdleFits DEF Tasked
  <1>4. Fits(Python(t), new, SentCalls')
    BY DEF Fits, Idle
  <1>5. Hands(task[t]) = {}
    BY <1>1, EmptyHands DEF Call, Is
  <1>6. Quietly(t) /\ numCalls' \in Nat
    BY DEF Call, Quietly, Buffers, Told, ClientInv, Types
  <1> HIDE DEF new
  <1> QED BY <1>2, <1>3, <1>4, <1>5, <1>6, QuietDone DEF new

LEMMA FlushDone ==
    ASSUME ClientInv, NEW t \in Tasks, Flush(t)
    PROVE  Carried
  <1> DEFINE new == [Idle EXCEPT !.pc = IF Python(t) THEN "dequeue" ELSE "drain"]
  <1>1. task[t] \in Tasked /\ Fits(Python(t), task[t], SentCalls)
    BY Known
  <1>2. new \in Tasked
    BY IdleFits DEF Tasked
  <1>3. Fits(Python(t), new, SentCalls')
    BY DEF Fits, Idle
  <1>4. Hands(task[t]) = {}
    BY <1>1, EmptyHands DEF Flush, Is
  <1>5. Quietly(t) /\ numCalls' \in Nat /\ Goes(t, new)
    BY DEF Flush, Quietly, Buffers, Told, Counted, ClientInv, Types
  <1> HIDE DEF new
  <1> QED BY <1>2, <1>3, <1>4, <1>5, QuietDone

\* A request that ends without having held anything, or goes on with what it held.
LEMMA IdleDone ==
    ASSUME ClientInv, NEW t \in Tasks, Goes(t, Idle), Quietly(t), numCalls' \in Nat, Hands(task[t]) = {}
    PROVE  Carried
  <1>1. Idle \in Tasked /\ Fits(Python(t), Idle, SentCalls')
    BY IdleFits
  <1> QED BY <1>1, QuietDone

LEMMA BatchSizes ==
    ASSUME ClientInv, NEW t \in Tasks
    PROVE  BatchSize(t) \in 0 .. Len(task[t].left)
  <1>1. task[t].left \in Seq(Buffered)
    BY DEF ClientInv, Types, Tasked
  <1>2. FlushSize(t) \in Nat
    BY ClientAssumption DEF FlushSize
  <1> QED BY <1>1, <1>2 DEF BatchSize

\* After a replay a flush still holds what comes after its batch, and what of the batch is
\* neither sent nor dead.
LEMMA AfterReplayHolds ==
    ASSUME ClientInv, NEW t \in Tasks, Python(t), Is(t, "sending"), task[t].replay, NEW ok \in BOOLEAN,
           NEW done, NEW lost, SentCalls \subseteq done,
           ok => EntryOf(t).call \in done, ~ok => CallsOf(Current(t)) \subseteq lost
    PROVE  /\ AfterReplay(t, ok) \in Tasked
           /\ Fits(TRUE, AfterReplay(t, ok), done)
           /\ Hands(task[t]) \subseteq lost \cup done \cup Hands(AfterReplay(t, ok))
  <1> DEFINE k == task[t]
             n == BatchSize(t)
  <1>1. k \in Tasked /\ Fits(TRUE, k, SentCalls) /\ k.pc = "sending" /\ k.replay
    BY Known DEF Is
  <1>2. n \in 0 .. Len(k.left) /\ k.left \in Seq(Buffered)
    BY <1>1, BatchSizes DEF Tasked
  <1>3. /\ k.at \in 1 .. Len(k.left) /\ k.entry = k.left[k.at] /\ k.entry.call \in CallsOf(k.left)
        /\ \A i \in 1 .. k.at - 1 : k.left[i].call \in SentCalls
    BY <1>1 DEF Fits
  <1>4. Hands(k) = CallsOf(k.left)
    BY <1>3 DEF Hands
  <1>5. CASE ok /\ k.at < n
    <2>1. AfterReplay(t, ok) = [k EXCEPT !.pc = "replay", !.at = @ + 1]
      BY <1>5 DEF AfterReplay
    <2> DEFINE new == [k EXCEPT !.pc = "replay", !.at = @ + 1]
    <2>7. new \in Tasked
      <3> HIDE DEF k
      <3>1. k.at + 1 \in Nat
        BY <1>3
      <3>2. new = [[k EXCEPT !.pc = "replay"] EXCEPT !.at = k.at + 1]
        BY <1>1 DEF Tasked
      <3>3. [k EXCEPT !.pc = "replay"] \in Tasked
        BY <1>1 DEF Tasked
      <3> QED BY <3>1, <3>2, <3>3 DEF Tasked
    <2>8. new.left = k.left /\ new.at = k.at + 1
      BY <1>1 DEF Tasked
    <2>9. new.replay = k.replay /\ new.entry = k.entry /\ new.pc = "replay"
      BY <1>1 DEF Tasked
    <2> HIDE DEF new, k, n
    <2>2. new.left = k.left /\ new.pc = "replay" /\ new.at = k.at + 1 /\ new.replay = k.replay
            /\ new.entry = k.entry /\ new \in Tasked
      BY <2>7, <2>8, <2>9
    <2>3. \A i \in 1 .. new.at - 1 : new.left[i].call \in done
      <3> TAKE i \in 1 .. new.at - 1
      <3>1. CASE i = k.at
        BY <1>3, <1>5, <2>2, <3>1 DEF EntryOf, k
      <3>2. CASE i # k.at
        <4>1. i \in 1 .. k.at - 1
          BY <1>2, <1>3, <2>2, <3>2
        <4> QED BY <1>3, <2>2, <4>1
      <3> QED BY <3>1, <3>2
    <2>4. Fits(TRUE, new, done)
      BY <1>1, <1>2, <1>3, <1>5, <2>2, <2>3 DEF Fits
    <2>5. CallsOf(k.left) \subseteq Hands(new)
      BY <2>2 DEF Hands
    <2> QED BY <1>4, <2>1, <2>2, <2>4, <2>5 DEF k, new
  <1>6. CASE ~(ok /\ k.at < n)
    <2> DEFINE new == [Idle EXCEPT !.pc = "replay", !.left = Rest(k.left, n)]
    <2>1. AfterReplay(t, ok) = new
      BY <1>6 DEF AfterReplay
    <2>2. /\ CallsOf(k.left) = CallsOf(SubSeq(k.left, 1, n)) \cup CallsOf(Rest(k.left, n))
          /\ Rest(k.left, n) \in Seq(Buffered)
      BY <1>2, CallsOfSplit
    <2>3. new \in Tasked
      BY <2>2, IdleFits DEF Tasked
    <2>5. Fits(TRUE, new, done)
      BY DEF Idle, Fits
    <2>6. CallsOf(Rest(k.left, n)) \subseteq Hands(new)
      BY DEF Idle, Hands
    <2>4. CallsOf(SubSeq(k.left, 1, n)) \subseteq lost \cup done
      <3>1. CASE ~ok
        BY <3>1 DEF Current
      <3>2. CASE ok
        <4>1. k.at >= n
          BY <1>2, <1>3, <1>6, <3>2
        <4> DEFINE p == SubSeq(k.left, 1, n)
        <4>2. DOMAIN p = 1 .. n /\ \A i \in 1 .. n : p[i] = k.left[i]
          BY <1>2
        <4> HIDE DEF p
        <4>3. \A i \in 1 .. n : k.left[i].call \in done
          <5> TAKE i \in 1 .. n
          <5>1. CASE i = k.at
            BY <1>3, <3>2, <5>1 DEF EntryOf
          <5>2. CASE i # k.at
            <6>1. i \in 1 .. k.at - 1
              BY <1>2, <1>3, <4>1, <5>2
            <6> QED BY <1>3, <6>1
          <5> QED BY <5>1, <5>2
        <4>4. CallsOf(p) \subseteq done
          BY <4>2, <4>3 DEF CallsOf, Members
        <4> QED BY <4>4 DEF p
      <3> QED BY <3>1, <3>2
    <2> QED BY <1>4, <2>1, <2>2, <2>3, <2>4, <2>5, <2>6
  <1> QED BY <1>5, <1>6


LEMMA IsPython == \A t \in Tasks : Python(t) => Python(t) = TRUE
  BY DEF Python

LEMMA RaisesDone ==
    ASSUME ClientInv, NEW t \in Tasks, Python(t), Is(t, "sending"), Raises(t),
           UNCHANGED <<file, old, queue, disk, Told, Counted>>
    PROVE  Carried
  <1>1. task[t] \in Tasked /\ Fits(Python(t), task[t], SentCalls) /\ task[t].pc = "sending"
    BY Known DEF Is
  <1>2. SentCalls \subseteq SentCalls' /\ numCalls' \in Nat
    BY DEF Told, Counted, SentCalls, ClientInv, Types
  <1>3. CASE task[t].replay
    <2>1. /\ Goes(t, AfterReplay(t, FALSE)) /\ dead' = dead \cup CallsOf(Current(t))
      BY <1>3 DEF Raises, DeadLetters
    <2>2. Quietly(t) /\ CallsOf(Current(t)) \subseteq dead'
      BY <2>1 DEF Quietly, Told, Counted
    <2>3. /\ AfterReplay(t, FALSE) \in Tasked
          /\ Fits(TRUE, AfterReplay(t, FALSE), SentCalls')
          /\ Hands(task[t]) \subseteq dead' \cup SentCalls' \cup Hands(AfterReplay(t, FALSE))
      BY <1>2, <1>3, <2>2, AfterReplayHolds
    <2>4. Fits(Python(t), AfterReplay(t, FALSE), SentCalls')
      BY <2>3, IsPython
    <2> QED BY <1>2, <2>1, <2>2, <2>3, <2>4, QuietDone
  <1>4. CASE ~task[t].replay
    <2>1. Goes(t, Idle) /\ Quietly(t)
      BY <1>4 DEF Raises, Quietly, Told, Counted
    <2>2. Hands(task[t]) = {}
      BY <1>1, <1>4, EmptyHands
    <2> QED BY <1>2, <2>1, <2>2, IdleDone
  <1> QED BY <1>3, <1>4

LEMMA RefusedWriteDone ==
    ASSUME ClientInv, NEW t \in Tasks, RefusedWrite(t)
    PROVE  Carried
  BY RaisesDone DEF RefusedWrite

\* Another attempt, and the way to it.
LEMMA AgainDone ==
    ASSUME ClientInv, NEW t \in Tasks, Python(t), Is(t, "sending"), NEW new, Goes(t, new),
           \/ new = [task[t] EXCEPT !.attempt = @ + 1]
           \/ new = [task[t] EXCEPT !.pc = "rotate"] /\ ~task[t].replay,
           UNCHANGED <<file, old, dead, queue, disk, Told, Counted>>
    PROVE  Carried
  <1> DEFINE k == task[t]
  <1>1. k \in Tasked /\ Fits(Python(t), k, SentCalls) /\ k.pc = "sending"
    BY Known DEF Is
  <1>2. SentCalls \subseteq SentCalls' /\ numCalls' \in Nat /\ Quietly(t)
    BY DEF Told, Counted, SentCalls, ClientInv, Types, Quietly
  <1> HIDE DEF k
  <1>3. /\ new.left = k.left /\ new.at = k.at /\ new.replay = k.replay /\ new.entry = k.entry
        /\ new.pc = "sending" \/ (new.pc = "rotate" /\ ~k.replay)
    BY <1>1 DEF Tasked, k
  <1>4. new \in Tasked
    BY <1>1 DEF Tasked, k
  <1>5. Hands(new) = Hands(k)
    BY <1>3 DEF Hands
  <1>6. Fits(Python(t), new, SentCalls')
    BY <1>1, <1>2, <1>3 DEF Fits
  <1> QED BY <1>2, <1>4, <1>5, <1>6, QuietDone DEF k

LEMMA BusyDone ==
    ASSUME ClientInv, NEW t \in Tasks, Busy(t)
    PROVE  Carried
  <1>1. CASE task[t].attempt < MaxRetries
    BY <1>1, AgainDone DEF Busy
  <1>2. CASE ~(task[t].attempt < MaxRetries)
    BY <1>2, RaisesDone DEF Busy
  <1> QED BY <1>1, <1>2

LEMMA BreaksDone ==
    ASSUME ClientInv, NEW t \in Tasks, Breaks(t)
    PROVE  Carried
  <1>1. CASE task[t].attempt = MaxRetries
    BY <1>1, RaisesDone DEF Breaks
  <1>2. CASE task[t].attempt # MaxRetries
    BY <1>2, AgainDone DEF Breaks
  <1> QED BY <1>1, <1>2

LEMMA SucceedsDone ==
    ASSUME ClientInv, NEW t \in Tasks, Succeeds(t)
    PROVE  Carried
  <1>1. task[t] \in Tasked /\ Fits(Python(t), task[t], SentCalls) /\ task[t].pc = "sending"
    BY Known DEF Is, Succeeds
  <1>2. sent \subseteq sent' /\ EntryOf(t).call \in SentCalls' /\ SentCalls \subseteq SentCalls'
    <2> DEFINE s == [call |-> EntryOf(t).call, replay |-> task[t].replay]
    <2>1. sent' = sent \cup {s} /\ s.call = EntryOf(t).call
      BY DEF Succeeds, Tells
    <2> HIDE DEF s
    <2> QED BY <2>1 DEF SentCalls
  <1>3. Quietly(t) /\ numCalls' \in Nat
    BY <1>2 DEF Succeeds, Buffers, Counted, Quietly, ClientInv, Types
  <1>4. CASE Python(t) /\ task[t].replay
    <2>1. Goes(t, AfterReplay(t, TRUE))
      BY <1>4 DEF Succeeds
    <2>2. /\ AfterReplay(t, TRUE) \in Tasked
          /\ Fits(TRUE, AfterReplay(t, TRUE), SentCalls')
          /\ Hands(task[t]) \subseteq dead' \cup SentCalls' \cup Hands(AfterReplay(t, TRUE))
      BY <1>2, <1>4, AfterReplayHolds DEF Succeeds
    <2>3. Fits(Python(t), AfterReplay(t, TRUE), SentCalls')
      BY <1>4, <2>2, IsPython
    <2> QED BY <1>3, <2>1, <2>2, <2>3, QuietDone
  <1>5. CASE ~(Python(t) /\ task[t].replay)
    <2> DEFINE pc == IF ~Python(t) THEN IF task[t].replay THEN "drain" ELSE "idle"
                     ELSE IF EntryOf(t).kind = "observe" THEN "dequeue" ELSE "idle"
               new == [Idle EXCEPT !.pc = pc]
    <2>1. Goes(t, new)
      BY <1>5 DEF Succeeds
    <2>2. pc \in {"idle", "drain", "dequeue"} /\ (pc = "drain" => ~Python(t)) /\ (pc = "dequeue" => Python(t))
      OBVIOUS
    <2> HIDE DEF pc
    <2>3. new \in Tasked
      BY <2>2, IdleFits DEF Tasked
    <2>4. Fits(Python(t), new, SentCalls')
      BY <2>2 DEF Idle, Fits
    <2>5. Hands(task[t]) \subseteq SentCalls'
      <3>1. task[t].left = <<>>
        BY <1>1, <1>5 DEF Fits
      <3> QED BY <1>2, <3>1, CallsOfNone DEF Hands, EntryOf
    <2> HIDE DEF new
    <2> QED BY <1>3, <2>1, <2>3, <2>4, <2>5, QuietDone
  <1> QED BY <1>4, <1>5

LEMMA DequeueReadDone ==
    ASSUME ClientInv, NEW t \in Tasks, DequeueRead(t)
    PROVE  Carried
  <1>1. task[t] \in Tasked /\ Fits(Python(t), task[t], SentCalls) /\ task[t].pc = "dequeue"
    BY Known DEF Is, DequeueRead
  <1>2. Hands(task[t]) = {} /\ Python(t)
    BY <1>1, EmptyHands DEF Fits
  <1>3. Quietly(t) /\ numCalls' \in Nat
    BY DEF DequeueRead, Buffers, Told, Counted, Quietly, ClientInv, Types
  <1>4. CASE file = <<>>
    BY <1>2, <1>3, <1>4, IdleDone DEF DequeueRead
  <1>5. CASE file # <<>>
    <2> DEFINE new == [Idle EXCEPT !.pc = "unlink", !.left = file]
    <2>1. new \in Tasked
      BY IdleFits DEF Tasked, ClientInv, Types
    <2>2. Fits(Python(t), new, SentCalls')
      BY <1>2 DEF Idle, Fits
    <2>3. Goes(t, new)
      BY <1>5 DEF DequeueRead
    <2> HIDE DEF new
    <2> QED BY <1>2, <1>3, <2>1, <2>2, <2>3, QuietDone
  <1> QED BY <1>4, <1>5

LEMMA ReplayDone ==
    ASSUME ClientInv, NEW t \in Tasks, Replay(t)
    PROVE  Carried
  <1> DEFINE k == task[t]
  <1>1. k \in Tasked /\ Fits(Python(t), k, SentCalls) /\ k.pc = "replay"
    BY Known DEF Is, Replay
  <1>2. Quietly(t) /\ numCalls' \in Nat /\ SentCalls \subseteq SentCalls'
    BY DEF Replay, Buffers, Told, Counted, Quietly, ClientInv, Types, SentCalls
  <1>3. CASE k.left = <<>>
    <2>1. Hands(k) = {}
      BY <1>1, <1>3, CallsOfNone DEF Fits, Hands
    <2> QED BY <1>2, <1>3, <2>1, IdleDone DEF Replay
  <1>4. CASE k.left # <<>>
    <2> DEFINE new == [k EXCEPT !.pc = "sending", !.attempt = 0, !.replay = TRUE, !.entry = k.left[k.at]]
    <2>1. Goes(t, new)
      BY <1>4 DEF Replay
    <2>2. k.at \in 1 .. Len(k.left) /\ k.left \in Seq(Buffered)
      BY <1>1, <1>4 DEF Fits, Tasked
    <2>3. k.left[k.at] \in Buffered /\ k.left[k.at].call \in CallsOf(k.left)
      BY <2>2 DEF CallsOf, Members
    <2> HIDE DEF k
    <2>4. new \in Tasked
      BY <1>1, <2>3 DEF Tasked
    <2>5. new.left = k.left /\ new.at = k.at /\ new.pc = "sending"
      BY <1>1 DEF Tasked
    <2>6. new.replay /\ new.entry = k.left[k.at]
      BY <1>1 DEF Tasked
    <2> HIDE DEF new
    <2>7. Fits(Python(t), new, SentCalls')
      BY <1>1, <1>2, <2>2, <2>3, <2>5, <2>6 DEF Fits
    <2>8. Hands(k) \subseteq Hands(new)
      BY <1>1, <2>5, <2>6 DEF Fits, Hands
    <2> QED BY <1>2, <2>1, <2>4, <2>7, <2>8, QuietDone DEF k
  <1> QED BY <1>3, <1>4


-----------------------------------------------------------------------------
(* the file of the Python clients *)

LEMMA RotateDone ==
    ASSUME ClientInv, NEW t \in Tasks, RotateIfNeeded(t)
    PROVE  Carried
  <1> DEFINE k == task[t]
             pc == IF Rotates THEN "rename" ELSE "append"
             new == [k EXCEPT !.pc = pc]
  <1>1. k \in Tasked /\ Fits(Python(t), k, SentCalls) /\ k.pc = "rotate"
    BY Known DEF Is, RotateIfNeeded
  <1>2. Quietly(t) /\ numCalls' \in Nat /\ SentCalls \subseteq SentCalls' /\ Goes(t, new)
    BY DEF RotateIfNeeded, Buffers, Told, Counted, Quietly, ClientInv, Types, SentCalls
  <1>3. pc \in {"rename", "append"}
    OBVIOUS
  <1> HIDE DEF k, pc
  <1>4. new \in Tasked
    BY <1>1, <1>3 DEF Tasked
  <1>5. new.left = k.left /\ new.at = k.at /\ new.replay = k.replay /\ new.entry = k.entry /\ new.pc = pc
    BY <1>1 DEF Tasked
  <1> HIDE DEF new
  <1>6. Fits(Python(t), new, SentCalls')
    BY <1>1, <1>2, <1>3, <1>5 DEF Fits
  <1>7. Hands(k) = {}
    BY <1>1, EmptyHands
  <1> QED BY <1>2, <1>4, <1>6, <1>7, QuietDone DEF k

LEMMA RenameDone ==
    ASSUME ClientInv, NEW t \in Tasks, Rename(t)
    PROVE  ClientInv' /\ Kept \subseteq Safe' \cup CallsOf(old)
  <1> DEFINE k == task[t]
             new == [k EXCEPT !.pc = "append"]
  <1>1. k \in Tasked /\ Fits(Python(t), k, SentCalls) /\ k.pc = "rename"
    BY Known DEF Is, Rename
  <1>2. /\ UNCHANGED <<language, sent, dead, queue, disk, numCalls>> /\ Goes(t, new)
        /\ old' = file /\ file' = <<>>
    BY DEF Rename, Told, Counted
  <1> HIDE DEF k
  <1>3. new \in Tasked
    BY <1>1 DEF Tasked
  <1>4. new.left = k.left /\ new.at = k.at /\ new.replay = k.replay /\ new.entry = k.entry /\ new.pc = "append"
    BY <1>1 DEF Tasked
  <1> HIDE DEF new
  <1>5. Fits(Python(t), new, SentCalls')
    BY <1>1, <1>2, <1>4 DEF Fits
  <1>6. /\ TasksFit' /\ task' \in [Tasks -> Tasked] /\ InHand(t)' = Hands(new)
        /\ \A u \in Tasks : u # t => InHand(u)' = InHand(u)
        /\ SentCalls \subseteq SentCalls'
    BY <1>2, <1>3, <1>5, Going
  <1>7. InHand(t) = {} /\ Python(t)
    BY <1>1, InHandIs, EmptyHands DEF k, Fits
  <1>8. DiskBacked'
    BY <1>2, <1>6, <1>7, Backing
  <1>9. ClientInv'
    BY <1>2, <1>6, <1>8 DEF ClientInv, Types
  <1>10. /\ CallsOf(file) \subseteq Safe' \cup CallsOf(old)
         /\ \A c \in Clients : CallsOf(queue[c]) \subseteq Safe' \cup CallsOf(old)
    BY <1>2 DEF Safe, Kept
  <1>11. Kept \subseteq Safe' \cup CallsOf(old)
    BY <1>2, <1>6, <1>7, <1>10, KeepingBut DEF ClientInv
  <1> QED BY <1>9, <1>11

LEMMA EnqueueDone ==
    ASSUME ClientInv, NEW t \in Tasks, Enqueue(t)
    PROVE  Carried
  <1> DEFINE k == task[t]
             new == [k EXCEPT !.pc = "sending", !.attempt = @ + 1]
  <1>1. k \in Tasked /\ Fits(Python(t), k, SentCalls) /\ k.pc = "append"
    BY Known DEF Is, Enqueue
  <1>2. /\ UNCHANGED <<language, sent, dead, old, queue, disk, numCalls>> /\ Goes(t, new)
        /\ file' = Append(file, k.entry)
    BY DEF Enqueue, Told, Counted, EntryOf
  <1> HIDE DEF k
  <1>3. new \in Tasked
    <2>1. new = [[k EXCEPT !.pc = "sending"] EXCEPT !.attempt = k.attempt + 1] /\ k.attempt + 1 \in Nat
      BY <1>1 DEF Tasked
    <2>2. [k EXCEPT !.pc = "sending"] \in Tasked
      BY <1>1 DEF Tasked
    <2> QED BY <2>1, <2>2 DEF Tasked
  <1>4. new.left = k.left /\ new.at = k.at /\ new.replay = k.replay /\ new.entry = k.entry /\ new.pc = "sending"
    BY <1>1 DEF Tasked
  <1> HIDE DEF new
  <1>5. Fits(Python(t), new, SentCalls')
    BY <1>1, <1>2, <1>4 DEF Fits
  <1>6. /\ TasksFit' /\ task' \in [Tasks -> Tasked] /\ InHand(t)' = Hands(new)
        /\ \A u \in Tasks : u # t => InHand(u)' = InHand(u)
        /\ \A u \in Tasks : Python(u)' = Python(u)
        /\ SentCalls \subseteq SentCalls'
    BY <1>2, <1>3, <1>5, Going
  <1>7. InHand(t) = {} /\ Python(t)
    BY <1>1, InHandIs, EmptyHands DEF k, Fits
  <1>8. DiskBacked'
    BY <1>2, <1>6, <1>7, Backing
  <1>9. /\ file' \in Seq(Buffered) /\ CallsOf(file) \subseteq CallsOf(file)'
    <2>1. k.entry \in Buffered /\ file \in Seq(Buffered)
      BY <1>1 DEF Tasked, ClientInv, Types
    <2>2. CallsOf(Append(file, k.entry)) = CallsOf(file) \cup {k.entry.call}
      BY <2>1, CallsOfAppend
    <2> QED BY <1>2, <2>1, <2>2
  <1>10. ClientInv'
    BY <1>2, <1>6, <1>8, <1>9 DEF ClientInv, Types
  <1>11. /\ CallsOf(file) \subseteq Safe' /\ CallsOf(old) \subseteq Safe'
         /\ \A c \in Clients : CallsOf(queue[c]) \subseteq Safe'
    BY <1>2, <1>9 DEF Safe, Kept
  <1>12. Kept \subseteq Safe'
    BY <1>2, <1>6, <1>7, <1>11, Keeping DEF ClientInv
  <1> QED BY <1>10, <1>12 DEF Carried

LEMMA DequeueUnlinkDone ==
    ASSUME ClientInv, NEW t \in Tasks, DequeueUnlink(t)
    PROVE  ClientInv' /\ Kept \subseteq Safe' \cup (CallsOf(file) \ CallsOf(task[t].left))
  <1> DEFINE k == task[t]
             new == [k EXCEPT !.pc = "replay"]
  <1>1. k \in Tasked /\ Fits(Python(t), k, SentCalls) /\ k.pc = "unlink"
    BY Known DEF Is, DequeueUnlink
  <1>2. /\ UNCHANGED <<language, sent, dead, old, queue, disk, numCalls>> /\ Goes(t, new)
        /\ file' = <<>>
    BY DEF DequeueUnlink, Told, Counted
  <1> HIDE DEF k
  <1>3. new \in Tasked
    BY <1>1 DEF Tasked
  <1>4. new.left = k.left /\ new.at = k.at /\ new.replay = k.replay /\ new.entry = k.entry /\ new.pc = "replay"
    BY <1>1 DEF Tasked
  <1> HIDE DEF new
  <1>5. Fits(Python(t), new, SentCalls') /\ Python(t)
    BY <1>1, <1>2, <1>4 DEF Fits
  <1>6. /\ TasksFit' /\ task' \in [Tasks -> Tasked] /\ InHand(t)' = Hands(new)
        /\ \A u \in Tasks : u # t => InHand(u)' = InHand(u)
        /\ SentCalls \subseteq SentCalls'
    BY <1>2, <1>3, <1>5, Going
  <1>7. DiskBacked'
    BY <1>2, <1>5, <1>6, Backing
  <1>8. Types'
    BY <1>2, <1>6 DEF ClientInv, Types
  <1> DEFINE lost == CallsOf(file) \ CallsOf(task[t].left)
  <1>9. InHand(t)' = InHand(t)
    BY <1>4, <1>6, InHandIs DEF Hands, k
  <1>10. CallsOf(task[t].left) \subseteq Safe'
    BY <1>9 DEF InHand, Safe, Kept
  <1>11. /\ CallsOf(file) \subseteq Safe' \cup lost /\ CallsOf(old) \subseteq Safe' \cup lost
         /\ \A c \in Clients : CallsOf(queue[c]) \subseteq Safe' \cup lost
    BY <1>2, <1>10 DEF Safe, Kept
  <1> HIDE DEF lost
  <1>12. Kept \subseteq Safe' \cup lost
    BY <1>2, <1>6, <1>9, <1>11, KeepingBut DEF ClientInv
  <1> QED BY <1>6, <1>7, <1>8, <1>12 DEF ClientInv, lost


-----------------------------------------------------------------------------
(* the queue of a TypeScript client *)

\* A step of a TypeScript client that leaves its queue at q, and drops what is lost if it has no disk.
LEMMA QueueDone ==
    ASSUME ClientInv, NEW t \in Tasks, ~Python(t), NEW new \in Tasked, Goes(t, new),
           NEW q \in Seq(Buffered), SetQueue(t, q), disk' = disk \/ Persist(t, q),
           UNCHANGED <<language, file, old, sent, numCalls>>, dead \subseteq dead',
           Fits(Python(t), new, SentCalls'), NEW lost, Lang(t) = "memory" \/ lost = {},
           CallsOf(Queue(t)) \cup Hands(task[t]) \subseteq dead' \cup SentCalls' \cup CallsOf(q) \cup Hands(new) \cup lost
    PROVE  ClientInv' /\ Kept \subseteq Safe' \cup lost
  <1> DEFINE c == ClientOf[t]
             Backed == dead' \cup SentCalls' \cup Queued' \cup Drawn'
  <1>1. /\ TasksFit' /\ task' \in [Tasks -> Tasked] /\ InHand(t)' = Hands(new)
        /\ \A u \in Tasks : u # t => InHand(u)' = InHand(u)
        /\ SentCalls \subseteq SentCalls'
    BY Going
  <1>2. /\ c \in Clients /\ queue' \in [Clients -> Seq(Buffered)] /\ queue'[c] = q
        /\ \A d \in Clients : d # c => queue'[d] = queue[d]
    BY ClientAssumption DEF SetQueue, ClientInv, Types
  <1>3. DiskBacked'
    <2>1. CASE Lang(t) = "memory"
      <3>1. disk' = disk /\ dead \subseteq dead' /\ SentCalls \subseteq SentCalls'
        BY <1>1, <2>1 DEF Persist
      <3>2. Queued' = Queued
        BY <1>2, <2>1 DEF Queued, Lang
      <3>3. Drawn' = Drawn
        BY <1>1, <2>1 DEF Drawn, Lang
      <3> QED BY <3>1, <3>2, <3>3 DEF ClientInv, DiskBacked
    <2>2. CASE Lang(t) # "memory"
      <3>1. Lang(t) = "typescript" /\ lost = {} /\ language[c] = "typescript"
        BY <1>2, <2>2, ClientAssumption DEF Python, Lang, ClientInv, Types
      <3>2. CallsOf(q) \subseteq Queued'
        BY <1>2, <3>1 DEF Queued
      <3>3. Hands(new) \subseteq Drawn'
        BY <1>1, <3>1 DEF Drawn, Lang
      <3>4. CallsOf(Queue(t)) \subseteq Backed /\ InHand(t) \subseteq Backed
        BY <3>1, <3>2, <3>3, InHandIs
      <3>5. \A d \in Clients : language[d] = "typescript" => CallsOf(queue[d]) \subseteq Backed
        <4> TAKE d \in Clients
        <4>1. CASE d = c
          BY <3>4, <4>1 DEF Queue
        <4>2. CASE d # c
          BY <1>2, <4>2 DEF Queued
        <4> QED BY <4>1, <4>2
      <3>6. \A u \in Tasks : Lang(u) = "typescript" => InHand(u) \subseteq Backed
        <4> TAKE u \in Tasks
        <4>1. CASE u = t
          BY <3>4, <4>1
        <4>2. CASE u # t
          BY <1>1, <4>2 DEF Drawn, Lang
        <4> QED BY <4>1, <4>2
      <3>7. Queued \subseteq Backed /\ Drawn \subseteq Backed
        BY <3>5, <3>6 DEF Queued, Drawn
      <3>8. CASE disk' = disk
        BY <1>1, <3>7, <3>8 DEF ClientInv, DiskBacked
      <3>9. CASE disk' = q
        BY <3>2, <3>9 DEF DiskBacked
      <3> QED BY <3>1, <3>8, <3>9 DEF Persist
    <2> QED BY <2>1, <2>2
  <1>4. disk' \in Seq(Buffered)
    BY DEF ClientInv, Types, Persist
  <1>5. ClientInv'
    BY <1>1, <1>2, <1>3, <1>4 DEF ClientInv, Types
  <1>6. dead' \cup SentCalls' \cup CallsOf(q) \cup Hands(new) \subseteq Safe'
    BY <1>1, <1>2 DEF Safe, Kept
  <1>7. CallsOf(Queue(t)) \subseteq Safe' \cup lost /\ InHand(t) \subseteq Safe' \cup lost
    BY <1>6, InHandIs
  <1>8. \A d \in Clients : CallsOf(queue[d]) \subseteq Safe' \cup lost
    <2> TAKE d \in Clients
    <2>1. CASE d = c
      BY <1>7, <2>1 DEF Queue
    <2>2. CASE d # c
      BY <1>2, <2>2 DEF Safe, Kept
    <2> QED BY <2>1, <2>2
  <1>9. CallsOf(file) \subseteq Safe' /\ CallsOf(old) \subseteq Safe'
    BY DEF Safe, Kept
  <1>10. Kept \subseteq Safe' \cup lost
    BY <1>1, <1>7, <1>8, <1>9, KeepingBut DEF ClientInv
  <1> QED BY <1>5, <1>10

LEMMA RefusedTsDone ==
    ASSUME ClientInv, NEW t \in Tasks, RefusedTs(t)
    PROVE  Carried
  <1>1. task[t] \in Tasked /\ Fits(Python(t), task[t], SentCalls) /\ task[t].pc = "sending"
    BY Known DEF Is, RefusedTs
  <1>2. Hands(task[t]) = {}
    BY <1>1, EmptyHands DEF RefusedTs
  <1>3. Quietly(t) /\ numCalls' \in Nat /\ Goes(t, Idle)
    BY DEF RefusedTs, Buffers, Told, Counted, Quietly, ClientInv, Types
  <1> QED BY <1>2, <1>3, IdleDone

LEMMA QueueTyped ==
    ASSUME ClientInv, NEW t \in Tasks
    PROVE  Queue(t) \in Seq(Buffered) /\ EntryOf(t) \in Buffered
  BY ClientAssumption DEF ClientInv, Types, Queue, EntryOf, Tasked

LEMMA BreaksTsDone ==
    ASSUME ClientInv, NEW t \in Tasks, BreaksTs(t)
    PROVE  ClientInv' /\ (Kept \subseteq Safe' \/ (Lang(t) = "memory" /\ Kept \subseteq Safe' \cup GivenUp(t)))
  <1> DEFINE k == task[t]
             q == Append(Queue(t), EntryOf(t))
             n == Overflow(q)
             lost == IF Lang(t) = "memory" THEN CallsOf(SubSeq(q, 1, n)) ELSE {}
  <1>1. /\ k \in Tasked /\ Fits(Python(t), k, SentCalls) /\ k.pc = "sending" /\ ~k.replay /\ ~Python(t)
        /\ Hands(k) = {}
    BY Known, EmptyHands DEF Is, BreaksTs
  <1>2. q \in Seq(Buffered) /\ n \in 0 .. Len(q)
    BY QueueTyped, ClientAssumption DEF Overflow
  <1>3. /\ CallsOf(q) = CallsOf(Queue(t)) \cup {EntryOf(t).call}
        /\ CallsOf(q) = CallsOf(SubSeq(q, 1, n)) \cup CallsOf(Rest(q, n)) /\ Rest(q, n) \in Seq(Buffered)
    BY <1>2, QueueTyped, CallsOfAppend, CallsOfSplit
  <1>4. /\ SetQueue(t, Rest(q, n)) /\ Persist(t, Rest(q, n))
        /\ dead \subseteq dead' /\ CallsOf(SubSeq(q, 1, n)) \subseteq dead' \cup lost
        /\ UNCHANGED <<language, file, old, sent, numCalls>>
    BY DEF BreaksTs, Push, Bury, Told, Counted
  <1>5. PICK timeout \in {TRUE, k.timedOut} :
            Goes(t, IF k.attempt = MaxRetries THEN Idle
                    ELSE [k EXCEPT !.attempt = @ + 1, !.timedOut = timeout])
    BY DEF BreaksTs
  <1>9. /\ Lang(t) = "memory" \/ lost = {}
        /\ lost # {} => lost = GivenUp(t)
    BY <1>1 DEF GivenUp
  <1> HIDE DEF q, n, lost
  <1>6. CallsOf(Queue(t)) \cup Hands(k) \subseteq dead' \cup CallsOf(Rest(q, n)) \cup lost
    BY <1>1, <1>3, <1>4
  <1>7. CASE k.attempt = MaxRetries
    <2>1. Goes(t, Idle) /\ Idle \in Tasked /\ Fits(Python(t), Idle, SentCalls')
      BY <1>5, <1>7, IdleFits
    <2>2. ClientInv' /\ Kept \subseteq Safe' \cup lost
      BY <1>1, <1>3, <1>4, <1>6, <1>9, <2>1, QueueDone DEF k
    <2> QED BY <1>9, <2>2
  <1>8. CASE k.attempt # MaxRetries
    <2> DEFINE new == [k EXCEPT !.attempt = @ + 1, !.timedOut = timeout]
    <2>1. Goes(t, new)
      BY <1>5, <1>8
    <2> HIDE DEF k
    <2>2. new \in Tasked
      <3>1. new = [[k EXCEPT !.attempt = k.attempt + 1] EXCEPT !.timedOut = timeout] /\ k.attempt + 1 \in Nat
        BY <1>1 DEF Tasked
      <3>2. [k EXCEPT !.attempt = k.attempt + 1] \in Tasked
        BY <1>1 DEF Tasked
      <3>3. timeout \in BOOLEAN
        BY <1>1 DEF Tasked
      <3> QED BY <3>1, <3>2, <3>3 DEF Tasked
    <2>3. /\ new.left = k.left /\ new.at = k.at /\ new.replay = k.replay /\ new.entry = k.entry
          /\ new.pc = k.pc
      BY <1>1 DEF Tasked
    <2> HIDE DEF new
    <2>4. Fits(Python(t), new, SentCalls')
      BY <1>1, <2>3 DEF Fits
    <2>5. ClientInv' /\ Kept \subseteq Safe' \cup lost
      BY <1>1, <1>3, <1>4, <1>6, <1>9, <2>1, <2>2, <2>4, QueueDone DEF k
    <2> QED BY <1>9, <2>5
  <1> QED BY <1>7, <1>8

\* As QueueDone, with nothing lost.
LEMMA QueueKept ==
    ASSUME ClientInv, NEW t \in Tasks, ~Python(t), NEW new \in Tasked, Goes(t, new),
           NEW q \in Seq(Buffered), SetQueue(t, q), disk' = disk \/ Persist(t, q),
           UNCHANGED <<language, file, old, sent, numCalls>>, dead \subseteq dead',
           Fits(Python(t), new, SentCalls'),
           CallsOf(Queue(t)) \cup Hands(task[t]) \subseteq dead' \cup SentCalls' \cup CallsOf(q) \cup Hands(new)
    PROVE  Carried
  <1> PICK lost : lost = {}
    OBVIOUS
  <1>1. ClientInv' /\ Kept \subseteq Safe' \cup lost
    BY QueueDone
  <1> QED BY <1>1 DEF Carried

LEMMA DrainDone ==
    ASSUME ClientInv, NEW t \in Tasks, Drain(t)
    PROVE  Carried
  <1>1. /\ task[t] \in Tasked /\ Fits(Python(t), task[t], SentCalls) /\ task[t].pc = "drain"
        /\ Hands(task[t]) = {} /\ ~Python(t)
    BY Known, EmptyHands DEF Is, Drain, Fits
  <1>2. UNCHANGED <<language, file, old, dead, sent, numCalls>>
    BY DEF Drain, Told, Counted
  <1>3. CASE Queue(t) = <<>>
    <2>1. Persist(t, <<>>) /\ Goes(t, Idle) /\ UNCHANGED queue
      BY <1>3 DEF Drain
    <2>2. SetQueue(t, <<>>)
      BY <1>3, <2>1 DEF SetQueue, Queue, ClientInv, Types
    <2>3. <<>> \in Seq(Buffered) /\ CallsOf(Queue(t)) = {}
      BY <1>3, CallsOfNone
    <2> QED BY <1>1, <1>2, <2>1, <2>2, <2>3, IdleFits, QueueKept
  <1>4. CASE Queue(t) # <<>>
    <2> DEFINE new == [Idle EXCEPT !.pc = "sending", !.replay = TRUE, !.entry = Head(Queue(t))]
    <2>1. SetQueue(t, Tail(Queue(t))) /\ Goes(t, new) /\ disk' = disk
      BY <1>4 DEF Drain
    <2>2. /\ CallsOf(Queue(t)) = CallsOf(Tail(Queue(t))) \cup {Head(Queue(t)).call}
          /\ Tail(Queue(t)) \in Seq(Buffered) /\ Head(Queue(t)) \in Buffered
      BY <1>4, QueueTyped, CallsOfHead
    <2>3. new \in Tasked
      BY <2>2, IdleFits DEF Tasked
    <2>4. Fits(Python(t), new, SentCalls')
      BY <1>1 DEF Idle, Fits
    <2>5. Head(Queue(t)).call \in Hands(new)
      BY DEF Idle, Hands
    <2> HIDE DEF new
    <2> QED BY <1>1, <1>2, <2>1, <2>2, <2>3, <2>4, <2>5, QueueKept
  <1> QED BY <1>3, <1>4

LEMMA RequeueDone ==
    ASSUME ClientInv, NEW t \in Tasks, Requeue(t)
    PROVE  ClientInv' /\ (Kept \subseteq Safe' \/ (Lang(t) = "memory" /\ Kept \subseteq Safe' \cup GivenUp(t)))
  <1> DEFINE failed == [EntryOf(t) EXCEPT !.tries = @ + 1]
             q == Append(Queue(t), failed)
             new == [Idle EXCEPT !.pc = "drain"]
  <1>1. task[t] \in Tasked /\ Fits(Python(t), task[t], SentCalls) /\ ~Python(t) /\ task[t].replay
    BY Known DEF Requeue
  <1>2. /\ UNCHANGED <<language, file, old, sent, numCalls>> /\ Goes(t, new)
        /\ IF failed.tries >= MaxReplays
           THEN Bury(t, {failed.call}) /\ UNCHANGED <<queue, disk>>
           ELSE SetQueue(t, q) /\ Persist(t, q) /\ UNCHANGED dead
    BY DEF Requeue, Told, Counted
  <1>3. failed.call = EntryOf(t).call /\ failed \in Buffered /\ failed.tries = EntryOf(t).tries + 1
    BY QueueTyped DEF Buffered
  <1>4. Hands(task[t]) \subseteq {EntryOf(t).call}
    BY <1>1, CallsOfNone DEF Fits, Hands, EntryOf
  <1>5. new \in Tasked
    BY IdleFits DEF Tasked
  <1>6. Fits(Python(t), new, SentCalls')
    BY <1>1 DEF Idle, Fits
  <1> HIDE DEF failed, new
  <1>7. CASE failed.tries >= MaxReplays
    <2> DEFINE lost == IF Lang(t) = "memory" THEN {EntryOf(t).call} ELSE {}
    <2>1. dead \subseteq dead' /\ EntryOf(t).call \in dead' \cup lost /\ UNCHANGED <<queue, disk>>
      BY <1>2, <1>3, <1>7 DEF Bury
    <2>2. SetQueue(t, Queue(t))
      BY <2>1 DEF SetQueue, Queue, ClientInv, Types
    <2>3. /\ Lang(t) = "memory" \/ lost = {}
          /\ lost \subseteq GivenUp(t)
      BY <1>1, <1>3, <1>7 DEF GivenUp
    <2> HIDE DEF lost
    <2>4. CallsOf(Queue(t)) \cup Hands(task[t]) \subseteq dead' \cup SentCalls' \cup CallsOf(Queue(t)) \cup Hands(new) \cup lost
      BY <1>4, <2>1
    <2>5. ClientInv' /\ Kept \subseteq Safe' \cup lost
      BY <1>1, <1>2, <1>5, <1>6, <2>1, <2>2, <2>3, <2>4, QueueTyped, QueueDone
    <2> QED BY <2>3, <2>5
  <1>8. CASE ~(failed.tries >= MaxReplays)
    <2>1. SetQueue(t, q) /\ Persist(t, q) /\ dead' = dead
      BY <1>2, <1>8
    <2>2. CallsOf(q) = CallsOf(Queue(t)) \cup {EntryOf(t).call} /\ q \in Seq(Buffered)
      BY <1>3, QueueTyped, CallsOfAppend
    <2> HIDE DEF q
    <2> QED BY <1>1, <1>2, <1>4, <1>5, <1>6, <2>1, <2>2, QueueKept DEF Carried
  <1> QED BY <1>7, <1>8


-----------------------------------------------------------------------------
(* all the steps *)

LEMMA CrashDone ==
    ASSUME ClientInv, NEW c \in Clients, Crash(c)
    PROVE  ClientInv' /\ Kept \subseteq Safe' \cup Held(c)
  <1>1. /\ UNCHANGED <<language, numCalls, file, old, dead, disk, sent>>
        /\ task' = [t \in Tasks |-> IF ClientOf[t] = c THEN Idle ELSE task[t]]
        /\ queue' = [queue EXCEPT ![c] = IF language[c] = "typescript" THEN disk ELSE <<>>]
    BY DEF Crash, Told
  <1>2. task' \in [Tasks -> Tasked]
    BY <1>1, IdleFits DEF ClientInv, Types
  <1>3. Types'
    BY <1>1, <1>2 DEF ClientInv, Types
  <1>4. SentCalls' = SentCalls /\ \A t \in Tasks : Python(t)' = Python(t)
    BY <1>1 DEF SentCalls, Python, Lang
  <1>5. TasksFit'
    <2> SUFFICES ASSUME NEW t \in Tasks PROVE Fits(Python(t), task'[t], SentCalls)
      BY <1>4 DEF TasksFit
    <2>1. CASE ClientOf[t] = c
      BY <1>1, <2>1, IdleFits
    <2>2. CASE ClientOf[t] # c
      BY <1>1, <2>2, Known
    <2> QED BY <2>1, <2>2
  <1>6. \A d \in Clients : d # c => queue'[d] = queue[d]
    BY <1>1 DEF ClientInv, Types
  <1>7. \A t \in Tasks : ClientOf[t] # c => InHand(t)' = InHand(t)
    BY <1>1 DEF InHand, EntryOf
  <1>8. DiskBacked'
    <2>1. CASE language[c] = "typescript"
      <3>1. queue'[c] = disk'
        BY <1>1, <2>1 DEF ClientInv, Types
      <3>2. CallsOf(disk)' \subseteq Queued'
        BY <1>1, <2>1, <3>1 DEF Queued
      <3> QED BY <3>2 DEF DiskBacked
    <2>2. CASE language[c] # "typescript"
      <3>1. Queued' = Queued
        BY <1>1, <1>6, <2>2 DEF Queued
      <3>2. Drawn \subseteq Drawn'
        BY <1>1, <1>7, <2>2 DEF Drawn, Lang
      <3> QED BY <1>1, <1>4, <3>1, <3>2 DEF ClientInv, DiskBacked
    <2> QED BY <2>1, <2>2
  <1>9. /\ CallsOf(file) \subseteq Safe' /\ CallsOf(old) \subseteq Safe'
        /\ \A d \in Clients : CallsOf(queue[d]) \subseteq Safe' \cup Held(c)
    BY <1>1, <1>6 DEF Safe, Kept, Held
  <1>10. \A t \in Tasks : InHand(t)' = InHand(t) \/ InHand(t) \subseteq Held(c)
    BY <1>7 DEF Held
  <1>11. dead \subseteq dead' /\ SentCalls \subseteq SentCalls' /\ DiskBacked
    BY <1>1, <1>4 DEF ClientInv
  <1>12. Kept \subseteq Safe' \cup Held(c)
    BY <1>9, <1>10, <1>11, KeepingBut
  <1> QED BY <1>3, <1>5, <1>8, <1>12 DEF ClientInv

LEMMA InterruptDone ==
    ASSUME ClientInv, NEW t \in Tasks, Interrupt(t)
    PROVE  ClientInv' /\ Kept \subseteq Safe' \cup InHand(t)
  <1>1. UNCHANGED <<language, numCalls, file, old, dead, queue, disk, sent>> /\ Goes(t, Idle) /\ Python(t)
    BY DEF Interrupt, Buffers, Told
  <1>2. Idle \in Tasked /\ Fits(Python(t), Idle, SentCalls')
    BY IdleFits
  <1>3. /\ TasksFit' /\ task' \in [Tasks -> Tasked]
        /\ \A u \in Tasks : u # t => InHand(u)' = InHand(u)
        /\ SentCalls \subseteq SentCalls'
    BY <1>1, <1>2, Going
  <1>4. DiskBacked'
    BY <1>1, <1>3, Backing
  <1>5. Types'
    BY <1>1, <1>3 DEF ClientInv, Types
  <1>6. /\ CallsOf(file) \subseteq Safe' /\ CallsOf(old) \subseteq Safe'
        /\ \A c \in Clients : CallsOf(queue[c]) \subseteq Safe'
    BY <1>1 DEF Safe, Kept
  <1>7. Kept \subseteq Safe' \cup InHand(t)
    BY <1>1, <1>3, <1>6, KeepingBut DEF ClientInv
  <1> QED BY <1>3, <1>4, <1>5, <1>7 DEF ClientInv

LEMMA NothingHappens ==
    ASSUME ClientInv, UNCHANGED clientVars
    PROVE  Carried
  <1>1. Types'
    BY DEF clientVars, ClientInv, Types
  <1>3. SentCalls' = SentCalls /\ \A t \in Tasks : Python(t)' = Python(t) /\ InHand(t)' = InHand(t)
    BY DEF clientVars, SentCalls, Python, Lang, InHand, EntryOf
  <1>4. TasksFit'
    BY <1>3 DEF clientVars, ClientInv, TasksFit
  <1>5. Queued' = Queued /\ Drawn' = Drawn /\ CallsOf(disk)' = CallsOf(disk) /\ dead' = dead
    BY <1>3 DEF clientVars, Queued, Drawn, Lang
  <1>6. DiskBacked'
    BY <1>3, <1>5 DEF ClientInv, DiskBacked
  <1>2. Kept' = Kept
    BY DEF clientVars, Kept, InHand, EntryOf, CallsOf, Members
  <1> QED BY <1>1, <1>2, <1>3, <1>4, <1>6 DEF Carried, Safe, ClientInv

LEMMA TaskStepKeeps ==
    ASSUME ClientInv, crashes \in Nat, NEW t \in Tasks, TaskStep(t)
    PROVE  /\ ClientInv'
           /\ \/ Kept \subseteq Safe'
              \/ crashes' # crashes /\ Kept \subseteq Safe' \cup InHand(t)
              \/ Is(t, "unlink") /\ Kept \subseteq Safe' \cup (CallsOf(file) \ CallsOf(task[t].left))
              \/ Is(t, "rename") /\ Kept \subseteq Safe' \cup CallsOf(old)
              \/ Is(t, "sending") /\ Lang(t) = "memory" /\ Kept \subseteq Safe' \cup GivenUp(t)
  <1>1. CASE Call(t)
    BY <1>1, CallDone DEF Carried
  <1>2. CASE Flush(t)
    BY <1>2, FlushDone DEF Carried
  <1>3. CASE Succeeds(t)
    BY <1>3, SucceedsDone DEF Carried
  <1>4. CASE RefusedWrite(t)
    BY <1>4, RefusedWriteDone DEF Carried
  <1>5. CASE Busy(t)
    BY <1>5, BusyDone DEF Carried
  <1>6. CASE Breaks(t)
    BY <1>6, BreaksDone DEF Carried
  <1>7. CASE RotateIfNeeded(t)
    BY <1>7, RotateDone DEF Carried
  <1>8. CASE Enqueue(t)
    BY <1>8, EnqueueDone DEF Carried
  <1>9. CASE DequeueRead(t)
    BY <1>9, DequeueReadDone DEF Carried
  <1>10. CASE DequeueUnlink(t)
    BY <1>10, DequeueUnlinkDone DEF DequeueUnlink
  <1>11. CASE Replay(t)
    BY <1>11, ReplayDone DEF Carried
  <1>12. CASE RefusedTs(t)
    BY <1>12, RefusedTsDone DEF Carried
  <1>13. CASE BreaksTs(t)
    BY <1>13, BreaksTsDone DEF BreaksTs
  <1>14. CASE Drain(t)
    BY <1>14, DrainDone DEF Carried
  <1>15. CASE Requeue(t)
    BY <1>15, RequeueDone DEF Requeue
  <1>16. CASE Rename(t)
    BY <1>16, RenameDone DEF Rename
  <1>17. CASE Interrupt(t)
    BY <1>17, InterruptDone DEF Interrupt
  <1> QED BY <1>1, <1>2, <1>3, <1>4, <1>5, <1>6, <1>7, <1>8, <1>9, <1>10, <1>11, <1>12, <1>13, <1>14, <1>15,
             <1>16, <1>17 DEF TaskStep

LEMMA ClientInvInit == ClientInit => ClientInv /\ crashes \in Nat
  <1> SUFFICES ASSUME ClientInit PROVE ClientInv /\ crashes \in Nat
    OBVIOUS
  <1>1. \A t \in Tasks : task[t] = Idle
    BY DEF ClientInit
  <1>2. Types
    BY <1>1, IdleFits DEF ClientInit, Types
  <1>3. TasksFit
    BY <1>1, IdleFits DEF TasksFit
  <1>4. DiskBacked
    BY CallsOfNone DEF ClientInit, DiskBacked
  <1> QED BY <1>2, <1>3, <1>4 DEF ClientInv, ClientInit

LEMMA CrashesCounted ==
    ASSUME crashes \in Nat, [ClientNext]_clientVars
    PROVE  crashes' \in Nat
  <1>1. ASSUME NEW t \in Tasks, TaskStep(t) PROVE crashes' \in {crashes, crashes + 1}
    BY <1>1 DEF TaskStep, Call, Flush, Succeeds, RefusedWrite, Busy, Breaks, RotateIfNeeded, Rename, Enqueue,
                DequeueRead, DequeueUnlink, Replay, RefusedTs, BreaksTs, Drain, Requeue, Interrupt, Counted
  <1>2. ASSUME NEW c \in Clients, Crash(c) PROVE crashes' = crashes + 1
    BY <1>2 DEF Crash
  <1> QED BY <1>1, <1>2 DEF ClientNext, clientVars

LEMMA LostIs == ASSUME NEW lost, Kept \subseteq Safe' \cup lost PROVE Lost \subseteq lost
  BY DEF Lost, Safe, SentCalls

LEMMA NextKeeps ==
    ASSUME ClientInv, crashes \in Nat, [ClientNext]_clientVars
    PROVE  ClientInv' /\ SentOrLost
  <1>1. Kept \subseteq Safe' => Lost = {}
    BY DEF Lost, Safe, SentCalls
  <1>2. CASE UNCHANGED clientVars
    BY <1>1, <1>2, NothingHappens DEF Carried, SentOrLost
  <1>3. ASSUME NEW t \in Tasks, TaskStep(t) PROVE ClientInv' /\ SentOrLost
    <2>1. ClientInv'
      BY <1>3, TaskStepKeeps
    <2>2. CASE Kept \subseteq Safe'
      BY <1>1, <2>1, <2>2 DEF SentOrLost
    <2>3. CASE crashes' # crashes /\ Kept \subseteq Safe' \cup InHand(t)
      <3>1. Lost \subseteq Held(ClientOf[t]) /\ ClientOf[t] \in Clients
        BY <2>3, LostIs, ClientAssumption DEF Held
      <3> QED BY <2>1, <2>3, <3>1 DEF SentOrLost
    <2>4. CASE Is(t, "unlink") /\ Kept \subseteq Safe' \cup (CallsOf(file) \ CallsOf(task[t].left))
      BY <2>1, <2>4, LostIs DEF SentOrLost
    <2>5. CASE Is(t, "rename") /\ Kept \subseteq Safe' \cup CallsOf(old)
      BY <2>1, <2>5, LostIs DEF SentOrLost
    <2>6. CASE Is(t, "sending") /\ Lang(t) = "memory" /\ Kept \subseteq Safe' \cup GivenUp(t)
      BY <2>1, <2>6, LostIs DEF SentOrLost
    <2> QED BY <1>3, <2>1, <2>2, <2>3, <2>4, <2>5, <2>6, TaskStepKeeps
  <1>4. ASSUME NEW c \in Clients, Crash(c) PROVE ClientInv' /\ SentOrLost
    <2>1. crashes' # crashes
      BY <1>4 DEF Crash
    <2> QED BY <1>4, <2>1, CrashDone, LostIs DEF SentOrLost
  <1> QED BY <1>2, <1>3, <1>4 DEF ClientNext

-----------------------------------------------------------------------------
\* A write that a client has put aside - in its file, in the queue, in the hands of a flush,
\* among the dead letters - stays in one of these places until the service has answered it,
\* however many clients, threads and replays there are and however they interleave, but for what
\* a dying process or an interrupted flush held, lines appended between the read and the unlink of
\* dequeue_all, the older file when another takes its place, and the dead letters of a queue that
\* has no disk (_buffer.py, _http.py, buffer.ts), as long as a disk takes what is written to it.
THEOREM KeptTillAnswered == ClientSpec => KeptUntilSent
  <1> DEFINE I == ClientInv /\ crashes \in Nat
  <1>1. ClientInit => I
    BY ClientInvInit
  <1>2. I /\ [ClientNext]_clientVars => I'
    BY NextKeeps, CrashesCounted
  <1>3. I /\ [ClientNext]_clientVars => [SentOrLost]_clientVars
    BY NextKeeps
  <1> HIDE DEF I
  <1> QED BY <1>1, <1>2, <1>3, PTL DEF ClientSpec, KeptUntilSent

-----------------------------------------------------------------------------
(* the service stores an observation once *)

LEMMA ServedKeeps ==
    ASSUME KeysOfCalls, NEW t \in Tasks, Reaches(t) \/ UNCHANGED Service
    PROVE  KeysOfCalls'
  <1> DEFINE n == EntryOf(t).call
  <1>1. observed' = observed \/ observed' = observed \cup {[call |-> n, key |-> <<n, 0>>]}
    BY DEF Reaches, ObserveCall, Key, Service
  <1> HIDE DEF n
  <1> QED BY <1>1 DEF KeysOfCalls

LEMMA StepKeepsKeys ==
    ASSUME KeysOfCalls, [ClientNext]_clientVars
    PROVE  KeysOfCalls'
  <1>1. ASSUME NEW t \in Tasks, TaskStep(t) PROVE Reaches(t) \/ UNCHANGED observed
    BY <1>1 DEF TaskStep, Call, Flush, Succeeds, RefusedWrite, Busy, Breaks, RotateIfNeeded, Rename, Enqueue,
                DequeueRead, DequeueUnlink, Replay, RefusedTs, BreaksTs, Drain, Requeue, Interrupt, Service
  <1>2. ASSUME NEW c \in Clients, Crash(c) PROVE UNCHANGED observed
    BY <1>2 DEF Crash, Service
  <1>3. ASSUME UNCHANGED observed PROVE KeysOfCalls'
    BY <1>3 DEF KeysOfCalls
  <1> QED BY <1>1, <1>2, <1>3, ServedKeeps DEF ClientNext, clientVars

LEMMA OneOfCall == KeysOfCalls => StoredOnce
  <1> SUFFICES ASSUME KeysOfCalls, NEW n \in Ids
               PROVE  Cardinality({r \in observed : r.call = n}) <= 1
    BY DEF StoredOnce
  <1> DEFINE rs == {r \in observed : r.call = n}
             one == {[call |-> n, key |-> <<n, 0>>]}
  <1>1. rs \subseteq one
    BY DEF KeysOfCalls
  <1>2. IsFiniteSet(one) /\ Cardinality(one) = 1
    BY FS_Singleton
  <1> HIDE DEF rs, one
  <1>3. IsFiniteSet(rs) /\ Cardinality(rs) <= Cardinality(one)
    BY <1>1, <1>2, FS_Subset
  <1>4. Cardinality(rs) <= 1
    BY <1>2, <1>3
  <1> QED BY <1>4 DEF rs

\* However often, by whichever task and after whatever crash the request of a call is repeated
\* or replayed, the service holds at most one observation of it: every repetition carries the
\* key drawn for the call (_http.py, http.ts).
THEOREM ObservedOnce == ClientSpec => []StoredOnce
  <1>1. ClientInit => KeysOfCalls
    BY DEF ClientInit, KeysOfCalls
  <1>2. KeysOfCalls /\ [ClientNext]_clientVars => KeysOfCalls'
    BY StepKeepsKeys
  <1> QED BY <1>1, <1>2, OneOfCall, PTL DEF ClientSpec

-----------------------------------------------------------------------------
(* the kernel *)

\* The points of a call in progress.
Running == {"got", "run", "flushed", "committed", "locked"}

\* What is known of a call at each of its points.
CallFacts(c) ==
    /\ call[c].life <= life /\ (call[c].pc \in Running => call[c].life = life)
    /\ call[c].pc \in {"run", "committed"} => Req(c).kind = "observe"
    /\ call[c].pc = "flushed" => Req(c).kind \in {"observe", "append", "create_revision"}
    /\ call[c].pc = "locked" => Req(c).kind = "append"
    /\ call[c].pc \in {"run", "flushed", "committed"} /\ Req(c).kind = "observe" => ContractHolds(Req(c))
    /\ call[c].pc = "committed" => c \in committed /\ call[c].ids \subseteq memories
    /\ c \in committed => Req(c).kind = "observe" /\ call[c].pc \in {"committed", "done", "lost"}
CallsInv == TypeOK /\ \A c \in Calls : CallFacts(c)

\* A step of a call: it alone changes, keeps what it was asked, and was not over.
Moves(c) ==
    /\ call[c].pc \notin {"done", "lost"}
    /\ \A d \in Calls : d # c => call'[d] = call[d]
    /\ call[c].pc # "none" =>
        call'[c].req = call[c].req /\ call'[c].life = call[c].life /\ call'[c].after = call[c].after
    /\ call'[c].pc # "none"

-----------------------------------------------------------------------------
LEMMA NoResultIsNone == NoResult \notin Results /\ Refused \notin Results /\ Broken \notin Results
  BY DEF NoResult, Refused, Broken, Results, Statuses, Code

LEMMA RequestFacts ==
    \A r \in Requests : /\ r.kind \in Kinds /\ r.user \in Users
                        /\ r.key # NoId => r.key \in IdempotencyKeys
                        /\ r.op # NoId => r.op \in OpIds
                        /\ <<r.agent, r.op, r.content>> \in Prints
  BY RequestsAssumption DEF Users, IdempotencyKeys, OpIds, Prints

\* How a call ends.
LEMMA Ending ==
    ASSUME TypeOK, NEW c \in Calls, NEW result \in Answers, Ends(c, result),
           call[c].pc \notin {"none", "done", "lost"}
    PROVE  /\ Moves(c)
           /\ call' \in [Calls -> CallStates]
           /\ \A d \in Calls : call'[d].pc # "none" => call'[d].req \in Requests
           /\ call'[c] = [call[c] EXCEPT !.pc = "done", !.answer = result]
           /\ call'[c].pc = "done" /\ call'[c].answer = result /\ call'[c].ids = call[c].ids
           /\ call'[c].req = call[c].req
  <1>1. call'[c] = [call[c] EXCEPT !.pc = "done", !.answer = result]
    BY DEF Ends, TypeOK
  <1>2. \A d \in Calls : d # c => call'[d] = call[d]
    BY DEF Ends, TypeOK
  <1>3. call[c] \in CallStates
    BY DEF TypeOK
  <1>4. call'[c] \in CallStates
    BY <1>1, <1>3 DEF CallStates, PCs
  <1>5. call' \in [Calls -> CallStates]
    BY <1>2, <1>4 DEF Ends, TypeOK
  <1>6. /\ call'[c].pc = "done" /\ call'[c].answer = result /\ call'[c].ids = call[c].ids
        /\ call'[c].req = call[c].req /\ call'[c].life = call[c].life /\ call'[c].after = call[c].after
    BY <1>1, <1>3 DEF CallStates
  <1>7. \A d \in Calls : call'[d].pc # "none" => call'[d].req \in Requests
    BY <1>2, <1>6 DEF TypeOK
  <1> QED BY <1>1, <1>2, <1>5, <1>6, <1>7 DEF Moves

LEMMA ResultType ==
    ASSUME NEW c \in Calls, NEW status \in Statuses, NEW ids \in SUBSET Calls
    PROVE  Result(c, status, ids) \in Results /\ Result(c, status, ids) \in Answers
  BY DEF Result, Results, Answers

LEMMA StatusNames ==
    {"accepted", "queued", "proposed", "completed", "failed", "not_found", "conflict"} = Statuses
  BY DEF Statuses, Code

LEMMA AnswerNames == NoResult \in Answers /\ Refused \in Answers /\ Broken \in Answers
  BY DEF Answers

\* A call that has been received has a request, and names that the tables know.
LEMMA Received ==
    ASSUME TypeOK, NEW c \in Calls, call[c].pc # "none"
    PROVE  /\ Req(c) \in Requests /\ Req(c).user \in Users /\ Req(c).kind \in Kinds
           /\ OpId(c) \in OpIds
           /\ Fingerprint(Req(c)) \in Prints
           /\ Req(c).kind \in Writes /\ ContractHolds(Req(c)) => Req(c).key \in IdempotencyKeys
  <1>1. Req(c) \in Requests
    BY DEF TypeOK, Req
  <1>2. OpId(c) \in OpIds
    BY <1>1, RequestFacts DEF OpId, OpIds
  <1> QED BY <1>1, <1>2, RequestFacts DEF Fingerprint, ContractHolds, HasKey

\* What a step leaves behind when it changes one call and neither the process's tables nor its life.
LEMMA MovesFacts ==
    ASSUME CallsInv, NEW c \in Calls, Moves(c), life' = life, memories \subseteq memories',
           committed \subseteq committed', committed' \subseteq committed \cup {c}, CallFacts(c)'
    PROVE  \A d \in Calls : CallFacts(d)'
  BY DEF CallsInv, CallFacts, Moves, Req, ContractHolds, ClaimsOwnScope, HasKey

\* The steps of a call after its receipt that lead to a further step, and how they change it.
LEMMA Advancing ==
    ASSUME TypeOK, NEW c \in Calls, NEW new \in CallStates, call' = [call EXCEPT ![c] = new],
           call[c].pc \notin {"none", "done", "lost"}, new.pc # "none",
           new.req = call[c].req, new.life = call[c].life, new.after = call[c].after
    PROVE  /\ Moves(c) /\ call' \in [Calls -> CallStates] /\ call'[c] = new
           /\ \A d \in Calls : call'[d].pc # "none" => call'[d].req \in Requests
  <1>1. call'[c] = new /\ \A d \in Calls : d # c => call'[d] = call[d]
    BY DEF TypeOK
  <1>2. call' \in [Calls -> CallStates]
    BY DEF TypeOK
  <1> QED BY <1>1, <1>2 DEF Moves, TypeOK

TablesTyped ==
    /\ ops \in [Users -> [OpIds -> Results \cup {NoResult}]]
    /\ idem \in [Users -> [IdempotencyKeys -> Entries]]
BlockTyped ==
    /\ block \in [version : Nat, current : Nat]
    /\ revisions \subseteq [number : Nat, supersedes : Nat, by : Calls]
    /\ locked \in Calls \cup {NoId}

\* A call ends, whatever becomes of the tables and the block.
LEMMA EndsCalls ==
    ASSUME CallsInv, NEW c \in Calls, NEW result \in Answers, Ends(c, result),
           call[c].pc \notin {"none", "done", "lost"},
           TablesTyped', BlockTyped', UNCHANGED <<Stored, life>>
    PROVE  /\ Moves(c) /\ CallsInv'
           /\ call'[c].pc = "done" /\ call'[c].answer = result /\ call'[c].req = call[c].req
           /\ call'[c].ids = call[c].ids
  <1>1. /\ Moves(c)
        /\ call' \in [Calls -> CallStates]
        /\ \A d \in Calls : call'[d].pc # "none" => call'[d].req \in Requests
        /\ call'[c].pc = "done" /\ call'[c].answer = result /\ call'[c].req = call[c].req
        /\ call'[c].ids = call[c].ids
    BY Ending DEF CallsInv
  <1>2. TypeOK'
    BY <1>1 DEF CallsInv, TypeOK, TablesTyped, BlockTyped, Stored
  <1>3. CallFacts(c)'
    BY <1>1 DEF CallsInv, CallFacts, Stored, Req, Running, Moves
  <1>4. \A d \in Calls : CallFacts(d)'
    BY <1>1, <1>3, MovesFacts DEF Stored
  <1> QED BY <1>1, <1>2, <1>4 DEF CallsInv

LEMMA TypedNow == TypeOK => TablesTyped /\ BlockTyped
  BY DEF TypeOK, TablesTyped, BlockTyped

LEMMA RememberTyped ==
    ASSUME TypeOK, NEW c \in Calls, call[c].pc # "none", NEW result \in Results, Remember(c, result)
    PROVE  /\ ops' \in [Users -> [OpIds -> Results \cup {NoResult}]]
           /\ ops'[Req(c).user][OpId(c)] = result
           /\ \A u \in Users, o \in OpIds :
                u # Req(c).user \/ o # OpId(c) => ops'[u][o] = ops[u][o]
  <1>1. Req(c).user \in Users /\ OpId(c) \in OpIds
    BY Received
  <1> QED BY <1>1 DEF Remember, TypeOK

LEMMA RememberKeyTyped ==
    ASSUME TypeOK, NEW c \in Calls, call[c].pc # "none", NEW result \in Results,
           RememberKey(c, result), Req(c).key \in IdempotencyKeys
    PROVE  /\ idem' \in [Users -> [IdempotencyKeys -> Entries]]
           /\ idem'[Req(c).user][Req(c).key].result = result
           /\ \A u \in Users, k \in IdempotencyKeys :
                u # Req(c).user \/ k # Req(c).key => idem'[u][k] = idem[u][k]
  <1>1. Req(c).user \in Users /\ Fingerprint(Req(c)) \in Prints
    BY Received
  <1>2. [print |-> Fingerprint(Req(c)), result |-> result] \in Entries
    BY <1>1 DEF Entries
  <1> QED BY <1>1, <1>2 DEF RememberKey, TypeOK

LEMMA ConcludesCalls ==
    ASSUME CallsInv, NEW c \in Calls, NEW status \in Statuses, NEW ids \in SUBSET Calls,
           Concludes(c, status, ids), call[c].pc = "got"
    PROVE  /\ Moves(c) /\ CallsInv'
           /\ call'[c].pc = "done" /\ call'[c].answer = Result(c, status, ids)
           /\ call'[c].req = call[c].req
           /\ ops'[Req(c).user][OpId(c)] = Result(c, status, ids)
           /\ \A u \in Users, o \in OpIds :
                u # Req(c).user \/ o # OpId(c) => ops'[u][o] = ops[u][o]
  <1>1. Result(c, status, ids) \in Results /\ Result(c, status, ids) \in Answers
    BY ResultType
  <1>2. /\ ops' \in [Users -> [OpIds -> Results \cup {NoResult}]]
        /\ ops'[Req(c).user][OpId(c)] = Result(c, status, ids)
        /\ \A u \in Users, o \in OpIds :
             u # Req(c).user \/ o # OpId(c) => ops'[u][o] = ops[u][o]
    BY <1>1, RememberTyped DEF Concludes, CallsInv
  <1>3. TablesTyped' /\ BlockTyped' /\ UNCHANGED <<Stored, life>>
    BY <1>2 DEF Concludes, CallsInv, TypeOK, TablesTyped, BlockTyped, BlockState, Stored
  <1> QED BY <1>1, <1>2, <1>3, EndsCalls DEF Concludes

\* A call goes on.
LEMMA AdvancesCalls ==
    ASSUME CallsInv, NEW c \in Calls, NEW new \in CallStates, call' = [call EXCEPT ![c] = new],
           call[c].pc \notin {"none", "done", "lost"}, new.pc # "none",
           new.req = call[c].req, new.life = call[c].life, new.after = call[c].after,
           UNCHANGED <<ops, idem, life>>, BlockTyped',
           memories \subseteq memories', memories' \subseteq Calls,
           committed \subseteq committed', committed' \subseteq committed \cup {c}, CallFacts(c)'
    PROVE  /\ Moves(c) /\ CallsInv' /\ call'[c] = new
  <1>1. /\ Moves(c) /\ call' \in [Calls -> CallStates] /\ call'[c] = new
        /\ \A d \in Calls : call'[d].pc # "none" => call'[d].req \in Requests
    BY Advancing DEF CallsInv
  <1>2. TypeOK'
    BY <1>1 DEF CallsInv, TypeOK, BlockTyped
  <1>3. \A d \in Calls : CallFacts(d)'
    BY <1>1, MovesFacts
  <1> QED BY <1>1, <1>2, <1>3 DEF CallsInv

LEMMA ReceiveCalls ==
    ASSUME CallsInv, NEW c \in Calls, Receive(c)
    PROVE  /\ Moves(c) /\ CallsInv'
           /\ call'[c].pc = "got" /\ call'[c].after = Done /\ call'[c].life = life
           /\ call'[c].answer = NoResult /\ c \notin committed
  <1>1. PICK r \in Requested[c] :
            call' = [call EXCEPT ![c] = [FreshCall EXCEPT !.pc = "got", !.req = r, !.life = life, !.after = Done]]
    BY DEF Receive
  <1>2. r \in Requests
    BY DEF Requests
  <1> DEFINE new == [FreshCall EXCEPT !.pc = "got", !.req = r, !.life = life, !.after = Done]
  <1>3. /\ new \in CallStates
        /\ new.pc = "got" /\ new.req = r /\ new.life = life /\ new.after = Done /\ new.answer = NoResult
    BY <1>2, AnswerNames DEF CallsInv, TypeOK, CallStates, PCs, FreshCall, Done
  <1>4. call'[c] = new /\ call' \in [Calls -> CallStates] /\ \A d \in Calls : d # c => call'[d] = call[d]
    BY <1>1, <1>3 DEF CallsInv, TypeOK
  <1>5. Moves(c)
    BY <1>3, <1>4 DEF Receive, Reached, Moves
  <1> HIDE DEF new
  <1>6. UNCHANGED <<memories, committed, ops, idem, life, block, revisions, locked>> /\ call[c].pc = "none"
    BY DEF Receive, Reached, Stored, BlockState
  <1>8. TypeOK'
    BY <1>2, <1>3, <1>4, <1>6 DEF CallsInv, TypeOK
  <1>9. c \notin committed
    BY <1>6 DEF CallsInv, CallFacts
  <1>10. CallFacts(c)'
    <2>1. life \in Int /\ life <= life
      BY DEF CallsInv, TypeOK
    <2> QED BY <1>3, <1>4, <1>6, <1>9, <2>1 DEF CallFacts, Req, Running
  <1>7. \A d \in Calls : CallFacts(d)'
    BY <1>5, <1>6, <1>10, MovesFacts
  <1> QED BY <1>3, <1>4, <1>5, <1>7, <1>8, <1>9 DEF CallsInv

\* The calls that are not about blocks.
LEMMA ObserveCalls ==
    ASSUME CallsInv, NEW c \in Calls, Observe(c)
    PROVE  Moves(c) /\ CallsInv'
  <1> USE DEF CallsInv
  <1>t. TypeOK /\ call[c] \in CallStates /\ CallFacts(c) /\ TablesTyped /\ BlockTyped
    BY TypedNow DEF TypeOK
  <1>1. CASE ObserveReplayed(c)
    <2>1. Entry(c).result \in Answers
      BY <1>1, <1>t, Received DEF ObserveReplayed, Accepted, Asks, Reached, Entry, TypeOK, Entries, Answers, Writes
    <2> QED BY <1>1, <1>t, <2>1, EndsCalls
            DEF ObserveReplayed, Accepted, Asks, Reached, TablesTyped, BlockTyped, Stored, BlockState
  <1>2. CASE ObserveConflict(c)
    BY <1>2, ConcludesCalls, StatusNames DEF ObserveConflict, Accepted, Asks, Reached
  <1>3. CASE ObserveStart(c)
    <2> DEFINE new == [call[c] EXCEPT !.pc = "run"]
    <2>1. /\ new \in CallStates /\ new.pc = "run" /\ new.req = call[c].req /\ new.life = call[c].life
          /\ new.after = call[c].after
      BY <1>t DEF CallStates, PCs
    <2>2. call' = [call EXCEPT ![c] = new] /\ call'[c] = new
      BY <1>3, <1>t DEF ObserveStart, TypeOK
    <2>3. CallFacts(c)'
      BY <1>3, <1>t, <2>1, <2>2 DEF ObserveStart, Accepted, Asks, Reached, CallFacts, Req, Running, Stored
    <2> QED BY <1>3, <1>t, <2>1, <2>2, <2>3, AdvancesCalls
            DEF ObserveStart, Accepted, Asks, Reached, TypeOK, Stored, BlockState, BlockTyped
  <1>4. CASE Orchestrate(c)
    <2>1. PICK ids \in {{}, {c}} : call' = [call EXCEPT ![c].pc = "flushed", ![c].ids = ids]
      BY <1>4 DEF Orchestrate
    <2> DEFINE new == [call[c] EXCEPT !.pc = "flushed", !.ids = ids]
    <2>2. /\ new \in CallStates /\ new.pc = "flushed" /\ new.req = call[c].req /\ new.life = call[c].life
          /\ new.after = call[c].after
      BY <1>t, <2>1 DEF CallStates, PCs
    <2>3. call' = [call EXCEPT ![c] = new] /\ call'[c] = new
      BY <2>1, <1>t DEF TypeOK
    <2>4. CallFacts(c)'
      BY <1>4, <1>t, <2>2, <2>3, ZenonT(60) DEF Orchestrate, Reached, CallFacts, Req, Running, Stored
    <2> QED BY <1>4, <1>t, <2>2, <2>3, <2>4, AdvancesCalls
            DEF Orchestrate, Reached, TypeOK, Stored, BlockState, BlockTyped
  <1>5. CASE CommitObserve(c)
    <2> DEFINE new == [call[c] EXCEPT !.pc = "committed"]
    <2>1. /\ new \in CallStates /\ new.pc = "committed" /\ new.req = call[c].req /\ new.life = call[c].life
          /\ new.after = call[c].after /\ new.ids = call[c].ids /\ call[c].ids \subseteq Calls
      BY <1>t DEF CallStates, PCs
    <2>2. call' = [call EXCEPT ![c] = new] /\ call'[c] = new
      BY <1>5, <1>t DEF CommitObserve, TypeOK
    <2>3. CallFacts(c)'
      BY <1>5, <1>t, <2>1, <2>2 DEF CommitObserve, Reached, CallFacts, Req, Running
    <2> QED BY <1>5, <1>t, <2>1, <2>2, <2>3, AdvancesCalls
            DEF CommitObserve, Reached, TypeOK, BlockState, BlockTyped
  <1>6. ASSUME NEW status \in Statuses, NEW ids \in SUBSET Calls, Ends(c, Result(c, status, ids)),
               Remember(c, Result(c, status, ids)), RememberKey(c, Result(c, status, ids)),
               call[c].pc \in {"run", "flushed", "committed"}, Req(c).kind = "observe",
               UNCHANGED <<Stored, life, BlockState>>
        PROVE  Moves(c) /\ CallsInv'
    <2>1. Result(c, status, ids) \in Results /\ Result(c, status, ids) \in Answers
      BY <1>6, ResultType
    <2>2. Req(c).key \in IdempotencyKeys
      BY <1>6, <1>t, Received DEF CallFacts, Writes
    <2>3. TablesTyped' /\ BlockTyped'
      BY <1>6, <1>t, <2>1, <2>2, RememberTyped, RememberKeyTyped DEF TablesTyped, BlockTyped, BlockState
    <2> QED BY <1>6, <2>1, <2>3, EndsCalls DEF Stored, BlockState
  <1>7. CASE ObserveAnswered(c)
    BY <1>6, <1>7, <1>t, StatusNames
    DEF ObserveAnswered, Reached, CallFacts, CallStates
  <1>8. CASE ObserveFails(c)
    BY <1>6, <1>8, <1>t, StatusNames DEF ObserveFails, RolledBack, Reached, CallFacts, Stored
  <1>9. CASE Unexpected(c)
    BY <1>9, <1>t, EndsCalls, AnswerNames
    DEF Unexpected, RolledBack, Reached, Stored, TablesTyped, BlockTyped, BlockState
  <1> QED BY <1>1, <1>2, <1>3, <1>4, <1>5, <1>7, <1>8, <1>9 DEF Observe

LEMMA ScopeIsCalls == TypeOK => \A r : Visible(r) \subseteq Calls
  BY DEF TypeOK, Visible

LEMMA OtherCalls ==
    ASSUME CallsInv, NEW c \in Calls, Other(c) \/ RefuseCall(c)
    PROVE  Moves(c) /\ CallsInv'
  <1> USE DEF CallsInv
  <1>t. TypeOK /\ TablesTyped /\ BlockTyped /\ \A r : Visible(r) \subseteq Calls
    BY TypedNow, ScopeIsCalls
  <1>1. CASE Recall(c) \/ BuildContext(c) \/ SearchGraph(c)
    <2>1. call[c].pc = "got" /\ \E ids \in SUBSET Calls : Concludes(c, "completed", ids)
      BY <1>1, <1>t DEF Recall, BuildContext, SearchGraph, Accepted, Asks, Reached, Retrieved
    <2> QED BY <2>1, ConcludesCalls, StatusNames
  <1>2. CASE Explain(c)
    <2>1. call[c].pc = "got" /\ \E ids \in SUBSET Calls, s \in Statuses : Concludes(c, s, ids)
      <3>1. CASE Req(c).target \in Visible(Req(c))
        BY <1>2, <1>t, <3>1, StatusNames DEF Explain, Accepted, Asks, Reached
      <3>2. CASE Req(c).target \notin Visible(Req(c))
        BY <1>2, <1>t, <3>2, StatusNames DEF Explain, Accepted, Asks, Reached
      <3> QED BY <3>1, <3>2
    <2> QED BY <2>1, ConcludesCalls
  <1>3. CASE ReadFails(c) \/ Correct(c) \/ ProposeBlockUpdate(c)
    <2>1. call[c].pc = "got" /\ \E s \in Statuses : Concludes(c, s, {})
      BY <1>3, StatusNames DEF ReadFails, Correct, ProposeBlockUpdate, Accepted, Asks, Reached
    <2> QED BY <2>1, ConcludesCalls
  <1>4. CASE GetOperation(c)
    <2> DEFINE found == ops[Req(c).user][OpId(c)]
               answer == IF found = NoResult THEN Result(c, "not_found", {}) ELSE found
    <2>1. call[c].pc = "got" /\ Ends(c, answer) /\ UNCHANGED <<Stored, ops, idem, life, BlockState>>
      BY <1>4 DEF GetOperation, Asks, Reached
    <2>2. found \in Results \cup {NoResult}
      BY <1>t, <2>1, Received DEF TypeOK
    <2>3. answer \in Answers
      BY <2>2, ResultType, StatusNames DEF Answers
    <2> QED BY <1>t, <2>1, <2>3, EndsCalls DEF TablesTyped, BlockTyped, Stored, BlockState
  <1>5. CASE RefuseCall(c)
    BY <1>5, <1>t, EndsCalls, AnswerNames
    DEF RefuseCall, Reached, TablesTyped, BlockTyped, Stored, BlockState
  <1> QED BY <1>1, <1>2, <1>3, <1>4, <1>5 DEF Other

-----------------------------------------------------------------------------
(* blocks *)

\* The numbers of the revisions have a greatest, from which the next is counted.
Greatest == revisions # {} => \E n \in Numbers : \A m \in Numbers : m <= n

LEMMA NextIsNew ==
    ASSUME TypeOK, Greatest
    PROVE  NextNumber \in Nat /\ \A m \in Numbers : m < NextNumber
  <1>1. Numbers \subseteq Nat
    BY DEF TypeOK, Numbers
  <1>2. CASE Numbers = {}
    BY <1>2 DEF NextNumber
  <1>3. CASE Numbers # {}
    <2> DEFINE top == CHOOSE n \in Numbers : \A m \in Numbers : m <= n
    <2>1. top \in Numbers /\ \A m \in Numbers : m <= top
      BY <1>3 DEF Greatest, Numbers
    <2>2. NextNumber = 1 + top
      BY <1>3 DEF NextNumber
    <2> HIDE DEF top
    <2> QED BY <1>1, <2>1, <2>2
  <1> QED BY <1>2, <1>3

\* A block's call ends: its result is typed, and the lock is its own or another's.
LEMMA BlockEndsCalls ==
    ASSUME CallsInv, NEW c \in Calls, NEW status \in Statuses, BlockEnds(c, status),
           call[c].pc \notin {"none", "done", "lost"},
           block' \in [version : Nat, current : Nat],
           revisions' \subseteq [number : Nat, supersedes : Nat, by : Calls]
    PROVE  /\ Moves(c) /\ CallsInv'
           /\ call'[c].pc = "done" /\ call'[c].answer = Result(c, status, {})
           /\ call'[c].req = call[c].req
  <1>1. Result(c, status, {}) \in Answers
    BY ResultType
  <1>2. TablesTyped' /\ BlockTyped' /\ UNCHANGED <<Stored, life>>
    BY TypedNow DEF BlockEnds, CallsInv, TablesTyped, BlockTyped, Stored
  <1> QED BY <1>1, <1>2, EndsCalls DEF BlockEnds

LEMMA BlockCalls ==
    ASSUME CallsInv, Greatest, NEW c \in Calls, Block(c)
    PROVE  Moves(c) /\ CallsInv'
  <1> USE DEF CallsInv
  <1>t. /\ TypeOK /\ call[c] \in CallStates /\ CallFacts(c) /\ TablesTyped /\ BlockTyped
        /\ NextNumber \in Nat
    BY TypedNow, NextIsNew DEF TypeOK
  <1>1. CASE CreateBlock(c)
    <2>1. CASE block.current = 0
      BY <1>1, <1>t, <2>1, StatusNames, BlockEndsCalls DEF CreateBlock, Asks, Reached, BlockTyped
    <2>2. CASE block.current # 0
      BY <1>1, <1>t, <2>2, StatusNames, BlockEndsCalls DEF CreateBlock, Asks, Reached, BlockTyped
    <2> QED BY <2>1, <2>2
  <1>2. CASE LockBlock(c)
    <2> DEFINE new == [call[c] EXCEPT !.pc = "locked", !.seen = block.current]
    <2>1. /\ new \in CallStates /\ new.pc = "locked" /\ new.req = call[c].req /\ new.life = call[c].life
          /\ new.after = call[c].after
      BY <1>t DEF CallStates, PCs, BlockTyped
    <2>2. call' = [call EXCEPT ![c] = new] /\ call'[c] = new
      BY <1>2, <1>t DEF LockBlock, TypeOK
    <2> HIDE DEF new
    <2>3. /\ call[c].pc = "got" /\ Req(c).kind = "append"
          /\ UNCHANGED <<memories, committed, ops, idem, life, block, revisions>> /\ locked' = c
      BY <1>2 DEF LockBlock, Asks, Reached, Stored
    <2>4. CallFacts(c)'
      BY <1>t, <2>1, <2>2, <2>3 DEF CallFacts, Req, Running
    <2>5. BlockTyped'
      BY <1>t, <2>3 DEF BlockTyped
    <2> QED BY <1>t, <2>1, <2>2, <2>3, <2>4, <2>5, AdvancesCalls DEF TypeOK
  <1>3. CASE AppendMissing(c)
    BY <1>3, <1>t, StatusNames, BlockEndsCalls DEF AppendMissing, Asks, Reached, BlockTyped
  <1>4. CASE AppendConflict(c)
    BY <1>4, <1>t, StatusNames, BlockEndsCalls DEF AppendConflict, Reached, BlockTyped
  <1>5. CASE AppendRevision(c) \/ ReadMaximum(c)
    <2> DEFINE new == [call[c] EXCEPT !.pc = "flushed", !.number = NextNumber]
    <2>1. /\ new \in CallStates /\ new.pc = "flushed" /\ new.req = call[c].req /\ new.life = call[c].life
          /\ new.after = call[c].after
      BY <1>t DEF CallStates, PCs
    <2>2. call' = [call EXCEPT ![c] = new] /\ call'[c] = new
      BY <1>5, <1>t DEF AppendRevision, ReadMaximum, TypeOK
    <2> HIDE DEF new
    <2>3. /\ call[c].pc \in {"got", "locked"} /\ Req(c).kind \in {"append", "create_revision"}
          /\ UNCHANGED <<memories, committed, ops, idem, life, block, revisions, locked>>
      BY <1>5, <1>t DEF AppendRevision, ReadMaximum, Asks, Reached, Stored, BlockState, CallFacts
    <2>4. CallFacts(c)'
      BY <1>t, <2>1, <2>2, <2>3 DEF CallFacts, Req, Running
    <2>5. BlockTyped'
      BY <1>t, <2>3 DEF BlockTyped
    <2> QED BY <1>t, <2>1, <2>2, <2>3, <2>4, <2>5, AdvancesCalls DEF TypeOK
  <1>6. CASE CommitAppend(c) \/ CommitRevision(c)
    <2>1. call[c].number \in Nat /\ call[c].seen \in Nat /\ call[c].pc = "flushed"
      BY <1>6, <1>t DEF CommitAppend, CommitRevision, Reached, CallStates
    <2>2. CASE call[c].number \in Numbers
      BY <1>6, <1>t, <2>1, <2>2, StatusNames, BlockEndsCalls DEF CommitAppend, CommitRevision, BlockTyped
    <2>3. CASE call[c].number \notin Numbers
      BY <1>6, <1>t, <2>1, <2>3, StatusNames, BlockEndsCalls DEF CommitAppend, CommitRevision, BlockTyped
    <2> QED BY <2>2, <2>3
  <1> QED BY <1>1, <1>2, <1>3, <1>4, <1>5, <1>6 DEF Block

\* The process is started again.
LEMMA RestartCalls ==
    ASSUME CallsInv, Restart
    PROVE  /\ CallsInv'
           /\ \A c \in Calls : /\ call[c].pc \in {"none", "done"} => call'[c] = call[c]
                               /\ call[c].pc \notin {"none", "done"} => call'[c] = [call[c] EXCEPT !.pc = "lost"]
                               /\ call'[c].req = call[c].req /\ call'[c].after = call[c].after
                               /\ call'[c].life = call[c].life /\ call'[c].answer = call[c].answer
                               /\ call'[c].pc \in {"none", "done", "lost"}
  <1> USE DEF CallsInv
  <1>1. \A c \in Calls : /\ call[c] \in CallStates
                         /\ call[c].pc \in {"none", "done"} => call'[c] = call[c]
                         /\ call[c].pc \notin {"none", "done"} => call'[c] = [call[c] EXCEPT !.pc = "lost"]
    BY DEF Restart, TypeOK
  <1>2. \A c \in Calls : /\ call'[c] \in CallStates
                         /\ call'[c].req = call[c].req /\ call'[c].after = call[c].after
                         /\ call'[c].life = call[c].life /\ call'[c].answer = call[c].answer
                         /\ call'[c].pc \in {"none", "done", "lost"}
                         /\ call'[c].pc = "none" <=> call[c].pc = "none"
    <2> TAKE c \in Calls
    <2>1. CASE call[c].pc \in {"none", "done"}
      BY <1>1, <2>1
    <2>2. CASE call[c].pc \notin {"none", "done"}
      <3> DEFINE new == [call[c] EXCEPT !.pc = "lost"]
      <3>1. call[c] \in CallStates /\ call'[c] = new
        BY <1>1, <2>2
      <3>2. new \in CallStates
        BY <3>1 DEF CallStates, PCs
      <3>3. /\ new.req = call[c].req /\ new.after = call[c].after
            /\ new.life = call[c].life /\ new.answer = call[c].answer /\ new.pc = "lost"
        BY <3>1 DEF CallStates
      <3> HIDE DEF new
      <3> QED BY <2>2, <3>1, <3>2, <3>3
    <2> QED BY <2>1, <2>2
  <1>3. life' \in 0 .. MaxRestarts
    <2>1. life' = life + 1 /\ life < MaxRestarts /\ life \in 0 .. MaxRestarts /\ MaxRestarts \in Nat
      BY RequestsAssumption DEF Restart, TypeOK
    <2> QED BY <2>1
  <1>4. call' \in [Calls -> CallStates]
    BY <1>2 DEF Restart
  <1>5. TypeOK'
    <2>1. NoEntry \in Entries
      BY DEF NoEntry, Entries, Prints
    <2> QED BY <1>2, <1>3, <1>4, <2>1 DEF Restart, TypeOK, Stored
  <1>6. \A c \in Calls : CallFacts(c)'
    <2> TAKE c \in Calls
    <2>1. CallFacts(c) /\ UNCHANGED <<memories, committed>>
      BY DEF Restart, Stored
    <2>2. c \in committed => call'[c].pc # "none"
      BY <1>2, <2>1 DEF CallFacts
    <2>3. call'[c].life <= life'
      <3>1. call[c].life \in Int /\ life \in Int /\ life' = life + 1
        BY DEF Restart, CallsInv, TypeOK, CallStates
      <3>2. call[c].life <= life
        BY DEF CallsInv, CallFacts
      <3> QED BY <1>2, <3>1, <3>2
    <2> QED BY <1>2, <2>1, <2>2, <2>3 DEF CallFacts, Req, Running
  <1> QED BY <1>1, <1>2, <1>5, <1>6

-----------------------------------------------------------------------------
(* the chain of revisions *)

\* A writer between the lock and its commit holds the block, and what it read of it stands.
Holds(c) == call[c].pc = "locked" \/ (call[c].pc = "flushed" /\ Req(c).kind = "append")
WriterFacts(c) ==
    /\ Holds(c) => locked = c /\ call[c].seen = block.current /\ block.current # 0
    /\ Holds(c) /\ call[c].pc = "flushed" =>
        call[c].number > block.current /\ Req(c).expected \in {0, call[c].seen}
    /\ call[c].pc = "flushed" /\ Req(c).kind = "create_revision" => block.current # 0
BlockFacts ==
    /\ block.current = 0 => revisions = {}
    /\ block.current # 0 => Appended # {}
    /\ Greatest
    /\ \A r \in revisions : call[r.by].pc # "none"
ChainInv == BlockFacts /\ RevisionChain /\ \A c \in Calls : WriterFacts(c)

\* A step that writes no revision keeps them: who has appended one has been asked to.
LEMMA SameAppended ==
    ASSUME CallsInv, BlockFacts, NEW c \in Calls, Moves(c)
    PROVE  \A r \in revisions : Req(r.by)' = Req(r.by) /\ call'[r.by].pc # "none" /\ r.by \in Calls
  BY DEF CallsInv, TypeOK, BlockFacts, Moves, Req

LEMMA QuietChain ==
    ASSUME CallsInv, ChainInv, NEW c \in Calls, Moves(c), UNCHANGED <<block, revisions>>,
           \A d \in Calls : d # c /\ Holds(d) => locked' = d, WriterFacts(c)'
    PROVE  ChainInv'
  <1>1. \A r \in revisions : Req(r.by)' = Req(r.by) /\ call'[r.by].pc # "none"
    BY SameAppended DEF ChainInv
  <1>2. Appended' = Appended
    BY <1>1 DEF Appended
  <1>3. BlockFacts'
    BY <1>1, <1>2 DEF ChainInv, BlockFacts, Greatest, Numbers
  <1>4. RevisionChain'
    <2>1. \A r \in Appended : Req(r.by)' = Req(r.by)
      BY <1>1 DEF Appended
    <2> QED BY <1>2, <2>1 DEF ChainInv, RevisionChain
  <1>5. ASSUME NEW d \in Calls, d # c PROVE WriterFacts(d)'
    BY <1>5 DEF ChainInv, WriterFacts, Holds, Moves, Req
  <1> QED BY <1>3, <1>4, <1>5 DEF ChainInv

\* Calls that touch no block.
LEMMA ElsewhereChain ==
    ASSUME CallsInv, ChainInv, NEW c \in Calls, Moves(c), UNCHANGED BlockState,
           call'[c].pc = "flushed" => call'[c].req.kind \notin {"append", "create_revision"},
           call'[c].pc # "locked"
    PROVE  ChainInv'
  <1>1. \A d \in Calls : Holds(d) => locked' = d
    BY DEF ChainInv, WriterFacts, BlockState
  <1>2. WriterFacts(c)'
    BY DEF WriterFacts, Holds, Req
  <1> QED BY <1>1, <1>2, QuietChain DEF BlockState

LEMMA ObserveChain ==
    ASSUME CallsInv, ChainInv, NEW c \in Calls, Receive(c) \/ RefuseCall(c) \/ Observe(c) \/ Other(c)
    PROVE  ChainInv'
  <1>1. Moves(c)
    BY ReceiveCalls, OtherCalls, ObserveCalls
  <1>2. call[c] \in CallStates /\ CallFacts(c) /\ TypeOK
    BY DEF CallsInv, TypeOK
  <1>3. /\ UNCHANGED BlockState
        /\ call'[c].pc = "flushed" => call'[c].req.kind = "observe"
        /\ call'[c].pc # "locked"
    <2>1. CASE Receive(c)
      BY <2>1, ReceiveCalls DEF Receive
    <2>2. ASSUME NEW result, Ends(c, result) PROVE call'[c].pc = "done"
      BY <1>2, <2>2 DEF Ends, TypeOK, CallStates
    <2>3. CASE RefuseCall(c)
      BY <2>2, <2>3 DEF RefuseCall
    <2>4. CASE Other(c)
      BY <2>2, <2>4 DEF Other, Recall, BuildContext, SearchGraph, Explain, ReadFails, Correct,
                        ProposeBlockUpdate, GetOperation, Concludes
    <2>5. CASE ObserveReplayed(c) \/ ObserveConflict(c) \/ ObserveAnswered(c) \/ ObserveFails(c) \/ Unexpected(c)
      BY <2>2, <2>5 DEF ObserveReplayed, ObserveConflict, ObserveAnswered, ObserveFails, Unexpected, Concludes
    <2>6. CASE ObserveStart(c)
      BY <1>2, <2>6 DEF ObserveStart, TypeOK, CallStates
    <2>7. CASE Orchestrate(c)
      BY <1>2, <2>7 DEF Orchestrate, Reached, TypeOK, CallStates, CallFacts, Req
    <2>8. CASE CommitObserve(c)
      BY <1>2, <2>8 DEF CommitObserve, TypeOK, CallStates
    <2> QED BY <2>1, <2>3, <2>4, <2>5, <2>6, <2>7, <2>8 DEF Observe
  <1> QED BY <1>1, <1>3, ElsewhereChain

LEMMA RestartChain ==
    ASSUME CallsInv, ChainInv, Restart
    PROVE  ChainInv'
  <1>1. \A c \in Calls : /\ call'[c].req = call[c].req /\ call'[c].pc \in {"none", "done", "lost"}
                         /\ call'[c].pc = "none" => call[c].pc = "none"
    <2>1. \A c \in Calls : call[c].pc \notin {"none", "done"} => call'[c].pc # "none"
      BY DEF Restart, CallsInv, TypeOK, CallStates
    <2> QED BY <2>1, RestartCalls
  <1>2. UNCHANGED <<block, revisions>>
    BY DEF Restart
  <1>3. \A r \in revisions : r.by \in Calls /\ Req(r.by)' = Req(r.by) /\ call'[r.by].pc # "none"
    BY <1>1 DEF ChainInv, BlockFacts, CallsInv, TypeOK, Req
  <1>4. Appended' = Appended
    BY <1>2, <1>3 DEF Appended
  <1>5. BlockFacts'
    BY <1>2, <1>3, <1>4 DEF ChainInv, BlockFacts, Greatest, Numbers
  <1>6. RevisionChain'
    <2>1. \A r \in Appended : Req(r.by)' = Req(r.by)
      BY <1>3 DEF Appended
    <2> QED BY <1>2, <1>4, <2>1 DEF ChainInv, RevisionChain
  <1>7. \A c \in Calls : WriterFacts(c)'
    BY <1>1 DEF WriterFacts, Holds
  <1> QED BY <1>5, <1>6, <1>7 DEF ChainInv

\* A call to a block that ends without a revision.
LEMMA NoRevisionChain ==
    ASSUME CallsInv, ChainInv, NEW c \in Calls, NEW status \in Statuses, BlockEnds(c, status),
           call[c].pc \notin {"none", "done", "lost"}, UNCHANGED <<block, revisions>>
    PROVE  ChainInv'
  <1>1. Moves(c) /\ call'[c].pc = "done"
    BY BlockEndsCalls DEF CallsInv, TypeOK
  <1>2. \A d \in Calls : d # c /\ Holds(d) => locked' = d
    BY DEF BlockEnds, ChainInv, WriterFacts
  <1>3. WriterFacts(c)'
    BY <1>1 DEF WriterFacts, Holds
  <1> QED BY <1>1, <1>2, <1>3, QuietChain

\* The first revision of a block, and each that is appended under the lock.
LEMMA AppendedChain ==
    ASSUME CallsInv, ChainInv, NEW c \in Calls, NEW n \in Nat, NEW was \in Nat, BlockEnds(c, "completed"),
           call[c].pc \notin {"none", "done", "lost"},
           Req(c).kind \in {"create_block", "append"},
           block' = [version |-> n, current |-> n],
           revisions' = revisions \cup {[number |-> n, supersedes |-> was, by |-> c]},
           was = block.current, was < n,
           Req(c).kind = "append" => Req(c).expected \in {0, was},
           was # 0 => locked = c
    PROVE  ChainInv'
  <1> DEFINE new == [number |-> n, supersedes |-> was, by |-> c]
  <1>1. new.number = n /\ new.supersedes = was /\ new.by = c
    OBVIOUS
  <1>2. revisions' = revisions \cup {new} /\ block'.current = n /\ block'.version = n
    OBVIOUS
  <1> HIDE DEF new
  <1>3. Moves(c) /\ CallsInv' /\ call'[c].pc = "done" /\ Req(c)' = Req(c)
    <2>1. /\ block' \in [version : Nat, current : Nat]
          /\ revisions' \subseteq [number : Nat, supersedes : Nat, by : Calls]
      BY DEF CallsInv, TypeOK
    <2> QED BY <2>1, BlockEndsCalls, StatusNames DEF Req
  <1>4. /\ revisions \subseteq [number : Nat, supersedes : Nat, by : Calls]
        /\ \A r \in revisions : Req(r.by)' = Req(r.by) /\ call'[r.by].pc # "none" /\ r.by \in Calls
    BY <1>3, SameAppended DEF ChainInv, CallsInv, TypeOK
  <1>5. Appended' = Appended \cup {new} /\ Appended \subseteq revisions
    BY <1>1, <1>2, <1>3, <1>4 DEF Appended
  <1>6. \A r \in Appended : r.number <= was /\ r.supersedes < was
    <2>1. CASE was = 0
      BY <2>1, <1>5 DEF ChainInv, BlockFacts
    <2>2. CASE was # 0
      <3>1. \A r \in Appended : r.number <= was /\ r.supersedes < r.number
        BY <2>2 DEF ChainInv, BlockFacts, RevisionChain
      <3> QED BY <3>1, <1>4, <1>5
    <2> QED BY <2>1, <2>2
  <1>7. RevisionChain'
    <2>1. \A r \in Appended : Req(r.by)' = Req(r.by) /\ r.number \in Nat /\ r.supersedes \in Nat
      BY <1>4, <1>5
    <2>2. \A r, s \in Appended' : r.supersedes = s.supersedes => r = s
      BY <1>1, <1>5, <1>6, <2>1 DEF ChainInv, RevisionChain
    <2>3. \A r \in Appended' : r.supersedes < r.number
      BY <1>1, <1>5 DEF ChainInv, RevisionChain
    <2>4. \A r \in Appended' : Req(r.by)'.kind = "append" => Req(r.by)'.expected \in {0, r.supersedes}
      BY <1>1, <1>3, <1>5, <2>1 DEF ChainInv, RevisionChain
    <2>5. \A s \in Appended' : s.number <= n /\ s.supersedes # n
      BY <1>1, <1>5, <1>6, <2>1
    <2>6. new \in Appended' /\ new.number = block'.current /\ new.number = block'.version
      BY <1>1, <1>2, <1>5
    <2> QED BY <1>1, <2>2, <2>3, <2>4, <2>5, <2>6 DEF RevisionChain
  <1>8. BlockFacts'
    <2>1. Numbers' = Numbers \cup {n} /\ Numbers \subseteq Nat
      BY <1>1, <1>2, <1>4 DEF Numbers
    <2>2. Greatest'
      <3>1. CASE revisions = {}
        BY <2>1, <3>1 DEF Greatest, Numbers
      <3>2. CASE revisions # {}
        <4>1. PICK top \in Numbers : \A m \in Numbers : m <= top
          BY <3>2 DEF ChainInv, BlockFacts, Greatest
        <4>2. CASE n <= top
          BY <2>1, <4>1, <4>2 DEF Greatest
        <4>3. CASE top < n
          BY <2>1, <4>1, <4>3 DEF Greatest
        <4> QED BY <2>1, <4>1, <4>2, <4>3
      <3> QED BY <3>1, <3>2
    <2>3. \A r \in revisions' : call'[r.by].pc # "none"
      BY <1>1, <1>2, <1>3, <1>4
    <2> QED BY <1>2, <1>5, <2>2, <2>3 DEF BlockFacts
  <1>9. ASSUME NEW d \in Calls PROVE WriterFacts(d)'
    <2>1. CASE d = c
      BY <1>3, <2>1 DEF WriterFacts, Holds
    <2>2. CASE d # c
      <3>1. ~Holds(d) /\ call'[d] = call[d]
        BY <1>3, <2>2 DEF ChainInv, WriterFacts, Moves
      <3> QED BY <1>2, <3>1 DEF WriterFacts, Holds, Req
    <2> QED BY <2>1, <2>2
  <1> QED BY <1>7, <1>8, <1>9 DEF ChainInv

\* A revision beside the chain.
LEMMA BesideChain ==
    ASSUME CallsInv, ChainInv, NEW c \in Calls, CommitRevision(c), call[c].number \notin Numbers
    PROVE  ChainInv'
  <1> DEFINE n == call[c].number
             new == [number |-> n, supersedes |-> 0, by |-> c]
  <1>1. /\ n \in Nat /\ call[c].pc = "flushed" /\ Req(c).kind = "create_revision"
        /\ new.number = n /\ new.by = c
        /\ revisions' = revisions \cup {new} /\ block' = block /\ BlockEnds(c, "completed")
    BY DEF CommitRevision, Reached, CallsInv, TypeOK, CallStates
  <1> HIDE DEF n, new
  <1>2. Moves(c) /\ CallsInv' /\ call'[c].pc = "done" /\ Req(c)' = Req(c)
    <2>1. revisions' \subseteq [number : Nat, supersedes : Nat, by : Calls]
      BY <1>1 DEF CallsInv, TypeOK, new
    <2> QED BY <1>1, <2>1, BlockEndsCalls, StatusNames DEF Req, CallsInv, TypeOK
  <1>3. /\ revisions \subseteq [number : Nat, supersedes : Nat, by : Calls]
        /\ \A r \in revisions : Req(r.by)' = Req(r.by) /\ call'[r.by].pc # "none" /\ r.by \in Calls
    BY <1>2, SameAppended DEF ChainInv, CallsInv, TypeOK
  <1>4. Appended' = Appended
    BY <1>1, <1>2, <1>3 DEF Appended
  <1>5. RevisionChain'
    <2>1. \A r \in Appended : Req(r.by)' = Req(r.by)
      BY <1>3 DEF Appended
    <2> QED BY <1>1, <1>4, <2>1 DEF ChainInv, RevisionChain
  <1>6. BlockFacts'
    <2>1. block.current # 0 /\ revisions # {}
      BY <1>1 DEF ChainInv, BlockFacts, WriterFacts, Appended
    <2>2. Numbers' = Numbers \cup {n} /\ Numbers \subseteq Nat
      BY <1>1, <1>3 DEF Numbers
    <2>3. PICK top \in Numbers : \A m \in Numbers : m <= top
      BY <2>1 DEF ChainInv, BlockFacts, Greatest
    <2>4. Greatest'
      <3>1. CASE n <= top
        BY <2>2, <2>3, <3>1 DEF Greatest
      <3>2. CASE top < n
        BY <2>2, <2>3, <3>2 DEF Greatest
      <3> QED BY <1>1, <2>2, <2>3, <3>1, <3>2
    <2>5. \A r \in revisions' : call'[r.by].pc # "none"
      BY <1>1, <1>2, <1>3
    <2> QED BY <1>1, <1>4, <2>1, <2>4, <2>5 DEF ChainInv, BlockFacts
  <1>7. ASSUME NEW d \in Calls PROVE WriterFacts(d)'
    <2>1. CASE d = c
      BY <1>2, <2>1 DEF WriterFacts, Holds
    <2>2. CASE d # c
      BY <1>1, <1>2, <2>2 DEF ChainInv, WriterFacts, Holds, Moves, Req, BlockEnds
    <2> QED BY <2>1, <2>2
  <1> QED BY <1>5, <1>6, <1>7 DEF ChainInv

LEMMA BlockChain ==
    ASSUME CallsInv, ChainInv, NEW c \in Calls, Block(c)
    PROVE  ChainInv'
  <1>0. Greatest /\ Moves(c)
    BY BlockCalls DEF ChainInv, BlockFacts
  <1>t. /\ TypeOK /\ call[c] \in CallStates /\ CallFacts(c) /\ WriterFacts(c)
        /\ NextNumber \in Nat /\ \A m \in Numbers : m < NextNumber
        /\ block.current \in Nat
    BY <1>0, NextIsNew DEF CallsInv, TypeOK, ChainInv
  <1>1. CASE CreateBlock(c)
    <2>1. CASE block.current = 0
      BY <1>1, <2>1, AppendedChain DEF CreateBlock, Asks, Reached
    <2>2. CASE block.current # 0
      BY <1>1, <2>2, StatusNames, NoRevisionChain DEF CreateBlock, Asks, Reached
    <2> QED BY <2>1, <2>2
  <1>2. CASE LockBlock(c)
    <2>1. /\ locked = NoId /\ locked' = c /\ block.current # 0 /\ UNCHANGED <<block, revisions>>
          /\ call'[c].pc = "locked" /\ call'[c].seen = block.current
      BY <1>2, <1>t DEF LockBlock, Unlocked, TypeOK, CallStates
    <2>2. \A d \in Calls : ~Holds(d)
      BY <2>1, RequestsAssumption DEF ChainInv, WriterFacts
    <2>3. WriterFacts(c)'
      BY <2>1 DEF WriterFacts, Holds
    <2> QED BY <1>0, <2>1, <2>2, <2>3, QuietChain
  <1>3. CASE AppendMissing(c)
    BY <1>3, StatusNames, NoRevisionChain DEF AppendMissing, Asks, Reached
  <1>4. CASE AppendConflict(c)
    BY <1>4, StatusNames, NoRevisionChain DEF AppendConflict, Reached
  <1>5. CASE AppendRevision(c) \/ ReadMaximum(c)
    <2>1. /\ UNCHANGED <<block, revisions, locked>>
          /\ call'[c].pc = "flushed" /\ call'[c].number = NextNumber
          /\ call'[c].seen = call[c].seen /\ call'[c].req = call[c].req
      BY <1>5, <1>t DEF AppendRevision, ReadMaximum, TypeOK, CallStates, BlockState
    <2>2. \A d \in Calls : Holds(d) => locked' = d
      BY <2>1 DEF ChainInv, WriterFacts
    <2>3. CASE AppendRevision(c)
      <3>1. Holds(c) /\ Req(c).kind = "append" /\ Req(c).expected \in {0, call[c].seen}
        BY <1>t, <2>3 DEF AppendRevision, Reached, Holds, CallFacts
      <3>2. block.current \in Numbers
        BY <1>t, <3>1 DEF WriterFacts, ChainInv, BlockFacts, RevisionChain, Appended, Numbers
      <3>3. WriterFacts(c)'
        BY <1>t, <2>1, <3>1, <3>2 DEF WriterFacts, Holds, Req
      <3> QED BY <1>0, <2>1, <2>2, <3>3, QuietChain
    <2>4. CASE ReadMaximum(c)
      <3>1. WriterFacts(c)'
        BY <2>1, <2>4 DEF ReadMaximum, Asks, Reached, WriterFacts, Holds, Req
      <3> QED BY <1>0, <2>1, <2>2, <3>1, QuietChain
    <2> QED BY <1>5, <2>3, <2>4
  <1>6. CASE CommitAppend(c)
    <2>1. /\ call[c].number \in Nat /\ call[c].seen \in Nat /\ call[c].pc = "flushed"
          /\ Req(c).kind = "append" /\ Holds(c)
      BY <1>6, <1>t DEF CommitAppend, Reached, CallStates, Holds
    <2>2. CASE call[c].number \in Numbers
      BY <1>6, <2>1, <2>2, StatusNames, NoRevisionChain DEF CommitAppend
    <2>3. CASE call[c].number \notin Numbers
      <3>1. /\ call[c].seen = block.current /\ call[c].seen < call[c].number
            /\ Req(c).expected \in {0, call[c].seen} /\ locked = c
        BY <1>t, <2>1 DEF WriterFacts
      <3> QED BY <1>6, <2>1, <2>3, <3>1, AppendedChain DEF CommitAppend
    <2> QED BY <2>2, <2>3
  <1>7. CASE CommitRevision(c)
    <2>1. CASE call[c].number \in Numbers
      BY <1>7, <2>1, StatusNames, NoRevisionChain DEF CommitRevision, Reached
    <2>2. CASE call[c].number \notin Numbers
      BY <1>7, <2>2, BesideChain
    <2> QED BY <2>1, <2>2
  <1> QED BY <1>1, <1>2, <1>3, <1>4, <1>5, <1>6, <1>7 DEF Block

-----------------------------------------------------------------------------
(* the results *)

\* A result names a call that is over, and is true of the store.
Sound(result) == result \in Results => TrueOfStore(result) /\ call[result.by].pc = "done"

\* An observe that has been answered for in this life has left its key an entry.
Settles(d) == Req(d).kind = "observe" /\ call[d].answer.status \in {"accepted", "failed"}
KeyTaken(d) ==
    call[d].pc = "done" /\ Settles(d) /\ call[d].life = life
        => /\ Req(d).key \in IdempotencyKeys
           /\ idem[Req(d).user][Req(d).key].result # NoResult

\* An observe that has begun found its key free, of whatever was answered before it came.
Begun(c)    == (call[c].pc \in {"run", "flushed", "committed"} /\ Req(c).kind = "observe") \/ c \in committed
FoundFree(c) ==
    Begun(c) => \A d \in call[c].after :
                    SameKey(c, d) /\ call[d].life = call[c].life => ~Settles(d)

ResultsInv ==
    /\ \A c \in Calls : /\ Sound(call[c].answer) /\ KeyTaken(c) /\ FoundFree(c)
                        /\ \A d \in call[c].after : call[d].pc = "done"
    /\ \A u \in Users, k \in IdempotencyKeys : Sound(idem[u][k].result)
    /\ \A u \in Users, o \in OpIds :
        ops[u][o] # NoResult =>
            Sound(ops[u][o]) /\ Req(ops[u][o].by).user = u /\ OpId(ops[u][o].by) = o

\* What a step of a call must show to keep the results.
Forward(c) ==
    /\ UNCHANGED life
    /\ memories \subseteq memories' /\ committed \subseteq committed' /\ committed' \subseteq committed \cup {c}
    /\ call'[c].answer # call[c].answer => Sound(call[c].answer)'
    /\ \A u \in Users, k \in IdempotencyKeys :
        idem'[u][k].result # idem[u][k].result => idem'[u][k].result # NoResult /\ Sound(idem[u][k].result)'
    /\ \A u \in Users, o \in OpIds :
        ops'[u][o] # ops[u][o] =>
            /\ ops'[u][o] \in Results /\ Sound(ops[u][o])' /\ ops'[u][o].by = c
            /\ u = Req(c).user /\ o = OpId(c) /\ call[c].pc # "none"
    /\ KeyTaken(c)'
    /\ Begun(c)' => Begun(c) \/ FoundFree(c)'
    /\ \A d \in call'[c].after : call[d].pc = "done"

LEMMA SoundKept ==
    ASSUME NEW c \in Calls, Moves(c), Forward(c), NEW result, Sound(result)
    PROVE  Sound(result)'
  <1> SUFFICES ASSUME result \in Results PROVE TrueOfStore(result)' /\ call'[result.by].pc = "done"
    BY DEF Sound, Results, Calls, Statuses
  <1>1. TrueOfStore(result) /\ call[result.by].pc = "done" /\ result.by \in Calls /\ result.by # c
    BY DEF Sound, Results, Moves
  <1>2. call'[result.by] = call[result.by]
    BY <1>1 DEF Moves
  <1> QED BY <1>1, <1>2 DEF Forward, TrueOfStore

LEMMA ForwardResults ==
    ASSUME CallsInv, ResultsInv, NEW c \in Calls, Moves(c), CallsInv', Forward(c)
    PROVE  ResultsInv'
  <1>1. ASSUME NEW d \in Calls PROVE Sound(call[d].answer)'
    <2>1. CASE call'[d].answer = call[d].answer
      <3>1. Sound(call[d].answer)
        BY DEF ResultsInv
      <3> QED BY <2>1, <3>1, SoundKept DEF Sound
    <2>2. CASE call'[d].answer # call[d].answer
      <3>1. d = c
        BY <2>2 DEF Moves
      <3> QED BY <2>2, <3>1 DEF Forward
    <2> QED BY <2>1, <2>2
  <1>2. ASSUME NEW u \in Users, NEW k \in IdempotencyKeys PROVE Sound(idem[u][k].result)'
    <2>1. CASE idem'[u][k].result = idem[u][k].result
      <3>1. Sound(idem[u][k].result)
        BY DEF ResultsInv
      <3> QED BY <2>1, <3>1, SoundKept DEF Sound
    <2>2. CASE idem'[u][k].result # idem[u][k].result
      BY <2>2 DEF Forward
    <2> QED BY <2>1, <2>2
  <1>3. ASSUME NEW d \in Calls, d # c PROVE call'[d] = call[d] /\ Req(d)' = Req(d)
    BY <1>3 DEF Moves, Req
  <1>4. ASSUME NEW u \in Users, NEW o \in OpIds, ops'[u][o] # NoResult
        PROVE  Sound(ops[u][o])' /\ Req(ops[u][o].by)'.user = u /\ OpId(ops[u][o].by)' = o
    <2>1. CASE ops'[u][o] = ops[u][o]
      <3>1. /\ Sound(ops[u][o]) /\ Req(ops[u][o].by).user = u /\ OpId(ops[u][o].by) = o
            /\ ops[u][o] \in Results
        BY <1>4, <2>1 DEF ResultsInv, CallsInv, TypeOK
      <3>2. ops[u][o].by \in Calls /\ ops[u][o].by # c
        BY <3>1 DEF Sound, Results, Moves
      <3>3. Sound(ops[u][o])'
        BY <2>1, <3>1, SoundKept DEF Sound
      <3> QED BY <1>3, <2>1, <3>1, <3>2, <3>3 DEF OpId
    <2>2. CASE ops'[u][o] # ops[u][o]
      <3>1. /\ Sound(ops[u][o])' /\ ops'[u][o].by = c
            /\ u = Req(c).user /\ o = OpId(c) /\ call[c].pc # "none"
        BY <2>2 DEF Forward
      <3>2. Req(c)' = Req(c)
        BY <3>1 DEF Moves, Req
      <3> QED BY <3>1, <3>2 DEF OpId
    <2> QED BY <2>1, <2>2
  <1>5. \A u \in Users, k \in IdempotencyKeys : idem[u][k].result # NoResult => idem'[u][k].result # NoResult
    BY DEF Forward
  <1>6. ASSUME NEW d \in Calls PROVE KeyTaken(d)'
    <2>1. CASE d = c
      BY <2>1 DEF Forward
    <2>2. CASE d # c
      <3>1. KeyTaken(d) /\ call'[d] = call[d] /\ Req(d)' = Req(d)
        BY <1>3, <2>2 DEF ResultsInv
      <3>2. call[d].pc = "done" => Req(d).user \in Users
        BY Received DEF CallsInv
      <3> QED BY <1>5, <3>1, <3>2 DEF KeyTaken, Settles, Forward
    <2> QED BY <2>1, <2>2
  <1>7. \A d \in Calls : \A e \in call'[d].after : e \in Calls /\ e # c /\ call'[e].pc = "done"
    <2> TAKE d \in Calls
    <2>1. call'[d].after \subseteq Calls
      BY DEF CallsInv, TypeOK, CallStates
    <2>2. \A e \in call'[d].after : call[e].pc = "done"
      BY DEF Forward, Moves, ResultsInv
    <2> QED BY <2>1, <2>2 DEF Moves
  <1>8. ASSUME NEW d \in Calls PROVE FoundFree(d)'
    <2>1. CASE d = c /\ ~(Begun(c) /\ call[c].pc # "none")
      <3>1. Begun(c) => call[c].pc # "none"
        BY DEF Begun, CallsInv, CallFacts
      <3> QED BY <2>1, <3>1 DEF Forward, FoundFree
    <2>2. CASE d # c \/ (Begun(c) /\ call[c].pc # "none")
      <3>1. call'[d].after = call[d].after /\ call'[d].life = call[d].life /\ Req(d)' = Req(d)
        BY <1>3, <2>2 DEF Moves, Req
      <3>2. Begun(d)' => Begun(d)
        BY <1>3, <2>2 DEF Begun, Forward
      <3>3. FoundFree(d)
        BY DEF ResultsInv
      <3>4. \A e \in call[d].after : call'[e] = call[e] /\ Req(e)' = Req(e)
        BY <1>3, <1>7, <3>1
      <3> QED BY <3>1, <3>2, <3>3, <3>4 DEF FoundFree, SameKey, Settles
    <2> QED BY <2>1, <2>2
  <1> QED BY <1>1, <1>2, <1>4, <1>6, <1>7, <1>8 DEF ResultsInv

\* A result that the call itself has just reached, an observe's aside.
LEMMA OwnSound ==
    ASSUME NEW c \in Calls, NEW status \in Statuses, NEW ids \in SUBSET Calls,
           call'[c].pc = "done", status = "accepted" => c \in committed' /\ ids \subseteq memories',
           status = "failed" => c \notin committed'
    PROVE  /\ Result(c, status, ids) \in Results /\ Result(c, status, ids).by = c
           /\ Result(c, status, ids).status = status
           /\ \A result : result = Result(c, status, ids) =>
                TrueOfStore(result)' /\ call'[result.by].pc = "done"
  <1>1. /\ Result(c, status, ids).by = c /\ Result(c, status, ids).status = status
        /\ Result(c, status, ids).ids = ids
    BY DEF Result
  <1>2. Result(c, status, ids) \in Results
    BY ResultType
  <1> QED BY <1>1, <1>2 DEF TrueOfStore

\* A call that reaches its result outside the observes writes it under its operation id alone.
LEMMA ConcludesResults ==
    ASSUME CallsInv, ResultsInv, NEW c \in Calls, NEW status \in Statuses \ {"accepted"}, NEW ids \in SUBSET Calls,
           Concludes(c, status, ids), call[c].pc = "got",
           Req(c).kind = "observe" => status = "conflict"
    PROVE  ResultsInv'
  <1>1. /\ Moves(c) /\ CallsInv'
        /\ call'[c].pc = "done" /\ call'[c].answer = Result(c, status, ids)
        /\ call'[c].req = call[c].req
        /\ ops'[Req(c).user][OpId(c)] = Result(c, status, ids)
        /\ \A u \in Users, o \in OpIds :
             u # Req(c).user \/ o # OpId(c) => ops'[u][o] = ops[u][o]
    BY ConcludesCalls
  <1>2. UNCHANGED <<memories, committed, idem, life>> /\ c \notin committed
    BY DEF Concludes, Stored, CallsInv, CallFacts
  <1>3. /\ Result(c, status, ids) \in Results /\ Result(c, status, ids).by = c
        /\ Result(c, status, ids).status = status
        /\ \A result : result = Result(c, status, ids) =>
             TrueOfStore(result)' /\ call'[result.by].pc = "done"
    BY <1>1, <1>2, OwnSound
  <1>4. Sound(call[c].answer)'
    BY <1>1, <1>3 DEF Sound
  <1>5. \A u \in Users, o \in OpIds :
            ops'[u][o] # ops[u][o] =>
                /\ ops'[u][o] \in Results /\ Sound(ops[u][o])' /\ ops'[u][o].by = c
                /\ u = Req(c).user /\ o = OpId(c) /\ call[c].pc # "none"
    BY <1>1, <1>3 DEF Sound
  <1>6. KeyTaken(c)'
    BY <1>1, <1>3 DEF KeyTaken, Settles, Req
  <1>7. ~Begun(c)'
    BY <1>1, <1>2 DEF Begun
  <1>8. \A d \in call'[c].after : call[d].pc = "done"
    BY <1>1 DEF Moves, ResultsInv
  <1>9. Forward(c)
    BY <1>2, <1>4, <1>5, <1>6, <1>7, <1>8 DEF Forward
  <1> QED BY <1>1, <1>9, ForwardResults

\* A call is refused, breaks, or is given a result that is already kept.
LEMMA GivenResults ==
    ASSUME CallsInv, ResultsInv, NEW c \in Calls, NEW result \in Answers, Ends(c, result),
           call[c].pc \notin {"none", "done", "lost"}, c \notin committed,
           UNCHANGED <<Stored, ops, idem, life>>, BlockTyped',
           Sound(result) \/ (result = Result(c, result.status, {}) /\ result.status \in Statuses \ {"accepted"}),
           Req(c).kind = "observe" /\ result.status \in {"accepted", "failed"}
             => Req(c).key \in IdempotencyKeys /\ idem[Req(c).user][Req(c).key].result # NoResult
    PROVE  ResultsInv'
  <1>1. /\ Moves(c) /\ CallsInv'
        /\ call'[c].pc = "done" /\ call'[c].answer = result /\ call'[c].req = call[c].req
    <2>1. TablesTyped'
      BY DEF CallsInv, TypeOK, TablesTyped
    <2> QED BY <2>1, EndsCalls DEF Stored
  <1>2. UNCHANGED <<memories, committed, ops, idem, life>>
    BY DEF Stored
  <1>3. Sound(call[c].answer)'
    <2>1. CASE Sound(result)
      <3>1. ASSUME result \in Results PROVE result.by # c /\ result.by \in Calls /\ call'[result.by] = call[result.by]
        BY <1>1, <2>1, <3>1 DEF Sound, Results, Moves
      <3> QED BY <1>1, <1>2, <2>1, <3>1 DEF Sound, TrueOfStore
    <2>2. CASE result = Result(c, result.status, {}) /\ result.status \in Statuses \ {"accepted"}
      BY <1>1, <1>2, <2>2, OwnSound DEF Sound
    <2> QED BY <2>1, <2>2
  <1>4. KeyTaken(c)'
    BY <1>1, <1>2 DEF KeyTaken, Settles, Req
  <1>5. ~Begun(c)'
    BY <1>1, <1>2 DEF Begun
  <1>6. \A d \in call'[c].after : call[d].pc = "done"
    BY <1>1 DEF Moves, ResultsInv
  <1>7. Forward(c)
    BY <1>2, <1>3, <1>4, <1>5, <1>6 DEF Forward
  <1> QED BY <1>1, <1>7, ForwardResults

\* An observe is answered for, under its operation id and under its key.
LEMMA RecordedResults ==
    ASSUME CallsInv, ResultsInv, NEW c \in Calls, NEW status \in {"accepted", "failed"}, NEW ids \in SUBSET Calls,
           Ends(c, Result(c, status, ids)), Remember(c, Result(c, status, ids)),
           RememberKey(c, Result(c, status, ids)),
           call[c].pc \in {"run", "flushed", "committed"}, Req(c).kind = "observe",
           status = "accepted" => c \in committed /\ ids \subseteq memories,
           status = "failed" => c \notin committed,
           UNCHANGED <<Stored, life, BlockState>>, CallsInv'
    PROVE  ResultsInv'
  <1> DEFINE result == Result(c, status, ids)
  <1>1. result \in Results /\ result \in Answers
    BY ResultType, StatusNames
  <1>2. /\ Moves(c) /\ call'[c].pc = "done" /\ call'[c].answer = result /\ Req(c)' = Req(c)
    BY <1>1, Ending DEF CallsInv, Req
  <1>3. Req(c).key \in IdempotencyKeys /\ Req(c).user \in Users
    BY Received DEF CallsInv, CallFacts, Writes
  <1>4. /\ \A u \in Users, o \in OpIds : ops'[u][o] # ops[u][o] =>
            ops'[u][o] = result /\ u = Req(c).user /\ o = OpId(c)
        /\ idem'[Req(c).user][Req(c).key].result = result
        /\ \A u \in Users, k \in IdempotencyKeys :
            idem'[u][k].result # idem[u][k].result => idem'[u][k].result = result
    BY <1>1, <1>3, RememberTyped, RememberKeyTyped DEF CallsInv
  <1>5. UNCHANGED <<memories, committed, life>>
    BY DEF Stored
  <1>6. result.by = c /\ TrueOfStore(result)' /\ call'[result.by].pc = "done"
    BY <1>2, <1>5, OwnSound, StatusNames
  <1> HIDE DEF result
  <1>7. result # NoResult
    BY <1>1, NoResultIsNone
  <1>8. Sound(call[c].answer)'
    BY <1>2, <1>6 DEF Sound
  <1>9. \A u \in Users, k \in IdempotencyKeys :
            idem'[u][k].result # idem[u][k].result => idem'[u][k].result # NoResult /\ Sound(idem[u][k].result)'
    BY <1>4, <1>6, <1>7 DEF Sound
  <1>10. \A u \in Users, o \in OpIds :
            ops'[u][o] # ops[u][o] =>
                /\ ops'[u][o] \in Results /\ Sound(ops[u][o])' /\ ops'[u][o].by = c
                /\ u = Req(c).user /\ o = OpId(c) /\ call[c].pc # "none"
    BY <1>1, <1>4, <1>6 DEF Sound
  <1>11. KeyTaken(c)'
    BY <1>2, <1>3, <1>4, <1>7 DEF KeyTaken
  <1>12. Begun(c)
    BY DEF Begun
  <1>13. \A d \in call'[c].after : call[d].pc = "done"
    BY <1>2 DEF Moves, ResultsInv
  <1>14. Forward(c)
    BY <1>5, <1>8, <1>9, <1>10, <1>11, <1>12, <1>13 DEF Forward
  <1> QED BY <1>2, <1>14, ForwardResults

\* A call goes on, and answers nothing yet.
LEMMA AdvanceResults ==
    ASSUME CallsInv, ResultsInv, NEW c \in Calls, Moves(c), CallsInv', UNCHANGED <<ops, idem, life>>,
           memories \subseteq memories', committed \subseteq committed', committed' \subseteq committed \cup {c},
           call[c].pc # "none", call'[c].pc # "done", call'[c].answer = call[c].answer,
           Begun(c)' => Begun(c) \/ FoundFree(c)'
    PROVE  ResultsInv'
  <1>1. KeyTaken(c)'
    BY DEF KeyTaken
  <1>2. \A d \in call'[c].after : call[d].pc = "done"
    BY DEF Moves, ResultsInv
  <1>3. Forward(c)
    BY <1>1, <1>2 DEF Forward
  <1> QED BY <1>3, ForwardResults

LEMMA ObserveResults ==
    ASSUME CallsInv, ResultsInv, NEW c \in Calls, Observe(c)
    PROVE  ResultsInv'
  <1>t. /\ TypeOK /\ call[c] \in CallStates /\ CallFacts(c) /\ BlockTyped
        /\ Moves(c) /\ CallsInv'
    BY TypedNow, ObserveCalls DEF CallsInv, TypeOK
  <1>s. \A result \in Results : result.status \in Statuses
    BY DEF Results
  <1>1. CASE ObserveReplayed(c)
    <2>1. /\ call[c].pc = "got" /\ c \notin committed /\ Req(c).key \in IdempotencyKeys
          /\ Req(c).user \in Users
      BY <1>1, <1>t, Received DEF ObserveReplayed, Accepted, Asks, Reached, CallFacts, Writes
    <2>2. Sound(Entry(c).result) /\ Entry(c).result \in Answers /\ Entry(c).result # NoResult
      BY <1>1, <1>t, <2>1 DEF ObserveReplayed, Entry, ResultsInv, TypeOK, Entries, Answers
    <2>3. BlockTyped' /\ UNCHANGED <<Stored, ops, idem, life>> /\ Ends(c, Entry(c).result)
      BY <1>1, <1>t DEF ObserveReplayed, BlockTyped, BlockState
    <2> QED BY <2>1, <2>2, <2>3, GivenResults DEF Entry
  <1>2. CASE ObserveConflict(c)
    BY <1>2, ConcludesResults, StatusNames DEF ObserveConflict, Accepted, Asks, Reached
  <1>3. CASE ObserveStart(c)
    <2>1. /\ call[c].pc = "got" /\ Req(c).kind = "observe" /\ Entry(c).result = NoResult
          /\ UNCHANGED <<memories, committed, ops, idem, life>>
          /\ call'[c].pc = "run" /\ call'[c].answer = call[c].answer /\ call'[c].life = call[c].life
          /\ call'[c].after = call[c].after /\ Req(c)' = Req(c) /\ call[c].life = life
      BY <1>3, <1>t DEF ObserveStart, Accepted, Asks, Reached, Stored, TypeOK, CallStates, CallFacts, Running, Req
    <2>2. ASSUME NEW d \in call[c].after, SameKey(c, d), call[d].life = call[c].life PROVE ~Settles(d)
      <3>1. d \in Calls /\ call[d].pc = "done" /\ KeyTaken(d)
        BY <1>t DEF ResultsInv, CallStates
      <3> QED BY <2>1, <2>2, <3>1 DEF KeyTaken, SameKey, Entry
    <2>3. \A d \in call[c].after : call'[d] = call[d] /\ Req(d)' = Req(d)
      <3> TAKE d \in call[c].after
      <3>1. d \in Calls /\ d # c
        BY <1>t, <2>1 DEF ResultsInv, CallStates
      <3> QED BY <1>t, <3>1 DEF Moves, Req
    <2>4. FoundFree(c)'
      BY <2>1, <2>2, <2>3 DEF FoundFree, SameKey, Settles
    <2> QED BY <1>t, <2>1, <2>4, AdvanceResults
  <1>4. CASE Orchestrate(c)
    <2>1. /\ call[c].pc = "run" /\ Req(c).kind = "observe"
          /\ UNCHANGED <<memories, committed, ops, idem, life>>
          /\ call'[c].pc = "flushed" /\ call'[c].answer = call[c].answer
      BY <1>4, <1>t DEF Orchestrate, Reached, Stored, TypeOK, CallStates, CallFacts
    <2> QED BY <1>t, <2>1, AdvanceResults DEF Begun
  <1>5. CASE CommitObserve(c)
    <2>1. /\ call[c].pc = "flushed" /\ Req(c).kind = "observe"
          /\ UNCHANGED <<ops, idem, life>>
          /\ memories \subseteq memories' /\ committed \subseteq committed' /\ committed' \subseteq committed \cup {c}
          /\ call'[c].pc = "committed" /\ call'[c].answer = call[c].answer
      BY <1>5, <1>t DEF CommitObserve, Reached, Stored, TypeOK, CallStates
    <2> QED BY <1>t, <2>1, AdvanceResults DEF Begun
  <1>6. CASE ObserveAnswered(c)
    <2>1. /\ call[c].pc = "committed" /\ Req(c).kind = "observe" /\ c \in committed
          /\ call[c].ids \in SUBSET Calls /\ call[c].ids \subseteq memories
      BY <1>6, <1>t DEF ObserveAnswered, Reached, CallFacts, CallStates
    <2> QED BY <1>6, <1>t, <2>1, RecordedResults DEF ObserveAnswered
  <1>7. CASE ObserveFails(c)
    <2>1. call[c].pc \in {"run", "flushed"} /\ Req(c).kind = "observe" /\ c \notin committed
      BY <1>7, <1>t DEF ObserveFails, Reached, CallFacts
    <2> QED BY <1>7, <1>t, <2>1, RecordedResults DEF ObserveFails, RolledBack, Stored
  <1>8. CASE Unexpected(c)
    <2>1. call[c].pc \in {"run", "flushed"} /\ c \notin committed
      BY <1>8, <1>t DEF Unexpected, Reached, CallFacts
    <2>2. Sound(Broken) /\ Broken.status = "error" /\ Broken \in Answers
      BY NoResultIsNone, AnswerNames DEF Sound, Broken
    <2> QED BY <1>8, <1>t, <2>1, <2>2, GivenResults
            DEF Unexpected, RolledBack, Stored, BlockTyped, BlockState
  <1> QED BY <1>1, <1>2, <1>3, <1>4, <1>5, <1>6, <1>7, <1>8 DEF Observe

LEMMA OtherResults ==
    ASSUME CallsInv, ResultsInv, NEW c \in Calls, RefuseCall(c) \/ Other(c)
    PROVE  ResultsInv'
  <1>t. TypeOK /\ TablesTyped /\ BlockTyped /\ CallFacts(c) /\ \A r : Visible(r) \subseteq Calls
    BY TypedNow, ScopeIsCalls DEF CallsInv
  <1>1. ASSUME call[c].pc = "got", Req(c).kind # "observe",
               \E status \in Statuses \ {"accepted"}, ids \in SUBSET Calls : Concludes(c, status, ids)
        PROVE  ResultsInv'
    BY <1>1, ConcludesResults
  <1>2. CASE Recall(c) \/ BuildContext(c) \/ SearchGraph(c)
    <2>1. call[c].pc = "got" /\ Req(c).kind # "observe" /\ \E ids \in SUBSET Calls : Concludes(c, "completed", ids)
      BY <1>2, <1>t DEF Recall, BuildContext, SearchGraph, Accepted, Asks, Reached, Retrieved
    <2> QED BY <1>1, <2>1, StatusNames
  <1>3. CASE Explain(c)
    <2>1. /\ call[c].pc = "got" /\ Req(c).kind # "observe"
          /\ \E status \in {"completed", "not_found"}, ids \in SUBSET Calls : Concludes(c, status, ids)
      <3>1. CASE Req(c).target \in Visible(Req(c))
        BY <1>3, <1>t, <3>1 DEF Explain, Accepted, Asks, Reached
      <3>2. CASE Req(c).target \notin Visible(Req(c))
        BY <1>3, <3>2 DEF Explain, Accepted, Asks, Reached
      <3> QED BY <3>1, <3>2
    <2> QED BY <1>1, <2>1, StatusNames
  <1>4. CASE ReadFails(c) \/ Correct(c) \/ ProposeBlockUpdate(c)
    <2>1. /\ call[c].pc = "got" /\ Req(c).kind # "observe"
          /\ \E status \in {"failed", "queued", "proposed"} : Concludes(c, status, {})
      BY <1>4 DEF ReadFails, Correct, ProposeBlockUpdate, Accepted, Asks, Reached, Reads
    <2> QED BY <1>1, <2>1, StatusNames
  <1>5. CASE GetOperation(c)
    <2> DEFINE found == ops[Req(c).user][OpId(c)]
               answer == IF found = NoResult THEN Result(c, "not_found", {}) ELSE found
    <2>1. /\ call[c].pc = "got" /\ Req(c).kind # "observe" /\ c \notin committed /\ Ends(c, answer)
          /\ UNCHANGED <<Stored, ops, idem, life, BlockState>>
      BY <1>5, <1>t DEF GetOperation, Asks, Reached, CallFacts
    <2>2. /\ found \in Results \cup {NoResult} /\ (found # NoResult => Sound(found))
      BY <1>t, <2>1, Received DEF TypeOK, ResultsInv
    <2>3. answer \in Answers
      BY <2>2, ResultType, StatusNames DEF Answers
    <2>4. Sound(answer) \/ (answer = Result(c, answer.status, {}) /\ answer.status \in Statuses \ {"accepted"})
      <3>1. CASE found = NoResult
        <4>1. answer = Result(c, "not_found", {}) /\ answer.status = "not_found"
          BY <3>1 DEF Result
        <4> QED BY <4>1, StatusNames
      <3>2. CASE found # NoResult
        BY <2>2, <3>2
      <3> QED BY <3>1, <3>2
    <2>5. BlockTyped'
      BY <1>t, <2>1 DEF BlockTyped, BlockState
    <2> HIDE DEF answer
    <2> QED BY <2>1, <2>3, <2>4, <2>5, GivenResults
  <1>6. CASE RefuseCall(c)
    <2>1. Sound(Refused) /\ Refused.status = "refused" /\ Refused \in Answers
      BY NoResultIsNone, AnswerNames DEF Sound, Refused
    <2>2. call[c].pc = "got" /\ c \notin committed
      BY <1>6, <1>t DEF RefuseCall, Reached, CallFacts
    <2> QED BY <1>6, <1>t, <2>1, <2>2, GivenResults DEF RefuseCall, BlockTyped, BlockState
  <1> QED BY <1>2, <1>3, <1>4, <1>5, <1>6 DEF Other

LEMMA ReceiveResults ==
    ASSUME CallsInv, ResultsInv, NEW c \in Calls, Receive(c)
    PROVE  ResultsInv'
  <1>1. /\ Moves(c) /\ CallsInv'
        /\ call'[c].pc = "got" /\ call'[c].after = Done /\ call'[c].life = life
        /\ call'[c].answer = NoResult /\ c \notin committed
    BY ReceiveCalls
  <1>2. UNCHANGED <<memories, committed, ops, idem, life>>
    BY DEF Receive, Stored
  <1>3. Sound(call[c].answer)' /\ KeyTaken(c)' /\ ~Begun(c)'
    BY <1>1, <1>2, NoResultIsNone DEF Sound, KeyTaken, Begun
  <1>4. \A d \in call'[c].after : call[d].pc = "done"
    BY <1>1 DEF Done, Reached
  <1>5. Forward(c)
    BY <1>2, <1>3, <1>4 DEF Forward
  <1> QED BY <1>1, <1>5, ForwardResults

LEMMA BlockResults ==
    ASSUME CallsInv, ChainInv, ResultsInv, NEW c \in Calls, Block(c)
    PROVE  ResultsInv'
  <1>t. /\ TypeOK /\ call[c] \in CallStates /\ CallFacts(c) /\ Moves(c) /\ CallsInv'
    BY BlockCalls DEF CallsInv, TypeOK, ChainInv, BlockFacts
  <1>1. ASSUME NEW status \in Statuses \ {"accepted"}, BlockEnds(c, status),
               call[c].pc \notin {"none", "done", "lost"}, Req(c).kind # "observe", c \notin committed
        PROVE  ResultsInv'
    <2> DEFINE result == Result(c, status, {})
    <2>1. result.status = status /\ result = Result(c, result.status, {}) /\ result \in Answers
      BY ResultType DEF Result
    <2>2. BlockTyped' /\ Ends(c, result) /\ UNCHANGED <<Stored, ops, idem, life>>
      BY <1>1, <1>t DEF BlockEnds, CallsInv, TypeOK, BlockTyped
    <2> HIDE DEF result
    <2> QED BY <1>1, <2>1, <2>2, GivenResults
  <1>2. CASE LockBlock(c) \/ AppendRevision(c) \/ ReadMaximum(c)
    <2>1. /\ UNCHANGED <<memories, committed, ops, idem, life>> /\ call[c].pc \in {"got", "locked"}
          /\ call'[c].pc \in {"locked", "flushed"} /\ call'[c].answer = call[c].answer
          /\ call'[c].req = call[c].req /\ Req(c).kind # "observe" /\ c \notin committed
      BY <1>2, <1>t DEF LockBlock, AppendRevision, ReadMaximum, Asks, Reached, Stored, TypeOK, CallStates, CallFacts
    <2>2. ~Begun(c)'
      BY <2>1 DEF Begun, Req
    <2> QED BY <1>t, <2>1, <2>2, AdvanceResults
  <1>3. CASE CreateBlock(c) \/ AppendMissing(c) \/ AppendConflict(c) \/ CommitAppend(c) \/ CommitRevision(c)
    <2>1. /\ call[c].pc \in {"got", "locked", "flushed"} /\ Req(c).kind # "observe" /\ c \notin committed
          /\ \E status \in {"completed", "failed", "not_found", "conflict"} : BlockEnds(c, status)
      BY <1>3, <1>t DEF CreateBlock, AppendMissing, AppendConflict, CommitAppend, CommitRevision, Asks, Reached, CallFacts
    <2> QED BY <1>1, <2>1, StatusNames
  <1> QED BY <1>2, <1>3 DEF Block

LEMMA RestartResults ==
    ASSUME CallsInv, ResultsInv, Restart
    PROVE  ResultsInv'
  <1>1. \A c \in Calls : /\ call[c].pc \in {"none", "done"} => call'[c] = call[c]
                         /\ call'[c].req = call[c].req /\ call'[c].after = call[c].after
                         /\ call'[c].life = call[c].life /\ call'[c].answer = call[c].answer
                         /\ call'[c].pc = "done" => call[c].pc = "done"
                         /\ call'[c].pc \in {"none", "done", "lost"}
    <2> TAKE c \in Calls
    <2>1. call[c].pc \notin {"none", "done"} => call'[c].pc = "lost"
      BY DEF Restart, CallsInv, TypeOK, CallStates
    <2> QED BY <2>1, RestartCalls
  <1>2. /\ UNCHANGED <<memories, committed>> /\ life' = life + 1
        /\ ops' = [u \in Users |-> [o \in OpIds |-> NoResult]]
        /\ idem' = [u \in Users |-> [k \in IdempotencyKeys |-> NoEntry]]
    BY DEF Restart, Stored
  <1>3. \A c \in Calls : call[c].life \in 0 .. MaxRestarts /\ Sound(call[c].answer)'
    BY <1>1, <1>2 DEF ResultsInv, Sound, TrueOfStore, Results, CallsInv, TypeOK, CallStates
  <1>4. \A u \in Users, k \in IdempotencyKeys : Sound(idem[u][k].result)'
    BY <1>2, NoResultIsNone DEF Sound, NoEntry
  <1>5. \A c \in Calls : call[c].after \subseteq Calls
    BY DEF CallsInv, TypeOK, CallStates
  <1>6. ASSUME NEW c \in Calls PROVE FoundFree(c)'
    <2>1. Begun(c)' => Begun(c)
      BY <1>1, <1>2 DEF Begun
    <2>2. FoundFree(c)
      BY DEF ResultsInv
    <2> QED BY <1>1, <1>5, <2>1, <2>2 DEF FoundFree, SameKey, Settles, Req
  <1>7. \A c \in Calls : \A d \in call'[c].after : call'[d].pc = "done"
    BY <1>1, <1>5 DEF ResultsInv
  <1>8. ASSUME NEW c \in Calls PROVE KeyTaken(c)'
    <2>1. call'[c].life < life'
      <3>1. call[c].life \in Int /\ life \in Int /\ life' = life + 1
        BY DEF Restart, CallsInv, TypeOK, CallStates
      <3>2. call[c].life <= life
        BY DEF CallsInv, CallFacts
      <3> QED BY <1>1, <3>1, <3>2
    <2>2. call'[c].life \in Int /\ life' \in Int
      BY <1>1 DEF Restart, CallsInv, TypeOK, CallStates
    <2> QED BY <2>1, <2>2 DEF KeyTaken
  <1> QED BY <1>2, <1>3, <1>4, <1>6, <1>7, <1>8 DEF ResultsInv

-----------------------------------------------------------------------------
(* the theorems *)

\* The inductive invariant.
Inv == CallsInv /\ ChainInv /\ ResultsInv

LEMMA InitInv == KernelInit => Inv
  <1> SUFFICES ASSUME KernelInit PROVE Inv
    OBVIOUS
  <1>1. \A c \in Calls : /\ call[c] = FreshCall /\ call[c].pc = "none" /\ call[c].answer = NoResult
                         /\ call[c].after = {} /\ call[c].life = 0 /\ call[c] \in CallStates
    BY RequestsAssumption, AnswerNames DEF KernelInit, FreshCall, CallStates, PCs
  <1>2. NoEntry \in Entries /\ NoEntry.result = NoResult
    BY DEF NoEntry, Entries, Prints
  <1>3. TypeOK
    BY <1>1, <1>2, RequestsAssumption DEF KernelInit, TypeOK
  <1>4. \A c \in Calls : CallFacts(c)
    BY <1>1 DEF KernelInit, CallFacts, Running
  <1>5. Appended = {} /\ Numbers = {}
    BY DEF KernelInit, Appended, Numbers
  <1>6. ChainInv
    BY <1>1, <1>5 DEF KernelInit, ChainInv, BlockFacts, Greatest, RevisionChain, WriterFacts, Holds
  <1>7. /\ \A u \in Users, k \in IdempotencyKeys : idem[u][k].result = NoResult
        /\ \A u \in Users, o \in OpIds : ops[u][o] = NoResult
    BY <1>2 DEF KernelInit
  <1>8. Sound(NoResult)
    BY NoResultIsNone DEF Sound
  <1>9. ResultsInv
    BY <1>1, <1>7, <1>8 DEF KernelInit, ResultsInv, KeyTaken, FoundFree, Begun
  <1> QED BY <1>3, <1>4, <1>6, <1>9 DEF Inv, CallsInv

LEMMA StepInv == Inv /\ [KernelNext]_kernelVars => Inv'
  <1> SUFFICES ASSUME Inv, [KernelNext]_kernelVars PROVE Inv'
    OBVIOUS
  <1> USE DEF Inv
  <1>1. ASSUME NEW c \in Calls, Receive(c) PROVE Inv'
    BY <1>1, ReceiveCalls, ObserveChain, ReceiveResults
  <1>2. ASSUME NEW c \in Calls, RefuseCall(c) \/ Other(c) PROVE Inv'
    BY <1>2, OtherCalls, ObserveChain, OtherResults
  <1>3. ASSUME NEW c \in Calls, Observe(c) PROVE Inv'
    BY <1>3, ObserveCalls, ObserveChain, ObserveResults
  <1>4. ASSUME NEW c \in Calls, Block(c) PROVE Inv'
    <2>1. Greatest
      BY DEF ChainInv, BlockFacts
    <2> QED BY <1>4, <2>1, BlockCalls, BlockChain, BlockResults
  <1>5. CASE Restart
    BY <1>5, RestartCalls, RestartChain, RestartResults
  <1>6. CASE UNCHANGED kernelVars
    <2> USE <1>6 DEF kernelVars
    <2>1. CallsInv'
      BY DEF CallsInv, TypeOK, CallFacts, Req
    <2>2. ChainInv'
      <3>1. BlockFacts'
        BY DEF ChainInv, BlockFacts, Appended, Req, Greatest, Numbers
      <3>2. RevisionChain'
        BY DEF ChainInv, RevisionChain, Appended, Req
      <3>3. \A c \in Calls : WriterFacts(c)'
        BY DEF ChainInv, WriterFacts, Holds, Req
      <3> QED BY <3>1, <3>2, <3>3 DEF ChainInv
    <2>3. ResultsInv'
      <3>1. \A c \in Calls : KeyTaken(c)' /\ FoundFree(c)'
        BY DEF ResultsInv, KeyTaken, Settles, FoundFree, Begun, SameKey, Req
      <3>2. ASSUME NEW result, Sound(result) PROVE Sound(result)'
        BY <3>2 DEF Sound, TrueOfStore
      <3> QED BY <3>1, <3>2, SMTT(40) DEF ResultsInv, Sound, TrueOfStore, OpId, Req
    <2> QED BY <2>1, <2>2, <2>3
  <1> QED BY <1>1, <1>2, <1>3, <1>4, <1>5, <1>6 DEF KernelNext

\* Every table, call and block holds what its kind allows, and the numbers of the revisions
\* are counted from a greatest one.
THEOREM KernelTypes == KernelSpec => []TypeOK
  <1>1. Inv => TypeOK
    BY DEF Inv, CallsInv
  <1> QED BY <1>1, InitInv, StepInv, PTL DEF KernelSpec

\* Whoever writes to a block at the same time, with the lock or beside it, and wherever the
\* process dies, its appended revisions are one chain that ends in the current one.
THEOREM OneChain == KernelSpec => []RevisionChain
  <1>1. Inv => RevisionChain
    BY DEF Inv, ChainInv
  <1> QED BY <1>1, InitInv, StepInv, PTL DEF KernelSpec

\* What the process answers and keeps is true of the store, and a key that has been answered
\* for is never written under again while the process lives.
THEOREM TrulyAnswered == KernelSpec => []AnsweredTruly
  <1>1. Inv => ResultsTrue
    <2> SUFFICES ASSUME Inv PROVE ResultsTrue
      OBVIOUS
    <2>1. ASSUME NEW c \in Done PROVE TrueOfStore(call[c].answer)
      <3>1. c \in Calls /\ call[c].answer \in Answers /\ Sound(call[c].answer)
        BY <2>1 DEF Inv, CallsInv, TypeOK, CallStates, ResultsInv, Done
      <3> QED BY <3>1 DEF Sound, Answers, TrueOfStore, NoResult, Refused, Broken
    <2>2. ASSUME NEW u \in Users, NEW k \in IdempotencyKeys PROVE TrueOfStore(idem[u][k].result)
      <3>1. idem[u][k].result \in Results \cup {NoResult} /\ Sound(idem[u][k].result)
        BY DEF Inv, CallsInv, TypeOK, Entries, ResultsInv
      <3> QED BY <3>1 DEF Sound, TrueOfStore, NoResult
    <2>3. ASSUME NEW u \in Users, NEW o \in OpIds, ops[u][o] # NoResult
          PROVE  TrueOfStore(ops[u][o]) /\ Req(ops[u][o].by).user = u /\ OpId(ops[u][o].by) = o
      <3>1. ops[u][o] \in Results
        BY <2>3 DEF Inv, CallsInv, TypeOK
      <3> QED BY <2>3, <3>1 DEF Inv, ResultsInv, Sound
    <2> QED BY <2>1, <2>2, <2>3 DEF ResultsTrue
  <1>2. Inv => SettledOnce
    <2> SUFFICES ASSUME Inv, NEW c \in committed, NEW d \in call[c].after,
                        SameKey(c, d), call[d].life = call[c].life
                 PROVE  call[d].answer.status \notin {"accepted", "failed"}
      BY DEF SettledOnce
    <2>1. c \in Calls /\ Begun(c) /\ FoundFree(c)
      BY DEF Inv, CallsInv, TypeOK, Begun, ResultsInv
    <2> QED BY <2>1 DEF FoundFree, Settles, SameKey
  <1>3. Inv => AnsweredTruly
    BY <1>1, <1>2 DEF AnsweredTruly
  <1> QED BY <1>3, InitInv, StepInv, PTL DEF KernelSpec
=============================================================================

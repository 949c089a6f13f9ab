----------------------------- MODULE TaskProofs -----------------------------
(***************************************************************************)
(* What Lifecycle and Artifacts promise for any number of memories, jobs,  *)
(* uploads and tasks: a dream's batch stays dormant until it commits, no   *)
(* proposal becomes a memory without merit or approval, vectors are        *)
(* labelled, originals are whole, and no document is remembered in part.   *)
(***************************************************************************)
EXTENDS Lifecycle, Artifacts, TLAPS

-----------------------------------------------------------------------------
(* jobs *)

JobAnswers ==
    {"none", "ok", "not_found", "error", "completed", "existing", "conflict", "created", "not_ready",
     "applied", "skipped", "dry_run", "failed"}
JobStates ==
    [pc : {"none", "got", "read", "selected", "drafted", "embedded", "done"},
     req : Requests \cup {NoId}, tries : 0 .. 3, seen : SUBSET Memories, batch : SUBSET Memories,
     read : Rows \cup Proposals \cup [Memories -> Rows] \cup {NoId},
     draft : Proposals \cup {NoProposal}, embedded : SUBSET Memories, answer : JobAnswers]
JobTypes == job \in [Jobs -> JobStates] /\ \A j \in Jobs : job[j].pc = "none" <=> job[j].req = NoId

\* What a job has read and drafted at each of its points.
Point(j) ==
    /\ job[j].pc = "read" => job[j].req.kind \in {"feedback", "apply", "dream", "embed"}
    /\ job[j].pc = "read" /\ job[j].req.kind = "feedback" => job[j].read \in Rows
    /\ job[j].pc = "read" /\ job[j].req.kind = "embed" => job[j].read \in [Memories -> Rows]
    /\ job[j].pc = "selected" => job[j].req.kind = "dream" /\ job[j].batch # {}
    /\ job[j].pc = "drafted" => job[j].req.kind \in {"dream", "propose"} /\ job[j].draft \in Proposals
    /\ job[j].pc = "drafted" /\ job[j].req.kind = "dream" => job[j].batch # {}
    /\ job[j].pc = "embedded" => job[j].req.kind = "embed" /\ job[j].read \in [Memories -> Rows]
    /\ job[j].embedded # {} => job[j].pc \in {"embedded", "done"} /\ job[j].req.kind = "embed"

\* A dream holds the locks of its batch, whose memories are dormant.
Dreams(j)  == job[j].pc \in {"selected", "drafted"} /\ job[j].req.kind = "dream"
HoldsBatch(j) == Dreams(j) => \A m \in job[j].batch : locked[m] = j /\ Dormant(row[m])

\* A proposal that is ready is so on its merits or by approval.
Merits(p)     == Evaluate(p.tier, p.evidence, p.confidence) = "validated"
Sound(p) ==
    /\ p.state = "validated" => Merits(p)
    /\ p.state = "approved" => p.approved
    /\ p.canonical => p.approved \/ Merits(p)
\* So is one that a job has found ready, whatever has been decided since.
FoundReady(j) ==
    job[j].pc = "read" /\ job[j].req.kind = "apply" =>
        LET p == proposal[job[j].req.key] IN p # NoProposal /\ (p.approved \/ Merits(p))
Drafted(j) == job[j].pc = "drafted" => Sound(job[j].draft)

\* What has been reported as embedded has its vector; a vector has its label.
Labelled(r)  == (\E p \in Profiles : r.vec[p] # 0) => r.label # NoId /\ r.vec[r.label] # 0
Reported(j) ==
    job[j].pc = "done" /\ job[j].answer = "completed" =>
        \A m \in job[j].embedded : row[m].vec[job[j].req.profile] # 0

StoreTypes ==
    /\ row \in [Memories -> Rows]
    /\ proposal \in [Keys -> Proposals \cup {NoProposal}]
    /\ dreams \subseteq SUBSET Memories
    /\ locked \in [Memories -> Jobs \cup {NoId}]
StoreSound ==
    /\ \A k \in Keys : proposal[k] # NoProposal => Sound(proposal[k])
    /\ \A m \in Memories : Labelled(row[m])
JobSound(j) == Point(j) /\ HoldsBatch(j) /\ FoundReady(j) /\ Drafted(j) /\ Reported(j)
LifecycleInv == StoreTypes /\ StoreSound /\ JobTypes /\ \A j \in Jobs : JobSound(j)

-----------------------------------------------------------------------------
LEMMA NoProposalIsNone == NoProposal \notin Proposals
  BY DEF NoProposal, Proposals, ValidationStates

LEMMA JobRequests ==
    ASSUME JobTypes, NEW j \in Jobs, job[j].pc # "none"
    PROVE  /\ job[j].req \in Requests /\ job[j].req # NoId
           /\ job[j].req.ids \subseteq Memories
           /\ job[j].req.kind \in UserKinds \cup {"feedback"} => Target(j) \in Memories
           /\ job[j].req.kind \in ReviewKinds \cup {"propose", "apply"} => job[j].req.key \in Keys
           /\ job[j].req.kind = "embed" => job[j].req.profile \in Profiles
           /\ job[j].req.tier \in Tiers /\ job[j].req.confidence \in Nat
  <1>1. job[j].req \in Requests
    BY DEF JobTypes, JobStates
  <1>2. job[j].req.kind \in UserKinds \cup {"feedback"} => Target(j) \in Memories
    BY <1>1, RequestsAssumption DEF Target, Req
  <1> QED BY <1>1, <1>2, RequestsAssumption DEF JobTypes, Keys

\* A job's own change; `new` is what it becomes.
LEMMA JobChanges ==
    ASSUME JobTypes, NEW j \in Jobs, NEW new \in JobStates, job' = [job EXCEPT ![j] = new],
           new.pc # "none", new.req \in Requests
    PROVE  JobTypes' /\ job'[j] = new /\ \A i \in Jobs \ {j} : job'[i] = job[i]
  <1>1. new.req # NoId
    BY RequestsAssumption
  <1> QED BY <1>1 DEF JobTypes

LEMMA EndChanges ==
    ASSUME JobTypes, NEW j \in Jobs, job[j].pc # "none", NEW answer \in JobAnswers, Ends(j, answer)
    PROVE  /\ JobTypes' /\ job'[j] = [job[j] EXCEPT !.pc = "done", !.answer = answer]
           /\ job'[j].pc = "done" /\ job'[j].answer = answer /\ job'[j].req = job[j].req
           /\ job'[j].embedded = job[j].embedded
           /\ \A i \in Jobs \ {j} : job'[i] = job[i]
  <1> DEFINE new == [job[j] EXCEPT !.pc = "done", !.answer = answer]
  <1>1. job[j] \in JobStates
    BY DEF JobTypes
  <1>2. new \in JobStates /\ new.pc = "done" /\ new.answer = answer /\ new.req = job[j].req
        /\ new.embedded = job[j].embedded
    BY <1>1 DEF JobStates
  <1>3. job' = [job EXCEPT ![j] = new]
    BY DEF Ends, JobTypes
  <1>4. new.req \in Requests
    BY <1>2, JobRequests
  <1> HIDE DEF new
  <1>5. JobTypes' /\ job'[j] = new /\ \A i \in Jobs \ {j} : job'[i] = job[i]
    BY <1>2, <1>3, <1>4, JobChanges
  <1> QED BY <1>2, <1>5 DEF new

\* Of a job that has ended with nothing embedded nothing is asked.
LEMMA EndSound ==
    ASSUME JobTypes, NEW j \in Jobs, job[j].pc # "none", NEW answer \in JobAnswers, Ends(j, answer),
           job[j].embedded = {}
    PROVE  JobTypes' /\ JobSound(j)' /\ \A i \in Jobs \ {j} : job'[i] = job[i]
  BY EndChanges DEF JobSound, Point, HoldsBatch, Dreams, FoundReady, Drafted, Reported

\* What other jobs rely on in the store: a step may not disturb it.
StoreKept(j) ==
    /\ \A m \in Memories :
        /\ (\E i \in Jobs \ {j} : locked[m] = i) => locked'[m] = locked[m]
        /\ (\E i \in Jobs \ {j} : locked[m] = i) => (Dormant(row[m]) => Dormant(row[m])')
        /\ \A p \in Profiles : row[m].vec[p] # 0 => row'[m].vec[p] # 0
    /\ \A k \in Keys : proposal[k] # NoProposal =>
        /\ proposal'[k] # NoProposal
        /\ proposal[k].approved => proposal'[k].approved
        /\ Merits(proposal[k]) => Merits(proposal[k])'

LEMMA OthersSound ==
    ASSUME LifecycleInv, NEW j \in Jobs, NEW i \in Jobs \ {j}, job'[i] = job[i], StoreKept(j)
    PROVE  JobSound(i)'
  <1> USE DEF LifecycleInv, JobSound
  <1>1. Point(i)' /\ Drafted(i)'
    BY DEF Point, Drafted, Sound, Merits
  <1>2. HoldsBatch(i)'
    <2> SUFFICES ASSUME Dreams(i), NEW m \in job[i].batch PROVE (locked[m] = i /\ Dormant(row[m]))'
      BY DEF HoldsBatch, Dreams
    <2>1. m \in Memories
      BY DEF JobTypes, JobStates
    <2> QED BY <2>1 DEF HoldsBatch, StoreKept
  <1>3. FoundReady(i)'
    <2> SUFFICES ASSUME job[i].pc = "read", job[i].req.kind = "apply"
                 PROVE  LET p == proposal'[job[i].req.key] IN p # NoProposal /\ (p.approved \/ Merits(p))
      BY DEF FoundReady, Merits
    <2>1. job[i].req.key \in Keys
      BY JobRequests
    <2> QED BY <2>1 DEF FoundReady, StoreKept, Merits
  <1>4. Reported(i)'
    <2> SUFFICES ASSUME job[i].pc = "done", job[i].answer = "completed", NEW m \in job[i].embedded
                 PROVE  row'[m].vec[job[i].req.profile] # 0
      BY DEF Reported
    <2>1. m \in Memories /\ job[i].req.profile \in Profiles
      BY JobRequests DEF JobTypes, JobStates, Point
    <2> QED BY <2>1 DEF Reported, StoreKept
  <1> QED BY <1>1, <1>2, <1>3, <1>4

LEMMA NothingKept ==
    ASSUME NEW j \in Jobs, UNCHANGED <<row, proposal, locked>>
    PROVE  StoreKept(j)
  BY DEF StoreKept, Merits, Dormant

LEMMA StepKeeps ==
    ASSUME LifecycleInv, NEW j \in Jobs, JobTypes', JobSound(j)', \A i \in Jobs \ {j} : job'[i] = job[i],
           StoreKept(j), StoreTypes', StoreSound'
    PROVE  LifecycleInv'
  BY OthersSound DEF LifecycleInv

\* A step that leaves the store alone.
LEMMA JobKeeps ==
    ASSUME LifecycleInv, NEW j \in Jobs, NEW new \in JobStates, job' = [job EXCEPT ![j] = new],
           new.pc # "none", new.req \in Requests, JobSound(j)', UNCHANGED <<row, proposal, dreams, locked>>
    PROVE  LifecycleInv'
  <1>1. JobTypes' /\ \A i \in Jobs \ {j} : job'[i] = job[i]
    BY JobChanges DEF LifecycleInv
  <1>2. StoreTypes' /\ StoreSound'
    BY DEF LifecycleInv, StoreTypes, StoreSound, Sound, Merits, Labelled
  <1> QED BY <1>1, <1>2, NothingKept, StepKeeps

LEMMA EndKeeps ==
    ASSUME LifecycleInv, NEW j \in Jobs, job[j].pc \notin {"none", "embedded", "done"}, NEW answer \in JobAnswers,
           Ends(j, answer), StoreKept(j), StoreTypes', StoreSound'
    PROVE  LifecycleInv'
  <1>1. job[j].embedded = {}
    BY DEF LifecycleInv, JobSound, Point
  <1>2. JobTypes' /\ JobSound(j)' /\ \A i \in Jobs \ {j} : job'[i] = job[i]
    BY <1>1, EndSound DEF LifecycleInv
  <1> QED BY <1>2, StepKeeps

\* One that ends a job and leaves the store alone.
LEMMA QuietEndKeeps ==
    ASSUME LifecycleInv, NEW j \in Jobs, job[j].pc \notin {"none", "embedded", "done"}, NEW answer \in JobAnswers,
           Ends(j, answer), UNCHANGED <<row, proposal, dreams, locked>>
    PROVE  LifecycleInv'
  <1>1. StoreTypes' /\ StoreSound'
    BY DEF LifecycleInv, StoreTypes, StoreSound, Sound, Merits, Labelled
  <1> QED BY <1>1, NothingKept, EndKeeps DEF JobAnswers

-----------------------------------------------------------------------------
(* the row of a memory *)

LEMMA RowKept ==
    ASSUME LifecycleInv, NEW j \in Jobs, UNCHANGED <<proposal, locked>>, row' \in [Memories -> Rows],
           \A m \in Memories : /\ row'[m].vec = row[m].vec /\ row'[m].label = row[m].label
                               /\ locked[m] # NoId => (Dormant(row[m]) => Dormant(row[m])')
    PROVE  StoreKept(j) /\ StoreSound' /\ (UNCHANGED dreams => StoreTypes')
  <1>1. NoId \notin Jobs
    BY RequestsAssumption
  <1>2. StoreKept(j)
    BY <1>1 DEF StoreKept, Merits
  <1>3. StoreSound'
    BY DEF LifecycleInv, StoreSound, Labelled, Sound, Merits
  <1> QED BY <1>2, <1>3 DEF LifecycleInv, StoreTypes

LEMMA UpdateRowKeeps ==
    ASSUME LifecycleInv, NEW j \in Jobs, job[j].pc \in {"got", "read"}, NEW m \in Memories, NEW new \in Rows,
           new.vec = row[m].vec, new.label = row[m].label, UpdateRow(j, m, new)
    PROVE  LifecycleInv'
  <1>1. row' \in [Memories -> Rows]
    BY DEF UpdateRow, LifecycleInv, StoreTypes
  <1>2. \A n \in Memories : /\ row'[n].vec = row[n].vec /\ row'[n].label = row[n].label
                            /\ locked[n] # NoId => row'[n] = row[n]
    BY DEF UpdateRow, LifecycleInv, StoreTypes, Unlocked
  <1>3. \A n \in Memories : locked[n] # NoId => (Dormant(row[n]) => Dormant(row[n])')
    BY <1>2 DEF Dormant
  <1>4. StoreKept(j) /\ StoreSound' /\ StoreTypes'
    BY <1>1, <1>2, <1>3, RowKept DEF UpdateRow, OnlyRows
  <1>5. CASE row[m].live
    <2>1. Ends(j, "ok")
      BY <1>5 DEF UpdateRow
    <2> QED BY <1>4, <2>1, EndKeeps DEF JobAnswers
  <1>6. CASE ~row[m].live
    <2>1. Ends(j, "not_found")
      BY <1>6 DEF UpdateRow
    <2> QED BY <1>4, <2>1, EndKeeps DEF JobAnswers
  <1> QED BY <1>5, <1>6

LEMMA UserKeeps == ASSUME LifecycleInv, NEW j \in Jobs, User(j) PROVE LifecycleInv'
  <1>0. CASE FeedbackRead(j)
    <2>1. job[j].pc = "got" /\ job[j].req.kind = "feedback" /\ Target(j) \in Memories
      BY <1>0, JobRequests DEF FeedbackRead, Asks, At, Req, LifecycleInv
    <2>2. CASE row[Target(j)].live
      <3> DEFINE new == [job[j] EXCEPT !.pc = "read", !.read = row[Target(j)]]
      <3>1. row[Target(j)] \in Rows /\ job[j] \in JobStates /\ job[j].embedded = {}
        BY <2>1 DEF LifecycleInv, StoreTypes, JobTypes, JobSound, Point
      <3>2. new \in JobStates /\ new.pc = "read" /\ new.req = job[j].req /\ new.read \in Rows /\ new.embedded = {}
        BY <3>1 DEF JobStates
      <3>3. job' = [job EXCEPT ![j] = new]
        BY <1>0, <2>2 DEF FeedbackRead, LifecycleInv, JobTypes
      <3>4. new.req \in Requests
        BY <2>1, <3>2, JobRequests DEF LifecycleInv
      <3> HIDE DEF new
      <3>5. job'[j] = new
        BY <3>3 DEF LifecycleInv, JobTypes
      <3>6. JobSound(j)'
        BY <2>1, <3>2, <3>5 DEF JobSound, Point, HoldsBatch, Dreams, FoundReady, Drafted, Reported
      <3> QED BY <1>0, <3>2, <3>3, <3>4, <3>6, JobKeeps DEF FeedbackRead
    <2>3. CASE ~row[Target(j)].live
      BY <1>0, <2>1, <2>3, QuietEndKeeps DEF JobAnswers, FeedbackRead
    <2> QED BY <2>2, <2>3
  <1>1. CASE ~FeedbackRead(j)
    <2>1. /\ job[j].pc \in {"got", "read"} /\ job[j].req.kind \in UserKinds \cup {"feedback"}
          /\ job[j].pc = "read" => job[j].req.kind = "feedback"
      BY <1>1 DEF User, Pin, Unpin, Archive, Restore, Delete, Touch, Rewrite, FeedbackWrite, Asks, At, Req, UserKinds
    <2>2. Target(j) \in Memories
      BY <2>1, JobRequests DEF LifecycleInv
    <2> DEFINE m == Target(j)
    <2>3. row[m] \in Rows
      BY <2>2 DEF LifecycleInv, StoreTypes
    <2>4. PICK new \in Rows : new.vec = row[m].vec /\ new.label = row[m].label /\ UpdateRow(j, m, new)
      <3>1. CASE Pin(j)
        BY <2>3, <3>1 DEF Pin, Rows
      <3>2. CASE Unpin(j)
        BY <2>3, <3>2 DEF Unpin, Rows
      <3>3. CASE Archive(j)
        BY <2>3, <3>3 DEF Archive, Rows
      <3>4. CASE Restore(j)
        BY <2>3, <3>4 DEF Restore, Rows
      <3>5. CASE Delete(j)
        BY <2>3, <3>5 DEF Delete, Rows
      <3>6. CASE Touch(j)
        BY <2>3, <3>6 DEF Touch, Rows
      <3>7. CASE Rewrite(j)
        <4> DEFINE new == [row[m] EXCEPT !.text = @ + 1]
        <4>1. row[m].text < MaxText /\ MaxText \in Nat /\ row[m].text \in 0 .. MaxText
          BY <2>3, <3>7, RequestsAssumption DEF Rewrite, Rows
        <4>2. row[m].text + 1 \in 0 .. MaxText
          BY <4>1
        <4>3. new \in Rows /\ new.vec = row[m].vec /\ new.label = row[m].label
          BY <2>3, <4>2 DEF Rows
        <4> QED BY <3>7, <4>3 DEF Rewrite
      <3>8. CASE FeedbackWrite(j)
        <4> DEFINE archives == Req(j).flag \/ job[j].read.utility = -1
                   new == [row[m] EXCEPT !.idle = FALSE, !.utility = -1,
                             !.state = IF archives THEN "archived" ELSE @,
                             !.current = IF archives /\ job[j].read.current THEN FALSE ELSE @]
        <4> DEFINE state == IF archives THEN "archived" ELSE row[m].state
                   current == IF archives /\ job[j].read.current THEN FALSE ELSE row[m].current
        <4>0. state \in States /\ current \in BOOLEAN
          <5>1. row[m].state \in States /\ row[m].current \in BOOLEAN /\ "archived" \in States
            BY <2>3 DEF Rows, States
          <5> HIDE DEF archives
          <5> QED BY <5>1
        <4>1. new \in Rows /\ new.vec = row[m].vec /\ new.label = row[m].label
          <5>1. new = [row[m] EXCEPT !.idle = FALSE, !.utility = -1, !.state = state, !.current = current]
            OBVIOUS
          <5> HIDE DEF archives, state, current, new
          <5>2. -1 \in -1 .. 0
            OBVIOUS
          <5> QED BY <2>3, <4>0, <5>1, <5>2 DEF Rows
        <4> QED BY <3>8, <4>1 DEF FeedbackWrite
      <3> QED BY <1>1, <3>1, <3>2, <3>3, <3>4, <3>5, <3>6, <3>7, <3>8 DEF User
    <2> QED BY <2>1, <2>2, <2>4, UpdateRowKeeps
  <1> QED BY <1>0, <1>1

-----------------------------------------------------------------------------
(* receipt, decay and reflection *)

LEMMA ReceiveKeeps == ASSUME LifecycleInv, NEW j \in Jobs, Receive(j) PROVE LifecycleInv'
  <1>1. PICK r \in Asked[j] : job' = [job EXCEPT ![j] = [Fresh EXCEPT !.pc = "got", !.req = r]]
    BY DEF Receive
  <1>2. r \in Requests
    BY DEF Requests
  <1> DEFINE new == [Fresh EXCEPT !.pc = "got", !.req = r]
  <1>3. new \in JobStates /\ new.pc = "got" /\ new.req = r /\ new.embedded = {}
    <2>1. Fresh \in JobStates /\ Fresh.embedded = {}
      BY DEF Fresh, JobStates, JobAnswers
    <2> QED BY <1>2, <2>1 DEF JobStates
  <1> HIDE DEF new
  <1>4. job'[j] = new
    BY <1>1 DEF LifecycleInv, JobTypes, new
  <1>5. JobSound(j)'
    BY <1>3, <1>4 DEF JobSound, Point, HoldsBatch, Dreams, FoundReady, Drafted, Reported
  <1> QED BY <1>1, <1>2, <1>3, <1>5, JobKeeps DEF Receive, new

LEMMA CycleKeeps ==
    ASSUME LifecycleInv, NEW j \in Jobs, job[j].pc = "got", NEW next, DOMAIN next \subseteq Memories,
           \A m \in DOMAIN next : next[m] \in {row[m].state, Raises}, Cycle(j, next), OnlyRows
    PROVE  LifecycleInv'
  <1>1. CASE \E m \in DOMAIN next : next[m] = Raises
    BY <1>1, QuietEndKeeps DEF JobAnswers, Cycle, OnlyRows
  <1>2. CASE ~\E m \in DOMAIN next : next[m] = Raises
    <2>1. row' = [m \in Memories |->
                    IF m \in DOMAIN next THEN [row[m] EXCEPT !.state = next[m]] ELSE row[m]]
      BY <1>2 DEF Cycle
    <2>2. \A m \in Memories : row'[m] = row[m]
      BY <1>2, <2>1 DEF LifecycleInv, StoreTypes, Rows
    <2>3. row' \in [Memories -> Rows]
      BY <2>1, <2>2 DEF LifecycleInv, StoreTypes
    <2>4. StoreKept(j) /\ StoreSound' /\ StoreTypes'
      BY <2>2, <2>3, RowKept DEF OnlyRows, Dormant
    <2> QED BY <1>2, <2>4, EndKeeps DEF JobAnswers, Cycle
  <1> QED BY <1>1, <1>2

LEMMA CyclesKeep ==
    ASSUME LifecycleInv, NEW j \in Jobs, RunDecayCycle(j) \/ RunReflectionCycle(j)
    PROVE  LifecycleInv'
  <1>1. job[j].pc = "got" /\ OnlyRows
    BY DEF RunDecayCycle, RunReflectionCycle, Asks, At
  <1>2. CASE RunDecayCycle(j)
    <2> DEFINE next == [m \in Decaying |-> Transition(row[m])]
    <2>1. DOMAIN next \subseteq Memories /\ \A m \in DOMAIN next : next[m] \in {row[m].state, Raises}
      BY DEF Decaying, Transition, Age, Raises
    <2> QED BY <1>1, <1>2, <2>1, CycleKeeps DEF RunDecayCycle
  <1>3. CASE RunReflectionCycle(j)
    <2> DEFINE next == [m \in Goals |-> Dormancy(row[m])]
    <2>1. DOMAIN next \subseteq Memories /\ \A m \in DOMAIN next : next[m] \in {row[m].state, Raises}
      BY DEF Goals, Decaying, Dormancy, Age, Raises
    <2> QED BY <1>1, <1>3, <2>1, CycleKeeps DEF RunReflectionCycle
  <1> QED BY <1>2, <1>3

-----------------------------------------------------------------------------
(* proposals *)

\* A draft is decided by its own evidence and confidence, and nobody has approved it.
LEMMA DraftSound ==
    ASSUME NEW tier \in Tiers, NEW evidence \in SUBSET Memories, NEW confidence \in Nat
    PROVE  LET p == Draft(tier, evidence, confidence)
           IN  p \in Proposals /\ Sound(p) /\ p.evidence = evidence
  BY DEF Draft, Evaluate, Proposals, ValidationStates, Sound, Merits

\* One proposal is written; what it is about, and its approval, stay.
LEMMA ProposalKeeps ==
    ASSUME LifecycleInv, NEW j \in Jobs, job[j].pc \notin {"none", "embedded", "done"}, NEW answer \in JobAnswers,
           Ends(j, answer), NEW k \in Keys, NEW new \in Proposals, proposal' = [proposal EXCEPT ![k] = new],
           Sound(new), UNCHANGED <<row, locked>>, dreams' \subseteq SUBSET Memories,
           proposal[k] # NoProposal => /\ proposal[k].approved => new.approved
                                       /\ Merits(proposal[k]) => Merits(new)
    PROVE  LifecycleInv'
  <1>1. proposal' \in [Keys -> Proposals \cup {NoProposal}] /\ proposal'[k] = new
        /\ \A l \in Keys \ {k} : proposal'[l] = proposal[l]
    BY DEF LifecycleInv, StoreTypes
  <1>2. StoreKept(j)
    BY <1>1, NoProposalIsNone DEF StoreKept, Merits, Dormant
  <1>3. StoreSound'
    BY <1>1 DEF LifecycleInv, StoreSound, Sound, Merits, Labelled
  <1> QED BY <1>1, <1>2, <1>3, EndKeeps DEF JobAnswers, LifecycleInv, StoreTypes

LEMMA ReviewKeeps == ASSUME LifecycleInv, NEW j \in Jobs, Review(j) PROVE LifecycleInv'
  <1>0. /\ job[j].pc \in {"got", "read", "drafted"} /\ job[j] \in JobStates /\ job[j].embedded = {}
        /\ job[j].req \in Requests /\ Req(j).key \in Keys
        /\ Req(j).ids \subseteq Memories /\ Req(j).tier \in Tiers /\ Req(j).confidence \in Nat
        /\ proposal[Req(j).key] \in Proposals \cup {NoProposal}
        /\ proposal[Req(j).key] # NoProposal => Sound(proposal[Req(j).key])
    <2>1. job[j].pc \in {"got", "read", "drafted"} /\ Req(j).kind \in ReviewKinds \cup {"propose", "apply"}
      BY DEF Review, Propose, InsertProposal, Validate, Approve, Reject, Unknown, ApplyRead, ApplyWrite, Asks, At, ReviewKinds
    <2> QED BY <2>1, JobRequests DEF Req, LifecycleInv, JobTypes, JobSound, Point, StoreTypes, StoreSound
  <1> DEFINE k == Req(j).key
             p == proposal[k]
  <1>1. CASE Propose(j)
    <2> DEFINE draft == Draft(Req(j).tier, Req(j).ids, Req(j).confidence)
               new == [job[j] EXCEPT !.pc = "drafted", !.draft = draft]
    <2>1. CASE p # NoProposal
      BY <1>0, <1>1, <2>1, QuietEndKeeps DEF JobAnswers, Propose
    <2>2. CASE p = NoProposal
      <3>1. draft \in Proposals /\ Sound(draft)
        BY <1>0, DraftSound
      <3>2. job' = [job EXCEPT ![j] = new]
        BY <1>1, <2>2 DEF Propose, LifecycleInv, JobTypes
      <3> HIDE DEF draft
      <3>3. new \in JobStates /\ new.pc = "drafted" /\ new.req = job[j].req /\ new.draft = draft /\ new.embedded = {}
        BY <1>0, <3>1 DEF JobStates
      <3> HIDE DEF new
      <3>4. job'[j] = new
        BY <3>2 DEF LifecycleInv, JobTypes
      <3>5. job[j].req.kind = "propose"
        BY <1>1 DEF Propose, Asks, Req
      <3>6. JobSound(j)'
        BY <3>1, <3>3, <3>4, <3>5 DEF JobSound, Point, HoldsBatch, Dreams, FoundReady, Drafted, Reported, Sound, Merits
      <3> QED BY <1>0, <1>1, <3>2, <3>3, <3>6, JobKeeps DEF Propose
    <2> QED BY <2>1, <2>2
  <1>2. CASE InsertProposal(j)
    <2>1. CASE p = NoProposal
      <3>1. job[j].draft \in Proposals /\ Sound(job[j].draft)
        BY <1>2 DEF InsertProposal, At, LifecycleInv, JobSound, Point, Drafted
      <3> QED BY <1>0, <1>2, <2>1, <3>1, ProposalKeeps DEF JobAnswers, InsertProposal, OnlyProposals, LifecycleInv, StoreTypes
    <2>2. CASE p # NoProposal
      BY <1>0, <1>2, <2>2, QuietEndKeeps DEF JobAnswers, InsertProposal, OnlyProposals
    <2> QED BY <2>1, <2>2
  <1>3. CASE Validate(j)
    <2> DEFINE state == Evaluate(p.tier, p.evidence, p.confidence)
               new == [p EXCEPT !.state = state]
    <2>1. p \in Proposals /\ Sound(p)
      BY <1>0, <1>3 DEF Validate
    <2>2. state \in {"rejected", "needs_review", "validated"}
      BY DEF Evaluate
    <2>3. new \in Proposals /\ Sound(new) /\ new.approved = p.approved /\ (Merits(p) => Merits(new))
      BY <2>1, <2>2 DEF Proposals, ValidationStates, Sound, Merits
    <2>4. proposal' = [proposal EXCEPT ![k] = new]
      BY <1>3, <2>1 DEF Validate, LifecycleInv, StoreTypes
    <2> HIDE DEF new
    <2> QED BY <1>0, <1>3, <2>3, <2>4, ProposalKeeps DEF JobAnswers, Validate, OnlyProposals, LifecycleInv, StoreTypes
  <1>4. CASE Approve(j)
    <2> DEFINE new == [p EXCEPT !.state = "approved", !.approved = TRUE]
    <2>1. p \in Proposals /\ Sound(p)
      BY <1>0, <1>4 DEF Approve
    <2>2. new \in Proposals /\ Sound(new) /\ new.approved /\ (Merits(p) => Merits(new))
      BY <2>1 DEF Proposals, ValidationStates, Sound, Merits
    <2>3. proposal' = [proposal EXCEPT ![k] = new]
      BY <1>4, <2>1 DEF Approve, LifecycleInv, StoreTypes
    <2> HIDE DEF new
    <2> QED BY <1>0, <1>4, <2>2, <2>3, ProposalKeeps DEF JobAnswers, Approve, OnlyProposals, LifecycleInv, StoreTypes
  <1>5. CASE Reject(j)
    <2> DEFINE new == [p EXCEPT !.state = "rejected"]
    <2>1. p \in Proposals /\ Sound(p)
      BY <1>0, <1>5 DEF Reject
    <2>2. new \in Proposals /\ Sound(new) /\ new.approved = p.approved /\ (Merits(p) => Merits(new))
      BY <2>1 DEF Proposals, ValidationStates, Sound, Merits
    <2>3. proposal' = [proposal EXCEPT ![k] = new]
      BY <1>5, <2>1 DEF Reject, LifecycleInv, StoreTypes
    <2> HIDE DEF new
    <2> QED BY <1>0, <1>5, <2>2, <2>3, ProposalKeeps DEF JobAnswers, Reject, OnlyProposals, LifecycleInv, StoreTypes
  <1>6. CASE Unknown(j)
    BY <1>0, <1>6, QuietEndKeeps DEF JobAnswers, Unknown, OnlyProposals
  <1>7. CASE ApplyRead(j)
    <2>1. CASE ~Ready(p)
      BY <1>0, <1>7, <2>1, QuietEndKeeps DEF JobAnswers, ApplyRead
    <2>2. CASE Ready(p)
      <3> DEFINE new == [job[j] EXCEPT !.pc = "read", !.read = p]
      <3>1. p \in Proposals /\ p # NoProposal /\ (p.approved \/ Merits(p))
        BY <1>0, <1>7, <2>2 DEF ApplyRead, Ready, Sound
      <3>2. new \in JobStates /\ new.pc = "read" /\ new.req = job[j].req /\ new.embedded = {}
        BY <1>0, <3>1 DEF JobStates
      <3>3. job' = [job EXCEPT ![j] = new]
        BY <1>7, <2>2 DEF ApplyRead, LifecycleInv, JobTypes
      <3> HIDE DEF new
      <3>4. job'[j] = new /\ job[j].req.kind = "apply" /\ proposal' = proposal
        BY <1>7, <3>3 DEF ApplyRead, LifecycleInv, JobTypes, Asks, Req
      <3>5. JobSound(j)'
        BY <3>1, <3>2, <3>4 DEF JobSound, Point, HoldsBatch, Dreams, FoundReady, Drafted, Reported, Req, Merits
      <3> QED BY <1>0, <1>7, <3>2, <3>3, <3>5, JobKeeps DEF ApplyRead
    <2> QED BY <2>1, <2>2
  <1>8. CASE ApplyWrite(j)
    <2> DEFINE new == [p EXCEPT !.state = "applied", !.canonical = TRUE]
    <2>1. p # NoProposal /\ (p.approved \/ Merits(p))
      BY <1>8 DEF ApplyWrite, At, Req, LifecycleInv, JobSound, FoundReady
    <2>2. p \in Proposals /\ Sound(p)
      BY <1>0, <2>1
    <2>3. new \in Proposals /\ Sound(new) /\ new.approved = p.approved /\ (Merits(p) => Merits(new))
      BY <2>1, <2>2 DEF Proposals, ValidationStates, Sound, Merits
    <2>4. proposal' = [proposal EXCEPT ![k] = new]
      BY <1>8, <2>2 DEF ApplyWrite, LifecycleInv, StoreTypes
    <2> HIDE DEF new
    <2> QED BY <1>0, <1>8, <2>3, <2>4, ProposalKeeps DEF JobAnswers, ApplyWrite, OnlyProposals, LifecycleInv, StoreTypes
  <1> QED BY <1>1, <1>2, <1>3, <1>4, <1>5, <1>6, <1>7, <1>8 DEF Review

-----------------------------------------------------------------------------
(* dreams *)

\* A batch is locked, or a job's locks are given back: no other job's lock is touched.
LEMMA LocksKept ==
    ASSUME LifecycleInv, NEW j \in Jobs, UNCHANGED <<row, proposal>>, dreams' \subseteq SUBSET Memories,
           locked' \in [Memories -> Jobs \cup {NoId}],
           \A m \in Memories : (\E i \in Jobs \ {j} : locked[m] = i) => locked'[m] = locked[m]
    PROVE  StoreKept(j) /\ StoreTypes' /\ StoreSound'
  BY DEF LifecycleInv, StoreKept, StoreTypes, StoreSound, Sound, Merits, Labelled, Dormant

LEMMA UnlockTypes ==
    ASSUME LifecycleInv, NEW j \in Jobs, Unlock(j)
    PROVE  /\ locked' \in [Memories -> Jobs \cup {NoId}]
           /\ \A m \in Memories : (\E i \in Jobs \ {j} : locked[m] = i) => locked'[m] = locked[m]
  BY DEF LifecycleInv, StoreTypes, Unlock

\* A dream or a task that fails begins again.
LEMMA BeginsAgain ==
    ASSUME JobTypes, NEW j \in Jobs, job[j].pc # "none", NEW tries \in 0 .. 3,
           job' = [job EXCEPT ![j] = [Fresh EXCEPT !.pc = "got", !.req = job[j].req, !.tries = tries]]
    PROVE  JobTypes' /\ JobSound(j)' /\ \A i \in Jobs \ {j} : job'[i] = job[i]
  <1> DEFINE new == [Fresh EXCEPT !.pc = "got", !.req = job[j].req, !.tries = tries]
  <1>1. Fresh \in JobStates /\ Fresh.embedded = {}
    BY DEF Fresh, JobStates, JobAnswers
  <1>2. job[j].req \in Requests
    BY JobRequests
  <1>3. new \in JobStates /\ new.pc = "got" /\ new.req = job[j].req /\ new.embedded = {}
    BY <1>1, <1>2 DEF JobStates
  <1> HIDE DEF new
  <1>4. JobTypes' /\ job'[j] = new /\ \A i \in Jobs \ {j} : job'[i] = job[i]
    BY <1>2, <1>3, JobChanges DEF new
  <1> QED BY <1>3, <1>4 DEF JobSound, Point, HoldsBatch, Dreams, FoundReady, Drafted, Reported

LEMMA DreamKeeps == ASSUME LifecycleInv, NEW j \in Jobs, Dream(j) PROVE LifecycleInv'
  <1>0. /\ job[j].pc \in {"got", "read", "selected", "drafted"} /\ job[j] \in JobStates /\ job[j].embedded = {}
        /\ job[j].req \in Requests /\ job[j].req.kind = "dream" /\ job[j].batch \subseteq Memories
    <2>1. job[j].pc \in {"got", "read", "selected", "drafted"}
      BY DEF Dream, DreamStart, DreamSelect, DreamDry, DreamConsolidate, DreamCommit, DreamFails, Asks, At
    <2>2. job[j].req.kind = "dream"
      BY DEF Dream, DreamStart, DreamSelect, DreamDry, DreamConsolidate, DreamCommit, DreamFails, Asks, At, Req,
             LifecycleInv, JobSound, Point
    <2> QED BY <2>1, <2>2, JobRequests DEF LifecycleInv, JobTypes, JobStates, JobSound, Point
  <1>1. CASE DreamStart(j)
    <2> DEFINE new == [job[j] EXCEPT !.pc = "read", !.seen = UNION dreams]
    <2>1. UNION dreams \subseteq Memories
      BY DEF LifecycleInv, StoreTypes
    <2>2. new \in JobStates /\ new.pc = "read" /\ new.req = job[j].req /\ new.embedded = {}
      BY <1>0, <2>1 DEF JobStates
    <2>3. job' = [job EXCEPT ![j] = new]
      BY <1>1 DEF DreamStart, LifecycleInv, JobTypes
    <2> HIDE DEF new
    <2>4. job'[j] = new
      BY <2>3 DEF LifecycleInv, JobTypes
    <2>5. JobSound(j)'
      BY <1>0, <2>2, <2>4 DEF JobSound, Point, HoldsBatch, Dreams, FoundReady, Drafted, Reported
    <2> QED BY <1>0, <1>1, <2>2, <2>3, <2>5, JobKeeps DEF DreamStart
  <1>2. CASE DreamSelect(j)
    <2>1. PICK batch \in SUBSET Selectable(j) :
            IF batch = {} THEN Ends(j, "skipped") /\ UNCHANGED locked
            ELSE /\ job' = [job EXCEPT ![j].pc = "selected", ![j].batch = batch]
                 /\ locked' = [m \in Memories |-> IF m \in batch THEN j ELSE locked[m]]
      BY <1>2 DEF DreamSelect
    <2>2. CASE batch = {}
      BY <1>0, <1>2, <2>1, <2>2, QuietEndKeeps DEF JobAnswers, DreamSelect
    <2>3. CASE batch # {}
      <3> DEFINE new == [job[j] EXCEPT !.pc = "selected", !.batch = batch]
      <3>1. batch \subseteq Memories /\ \A m \in batch : locked[m] = NoId /\ Dormant(row[m])
        BY DEF Selectable
      <3>2. new \in JobStates /\ new.pc = "selected" /\ new.req = job[j].req /\ new.batch = batch /\ new.embedded = {}
        BY <1>0, <3>1 DEF JobStates
      <3>3. job' = [job EXCEPT ![j] = new] /\ locked' = [m \in Memories |-> IF m \in batch THEN j ELSE locked[m]]
        BY <2>1, <2>3 DEF LifecycleInv, JobTypes
      <3> HIDE DEF new
      <3>4. JobTypes' /\ job'[j] = new /\ \A i \in Jobs \ {j} : job'[i] = job[i]
        BY <1>0, <3>2, <3>3, JobChanges DEF LifecycleInv
      <3>5. /\ locked' \in [Memories -> Jobs \cup {NoId}]
            /\ \A m \in Memories : (\E i \in Jobs \ {j} : locked[m] = i) => locked'[m] = locked[m]
        <4>1. NoId \notin Jobs
          BY RequestsAssumption
        <4> QED BY <3>1, <3>3, <4>1 DEF LifecycleInv, StoreTypes
      <3>6. StoreKept(j) /\ StoreTypes' /\ StoreSound'
        BY <1>2, <3>5, LocksKept DEF DreamSelect, LifecycleInv, StoreTypes
      <3>7. HoldsBatch(j)'
        BY <1>2, <3>1, <3>2, <3>3, <3>4 DEF HoldsBatch, Dreams, DreamSelect, Dormant
      <3>8. JobSound(j)'
        BY <1>0, <2>3, <3>2, <3>4, <3>7 DEF JobSound, Point, FoundReady, Drafted, Reported
      <3> QED BY <3>4, <3>6, <3>8, StepKeeps
    <2> QED BY <2>2, <2>3
  <1>3. CASE DreamDry(j)
    BY <1>0, <1>3, QuietEndKeeps DEF JobAnswers, DreamDry
  <1>4. CASE DreamConsolidate(j)
    <2> DEFINE draft == Draft("low", job[j].batch, 70)
               new == [job[j] EXCEPT !.pc = "drafted", !.draft = draft]
    <2>1. draft \in Proposals /\ Sound(draft)
      BY <1>0, DraftSound DEF Tiers
    <2>2. job' = [job EXCEPT ![j] = new]
      BY <1>4 DEF DreamConsolidate, LifecycleInv, JobTypes
    <2> HIDE DEF draft
    <2>3. new \in JobStates /\ new.pc = "drafted" /\ new.req = job[j].req /\ new.draft = draft
          /\ new.batch = job[j].batch /\ new.embedded = {}
      BY <1>0, <2>1 DEF JobStates
    <2> HIDE DEF new
    <2>4. job'[j] = new /\ job[j].pc = "selected"
      BY <1>4, <2>2 DEF DreamConsolidate, At, LifecycleInv, JobTypes
    <2>5. HoldsBatch(j)' /\ job[j].batch # {}
      <3>1. HoldsBatch(j) /\ Point(j)
        BY DEF LifecycleInv, JobSound
      <3> QED BY <1>0, <1>4, <2>3, <2>4, <3>1 DEF HoldsBatch, Dreams, DreamConsolidate, Dormant, Point
    <2>6. JobSound(j)'
      BY <1>0, <2>1, <2>3, <2>4, <2>5 DEF JobSound, Point, FoundReady, Drafted, Reported, Sound, Merits
    <2> QED BY <1>0, <1>4, <2>2, <2>3, <2>6, JobKeeps DEF DreamConsolidate
  <1>5. CASE DreamCommit(j)
    <2> DEFINE k == job[j].batch
    <2>1. /\ job[j].pc = "drafted" /\ k # {} /\ job[j].draft \in Proposals /\ Sound(job[j].draft)
          /\ Ends(j, "completed")
      BY <1>0, <1>5 DEF DreamCommit, At, LifecycleInv, JobSound, Point, Drafted
    <2>2. k \in Keys
      <3>1. k \in (SUBSET Memories) \ {{}}
        BY <1>0, <2>1
      <3> QED BY <3>1 DEF Keys
    <2>3. JobTypes' /\ JobSound(j)' /\ \A i \in Jobs \ {j} : job'[i] = job[i]
      BY <1>0, <2>1, EndSound DEF LifecycleInv, JobAnswers
    <2>4. proposal' = [proposal EXCEPT ![k] = IF proposal[k] = NoProposal THEN job[j].draft ELSE proposal[k]]
      BY <1>5 DEF DreamCommit
    <2>5. /\ proposal' \in [Keys -> Proposals \cup {NoProposal}]
          /\ \A l \in Keys : proposal[l] # NoProposal => proposal'[l] = proposal[l]
          /\ \A l \in Keys : proposal'[l] # NoProposal => Sound(proposal'[l])
      <3>1. \A l \in Keys : proposal'[l] = IF l = k /\ proposal[k] = NoProposal THEN job[j].draft ELSE proposal[l]
        BY <2>2, <2>4 DEF LifecycleInv, StoreTypes
      <3> QED BY <2>1, <2>2, <2>4, <3>1 DEF LifecycleInv, StoreTypes, StoreSound
    <2>6. /\ locked' \in [Memories -> Jobs \cup {NoId}]
          /\ \A m \in Memories : (\E i \in Jobs \ {j} : locked[m] = i) => locked'[m] = locked[m]
      BY <1>5, UnlockTypes DEF DreamCommit
    <2>7. StoreTypes'
      BY <1>0, <1>5, <2>5, <2>6 DEF DreamCommit, LifecycleInv, StoreTypes
    <2>8. StoreSound'
      BY <1>5, <2>5 DEF DreamCommit, LifecycleInv, StoreSound, Sound, Merits, Labelled
    <2>9. StoreKept(j)
      BY <1>5, <2>5, <2>6 DEF DreamCommit, StoreKept, Merits, Dormant
    <2> QED BY <2>3, <2>7, <2>8, <2>9, StepKeeps
  <1>6. CASE DreamFails(j)
    <2>1. /\ locked' \in [Memories -> Jobs \cup {NoId}]
          /\ \A m \in Memories : (\E i \in Jobs \ {j} : locked[m] = i) => locked'[m] = locked[m]
      BY <1>6, UnlockTypes DEF DreamFails
    <2>2. StoreKept(j) /\ StoreTypes' /\ StoreSound'
      BY <1>6, <2>1, LocksKept DEF DreamFails, LifecycleInv, StoreTypes
    <2>3. CASE job[j].tries < 1
      <3>1. job' = [job EXCEPT ![j] = [Fresh EXCEPT !.pc = "got", !.req = job[j].req, !.tries = 1]]
        BY <1>6, <2>3 DEF DreamFails, Req
      <3>2. JobTypes' /\ JobSound(j)' /\ \A i \in Jobs \ {j} : job'[i] = job[i]
        <4>1. 1 \in 0 .. 3 /\ job[j].pc # "none"
          BY <1>0
        <4> QED BY <1>0, <3>1, <4>1, BeginsAgain DEF LifecycleInv
      <3> QED BY <2>2, <3>2, StepKeeps
    <2>4. CASE ~(job[j].tries < 1)
      BY <1>0, <1>6, <2>2, <2>4, EndKeeps DEF DreamFails, JobAnswers
    <2> QED BY <2>3, <2>4
  <1> QED BY <1>1, <1>2, <1>3, <1>4, <1>5, <1>6 DEF Dream

-----------------------------------------------------------------------------
(* vectors *)

LEMMA VectorKeeps == ASSUME LifecycleInv, NEW j \in Jobs, Vector(j) PROVE LifecycleInv'
  <1>0. /\ job[j].pc \in {"got", "read", "embedded"} /\ job[j] \in JobStates
        /\ job[j].pc # "embedded" => job[j].embedded = {}
        /\ job[j].req \in Requests /\ job[j].req.kind = "embed" /\ job[j].batch \subseteq Memories
        /\ job[j].embedded \subseteq Memories
        /\ job[j].req.ids \subseteq Memories /\ job[j].req.profile \in Profiles
        /\ job[j].pc \in {"read", "embedded"} => job[j].read \in [Memories -> Rows]
    <2>1. job[j].pc \in {"got", "read", "embedded"}
      BY DEF Vector, EmbedRead, Embed, EmbedCommit, EmbedFails, Asks, At
    <2>2. job[j].req.kind = "embed"
      BY DEF Vector, EmbedRead, Embed, EmbedCommit, EmbedFails, Asks, At, Req, LifecycleInv, JobSound, Point
    <2> QED BY <2>1, <2>2, JobRequests DEF LifecycleInv, JobTypes, JobStates, JobSound, Point
  <1>1. CASE EmbedRead(j)
    <2> DEFINE batch == {m \in job[j].req.ids : row[m].live}
               new == [job[j] EXCEPT !.pc = "read", !.read = row, !.batch = batch]
    <2>1. row \in [Memories -> Rows] /\ batch \subseteq Memories
      BY <1>0 DEF LifecycleInv, StoreTypes
    <2>2. job' = [job EXCEPT ![j] = new] /\ job[j].pc = "got"
      BY <1>1 DEF EmbedRead, Req, Asks, At, LifecycleInv, JobTypes
    <2> HIDE DEF batch
    <2>3. new \in JobStates /\ new.pc = "read" /\ new.req = job[j].req /\ new.read = row
          /\ new.embedded = job[j].embedded
      BY <1>0, <2>1 DEF JobStates
    <2> HIDE DEF new
    <2>4. job'[j] = new
      BY <2>2 DEF LifecycleInv, JobTypes
    <2>5. JobSound(j)'
      BY <1>0, <2>1, <2>2, <2>3, <2>4 DEF JobSound, Point, HoldsBatch, Dreams, FoundReady, Drafted, Reported
    <2> QED BY <1>0, <1>1, <2>2, <2>3, <2>5, JobKeeps DEF EmbedRead
  <1>2. CASE Embed(j)
    <2> DEFINE good == {m \in job[j].batch : Storable(job[j].read[m], job[j].req.profile)}
               new == [job[j] EXCEPT !.pc = "embedded", !.embedded = good]
    <2>1. good \subseteq Memories
      BY <1>0
    <2>2. job' = [job EXCEPT ![j] = new] /\ job[j].pc = "read"
      BY <1>2 DEF Embed, Req, At, LifecycleInv, JobTypes
    <2> HIDE DEF good
    <2>3. new \in JobStates /\ new.pc = "embedded" /\ new.req = job[j].req /\ new.read = job[j].read
      BY <1>0, <2>1 DEF JobStates
    <2> HIDE DEF new
    <2>4. job'[j] = new
      BY <2>2 DEF LifecycleInv, JobTypes
    <2>5. JobSound(j)'
      BY <1>0, <2>2, <2>3, <2>4 DEF JobSound, Point, HoldsBatch, Dreams, FoundReady, Drafted, Reported
    <2> QED BY <1>0, <1>2, <2>2, <2>3, <2>5, JobKeeps DEF Embed
  <1>3. CASE EmbedCommit(j)
    <2> DEFINE p == job[j].req.profile
    <2>1. /\ job[j].pc = "embedded" /\ Ends(j, "completed") /\ UNCHANGED <<proposal, dreams, locked>>
          /\ \A m \in job[j].embedded : row[m].live /\ locked[m] = NoId
      BY <1>3 DEF EmbedCommit, At, OnlyRows, Vanished, Unlocked
    <2>2. /\ DOMAIN row' = Memories
          /\ \A m \in Memories : row'[m] = IF m \in job[j].embedded
                                           THEN [row[m] EXCEPT !.vec[p] = job[j].read[m].text + 1, !.label = p]
                                           ELSE row[m]
      BY <1>3, <2>1 DEF EmbedCommit, StoreEmbedding, Req
    <2>3. ASSUME NEW m \in job[j].embedded
          PROVE  /\ row'[m] \in Rows /\ row'[m].vec[p] # 0 /\ row'[m].label = p
                 /\ \A q \in Profiles : row[m].vec[q] # 0 => row'[m].vec[q] # 0
                 /\ Dormant(row[m]) => Dormant(row[m])'
      <3>1. m \in Memories /\ row[m] \in Rows /\ job[j].read[m] \in Rows
        BY <1>0, <2>1 DEF LifecycleInv, StoreTypes
      <3> DEFINE n == job[j].read[m].text + 1
      <3>2. n \in 1 .. MaxText + 1
        <4>1. job[j].read[m].text \in 0 .. MaxText /\ MaxText \in Nat
          BY <3>1, RequestsAssumption DEF Rows
        <4> QED BY <4>1
      <3>3. row'[m] = [row[m] EXCEPT !.vec[p] = n, !.label = p]
        BY <2>2, <3>1
      <3> HIDE DEF n
      <3>4. n \in 0 .. MaxText + 1 /\ n # 0
        BY <3>2, RequestsAssumption
      <3>5. [row[m].vec EXCEPT ![p] = n] \in [Profiles -> 0 .. MaxText + 1]
        BY <1>0, <3>1, <3>4 DEF Rows
      <3>6. row'[m] \in Rows /\ row'[m].vec = [row[m].vec EXCEPT ![p] = n] /\ row'[m].label = p
        BY <1>0, <3>1, <3>3, <3>5 DEF Rows
      <3>7. Dormant(row[m]) => Dormant(row[m])'
        BY <3>1, <3>3 DEF Dormant, Rows
      <3>8. row[m].vec \in [Profiles -> 0 .. MaxText + 1]
        BY <3>1 DEF Rows
      <3> QED BY <1>0, <3>4, <3>6, <3>7, <3>8
    <2>4. row' \in [Memories -> Rows]
      <3>1. \A m \in Memories : row'[m] \in Rows
        BY <2>2, <2>3 DEF LifecycleInv, StoreTypes
      <3>2. row' = [m \in Memories |-> row'[m]]
        BY <1>3 DEF EmbedCommit
      <3> QED BY <3>1, <3>2
    <2>5. StoreTypes'
      BY <2>1, <2>4 DEF LifecycleInv, StoreTypes
    <2>6. StoreSound'
      <3>1. p # NoId
        BY <1>0, RequestsAssumption
      <3>2. \A m \in Memories : Labelled(row[m])'
        BY <2>2, <2>3, <3>1, ZenonT(60) DEF LifecycleInv, StoreSound, Labelled
      <3> QED BY <2>1, <3>2 DEF LifecycleInv, StoreSound, Sound, Merits
    <2>7. StoreKept(j)
      BY <2>1, <2>2, <2>3 DEF StoreKept, Merits, Dormant
    <2>8. /\ JobTypes' /\ \A i \in Jobs \ {j} : job'[i] = job[i]
          /\ job'[j].pc = "done" /\ job'[j].req = job[j].req /\ job'[j].embedded = job[j].embedded
      BY <2>1, EndChanges DEF LifecycleInv, JobAnswers
    <2>9. JobSound(j)'
      BY <1>0, <2>3, <2>8 DEF JobSound, Point, HoldsBatch, Dreams, FoundReady, Drafted, Reported
    <2> QED BY <2>5, <2>6, <2>7, <2>8, <2>9, StepKeeps
  <1>4. CASE EmbedFails(j)
    <2>1. StoreKept(j) /\ StoreTypes' /\ StoreSound'
      BY <1>4, LocksKept DEF EmbedFails, LifecycleInv, StoreTypes
    <2>2. CASE TriesLeft(j)
      <3>1. job[j].tries + 1 \in 0 .. 3
        BY <1>0, <2>2 DEF TriesLeft, JobStates
      <3>2. job' = [job EXCEPT ![j] = [Fresh EXCEPT !.pc = "got", !.req = job[j].req, !.tries = job[j].tries + 1]]
        BY <1>4, <2>2 DEF EmbedFails, Req
      <3>3. JobTypes' /\ JobSound(j)' /\ \A i \in Jobs \ {j} : job'[i] = job[i]
        BY <1>0, <3>1, <3>2, BeginsAgain DEF LifecycleInv
      <3> QED BY <2>1, <3>3, StepKeeps
    <2>3. CASE ~TriesLeft(j)
      <3> DEFINE new == [job[j] EXCEPT !.pc = "done", !.answer = "failed", !.embedded = {}]
      <3>1. new \in JobStates /\ new.pc = "done" /\ new.req = job[j].req /\ new.embedded = {}
        BY <1>0 DEF JobStates, JobAnswers
      <3>2. job' = [job EXCEPT ![j] = new]
        BY <1>4, <2>3 DEF EmbedFails, LifecycleInv, JobTypes
      <3> HIDE DEF new
      <3>3. job'[j] = new
        BY <3>2 DEF LifecycleInv, JobTypes
      <3>4. JobSound(j)'
        BY <3>1, <3>3 DEF JobSound, Point, HoldsBatch, Dreams, FoundReady, Drafted, Reported
      <3> QED BY <1>0, <1>4, <3>1, <3>2, <3>4, JobKeeps DEF EmbedFails
    <2> QED BY <2>2, <2>3
  <1> QED BY <1>1, <1>2, <1>3, <1>4 DEF Vector

-----------------------------------------------------------------------------
LEMMA LifecycleBegins == LifecycleInit => LifecycleInv
  <1> SUFFICES ASSUME LifecycleInit PROVE LifecycleInv
    OBVIOUS
  <1>1. Fresh \in JobStates /\ Fresh.pc = "none" /\ Fresh.req = NoId /\ Fresh.embedded = {}
    BY DEF Fresh, JobStates, JobAnswers
  <1>2. \A j \in Jobs : job[j] = Fresh
    BY DEF LifecycleInit
  <1>3. JobTypes
    BY <1>1 DEF LifecycleInit, JobTypes
  <1>4. \A j \in Jobs : JobSound(j)
    BY <1>1, <1>2 DEF JobSound, Point, HoldsBatch, Dreams, FoundReady, Drafted, Reported
  <1>5. row \in [Memories -> Rows] /\ \A m \in Memories : Labelled(row[m])
    <2>1. MaxText \in Nat /\ TypeOf \in [Memories -> Types]
      BY RequestsAssumption DEF Types
    <2>2. 0 \in 0 .. MaxText + 1 /\ 0 \in 0 .. MaxText /\ 0 \in -1 .. 0
      BY <2>1
    <2> QED BY <2>1, <2>2 DEF LifecycleInit, Rows, States, Types, Labelled
  <1>6. StoreTypes /\ StoreSound
    BY <1>5 DEF LifecycleInit, StoreTypes, StoreSound
  <1> QED BY <1>3, <1>4, <1>6 DEF LifecycleInv

LEMMA LifecycleSteps == LifecycleInv /\ [LifecycleNext]_lifecycleVars => LifecycleInv'
  <1> SUFFICES ASSUME LifecycleInv, [LifecycleNext]_lifecycleVars PROVE LifecycleInv'
    OBVIOUS
  <1>1. CASE UNCHANGED lifecycleVars
    BY <1>1, SMTT(40) DEF lifecycleVars, LifecycleInv, StoreTypes, StoreSound, Sound, Merits, Labelled, JobTypes, JobSound,
                Point, HoldsBatch, Dreams, Dormant, FoundReady, Drafted, Reported
  <1>2. CASE LifecycleNext
    BY <1>2, ReceiveKeeps, UserKeeps, CyclesKeep, ReviewKeeps, DreamKeeps, VectorKeeps DEF LifecycleNext
  <1> QED BY <1>1, <1>2

LEMMA LifecycleInvariant == LifecycleSpec => []LifecycleInv
  BY LifecycleBegins, LifecycleSteps, PTL DEF LifecycleSpec

\* Every row, proposal, lock and job keeps its type, whatever jobs meet and however often they fail
\* (repositories/memory_repo.py, workers/dream_tasks.py, workers/embedding_tasks.py).
THEOREM LifecycleTypes == LifecycleSpec => [](StoreTypes /\ JobTypes)
  <1>1. LifecycleInv => StoreTypes /\ JobTypes
    BY DEF LifecycleInv
  <1> QED BY <1>1, LifecycleInvariant, PTL

\* A dream that selects its batch FOR UPDATE SKIP LOCKED records as dormant what is dormant when it
\* commits, for any number of users, cycles and other dreams beside it (dream_tasks.py:105).
THEOREM DormantTillCommitted == LifecycleSpec => []BatchStaysDormant
  <1>1. LifecycleInv => BatchStaysDormant
    <2> SUFFICES ASSUME LifecycleInv, NEW j \in Jobs, Dreams(j), NEW m \in job[j].batch
                 PROVE  Dormant(row[m]) /\ \A i \in Jobs \ {j} : Dreams(i) => m \notin job[i].batch
      BY DEF BatchStaysDormant, Dreams, Req
    <2> QED BY DEF LifecycleInv, JobSound, HoldsBatch
  <1> QED BY <1>1, LifecycleInvariant, PTL

\* No proposal of more than a low risk becomes a memory without an approval, and none of a low risk
\* without evidence and confidence, whatever is validated, rejected and applied at the same time
\* (core/consolidation/memory.py:190, :869).
THEOREM OnMeritOnly == LifecycleSpec => []AppliedOnMerit
  <1>1. LifecycleInv => AppliedOnMerit
    <2> SUFFICES ASSUME LifecycleInv, NEW k \in Keys, proposal[k] # NoProposal, proposal[k].canonical,
                        ~proposal[k].approved
                 PROVE  /\ proposal[k].tier = "low" /\ proposal[k].evidence # {}
                        /\ proposal[k].confidence >= MinConfidence("low")
      BY DEF AppliedOnMerit
    <2>1. proposal[k] \in Proposals /\ Merits(proposal[k])
      BY DEF LifecycleInv, StoreTypes, StoreSound, Sound
    <2>2. proposal[k].confidence \in Nat
      BY <2>1 DEF Proposals
    <2>3. /\ proposal[k].tier = "low" /\ proposal[k].evidence # {}
          /\ ~(proposal[k].confidence < MinConfidence(proposal[k].tier))
      BY <2>1 DEF Merits, Evaluate
    <2> QED BY <2>2, <2>3 DEF MinConfidence
  <1> QED BY <1>1, LifecycleInvariant, PTL

\* What a batch task reports as embedded has its vector, and a row with a vector is labelled with a
\* profile under which it has one, through retries, deletions and rewritten texts; which of two racing
\* tasks' vectors the label names, and whether the other's is there as well, is left open
\* (embedding_tasks.py:196).
THEOREM EmbeddedTruly == LifecycleSpec => []EmbeddedAsReported
  <1>1. LifecycleInv => EmbeddedAsReported
    BY DEF LifecycleInv, StoreSound, JobSound, Labelled, Reported, EmbeddedAsReported, At, Req
  <1> QED BY <1>1, LifecycleInvariant, PTL

-----------------------------------------------------------------------------
(* documents: their originals, and their memories *)

\* Where a request has its artifact, and where the original of it is in the store.
Preparing == {"put", "place", "row", "commit", "delay", "mark"}
Storing   == {"row", "commit", "delay", "mark"}

UpFields  == {"pc", "status", "art", "back"}
RowFields == {"key", "org", "user", "read", "queued"}
JobFields == {"pc", "tries", "chunks", "left", "k", "held"}

\* A task exists once its row does, and nobody inserts that row again.
FiledTypes ==
    /\ case \in Cases
    /\ DOMAIN up = Uploads /\ \A i \in Uploads : up[i] = [f \in UpFields |-> up[i][f]]
    /\ DOMAIN rows \subseteq Uploads /\ \A i \in DOMAIN rows : rows[i] = [f \in RowFields |-> rows[i][f]]
    /\ DOMAIN running \subseteq DOMAIN rows /\ \A i \in DOMAIN running : running[i] = [f \in JobFields |-> running[i][f]]
    /\ \A i \in Uploads : up[i].pc \in {"delay", "mark"} => i \in DOMAIN rows
    /\ \A i \in DOMAIN running : up[i].pc \in {"mark", "answered"}

\* A key is of one upload, and whatever is stored under it is what that upload sent or found.
Origin(i) == Source(case.uploads[i])
StoredTruly ==
    /\ \A key \in DOMAIN objects : objects[key] = Origin(key[1])
    /\ \A i \in Uploads :
        /\ up[i].pc \in Preparing => up[i].art.key[1] = i /\ up[i].art.data = Origin(i)
        /\ up[i].pc \in Storing => up[i].art.key \in DOMAIN objects
    /\ \A i \in DOMAIN rows : rows[i].key[1] = i /\ rows[i].key \in DOMAIN objects

\* A task has no chunks yet or those of its row; what it has been through is remembered or held.
CutOf(i)   == IF Worth(rows[i]) THEN Chunks(rows[i].read.text) ELSE <<>>
Through(i) == {Slot(i, k) : k \in DOMAIN ChunksOf(i) \ running[i].left}
TaskTrue(i) ==
    /\ running[i].chunks \in {<<>>, CutOf(i)}
    /\ running[i].held \subseteq Slots(i)
    /\ running[i].left \subseteq DOMAIN ChunksOf(i)
    /\ running[i].pc \in {"look", "insert"} => Through(i) \subseteq memories \cup running[i].held
    /\ running[i].pc = "insert" => running[i].k \in running[i].left
    /\ running[i].pc = "commit" => Slots(i) \subseteq memories \cup running[i].held
TasksTrue == \A i \in DOMAIN running : TaskTrue(i)

ArtifactsInv == FiledTypes /\ StoredTruly /\ TasksTrue /\ NeverPart

\* The lesser of two lengths.
LEMMA MinOfTwo ==
    ASSUME NEW m \in Nat, NEW n \in Nat PROVE Min({m, n}) = IF m <= n THEN m ELSE n
  <1> DEFINE least == IF m <= n THEN m ELSE n
  <1>1. least \in {m, n} /\ \A y \in {m, n} : least <= y
    OBVIOUS
  <1>2. \A x \in {m, n} : (\A y \in {m, n} : x <= y) => x = least
    OBVIOUS
  <1> QED BY <1>1, <1>2 DEF Min

\* What comes out shorter than the most that is read was read whole.
LEMMA ReadWhole ==
    ASSUME NEW d, IsDocument(d)
    PROVE  /\ ~(Size(ReadUpload(d)) > MaxSize) => ReadUpload(d) = d
           /\ ReadUpload(d) = NoFile => d = NoFile
  <1> DEFINE n == MaxSize + 1
             L == Len(d.bytes)
             m == Min({n, L})
             e == ReadUpload(d)
  <1>1. n \in Nat /\ n > 0 /\ L \in Nat /\ d.bytes \in Seq(Range(d.bytes))
    BY MaxSizeAssumption DEF IsDocument
  <1>2. m = IF n <= L THEN n ELSE L
    BY <1>1, MinOfTwo
  <1>3. e = [is |-> d.is, bytes |-> SubSeq(d.bytes, 1, m)]
    <2>1. e = [d EXCEPT !.bytes = SubSeq(d.bytes, 1, m)]
      BY DEF ReadUpload, Cut
    <2>2. \A a, b, s : [[is |-> a, bytes |-> b] EXCEPT !.bytes = s] = [is |-> a, bytes |-> s]
      OBVIOUS
    <2>3. d = [is |-> d.is, bytes |-> d.bytes]
      BY DEF IsDocument
    <2> HIDE DEF m, e
    <2> QED BY <2>1, <2>2, <2>3, Zenon
  <1>4. Len(SubSeq(d.bytes, 1, m)) = m
    BY <1>1, <1>2
  <1>5. m = L => SubSeq(d.bytes, 1, m) = d.bytes
    BY <1>1
  <1>6. Size(e) = m
    <2> HIDE DEF m, e
    <2>1. e.bytes = SubSeq(d.bytes, 1, m)
      BY <1>3
    <2> QED BY <2>1, <1>4 DEF Size
  <1>7. ~(Size(e) > MaxSize) => e = d
    BY <1>1, <1>2, <1>3, <1>5, <1>6, MaxSizeAssumption DEF IsDocument
  <1>8. e = NoFile => Size(e) = 0
    BY DEF NoFile, Size
  <1> QED BY <1>7, <1>8, MaxSizeAssumption

\* A request is refused with its status, or read with its data.
LEMMA Parsing ==
    /\ \A s \in Int : Refuse(s).status = s
    /\ \A data, name, mime : Read(data, name, mime).status = 200 /\ Read(data, name, mime).data = data
  BY DEF Refuse, Read

\* What each form of a request that is read gives.
LEMMA Parsed ==
    ASSUME NEW c
    PROVE  /\ ParseJson(c).status = 200 => ParseJson(c).data = NoFile
           /\ ParseRaw(c).status = 200 => ParseRaw(c).data = c.file
           /\ ParseMultipart(c).status = 200 =>
                ParseMultipart(c).data = IF c.file = NoFile THEN NoFile ELSE ReadUpload(c.file)
  <1>1. ParseJson(c) = Refuse(422) \/ ParseJson(c) = Read(NoFile, c.name, c.mime)
    BY Zenon DEF ParseJson
  <1>2. ParseRaw(c) = Refuse(413) \/ ParseRaw(c) = Refuse(422) \/ ParseRaw(c) = Read(c.file, c.name, c.mime)
    <2>1. Size(c.file) > MaxSize => ParseRaw(c) = Refuse(413)
      BY Zenon DEF ParseRaw
    <2>2. ~(Size(c.file) > MaxSize) /\ BadIds(c) => ParseRaw(c) = Refuse(422)
      BY Zenon DEF ParseRaw
    <2>3. ~(Size(c.file) > MaxSize) /\ ~BadIds(c) => ParseRaw(c) = Read(c.file, c.name, c.mime)
      BY Zenon DEF ParseRaw
    <2> QED BY <2>1, <2>2, <2>3, Zenon
  <1>3. \/ ParseMultipart(c) = Refuse(422) \/ ParseMultipart(c) = Refuse(400)
        \/ ParseMultipart(c) = Read(IF c.file = NoFile THEN NoFile ELSE ReadUpload(c.file), c.name, c.mime)
    <2> DEFINE twice == c.file # NoFile /\ c.url # None
               bad   == BadIds(c) \/ c.metadata = "no object"
    <2>1. c.form = "text as file" => ParseMultipart(c) = Refuse(422)
      BY Zenon DEF ParseMultipart
    <2>2. c.form # "text as file" /\ twice => ParseMultipart(c) = Refuse(400)
      BY Zenon DEF ParseMultipart
    <2>3. c.form # "text as file" /\ ~twice /\ bad => ParseMultipart(c) = Refuse(422)
      BY Zenon DEF ParseMultipart
    <2>4. c.form # "text as file" /\ ~twice /\ ~bad =>
            ParseMultipart(c) = Read(IF c.file = NoFile THEN NoFile ELSE ReadUpload(c.file), c.name, c.mime)
      BY Zenon DEF ParseMultipart
    <2> HIDE DEF twice, bad
    <2> QED BY <2>1, <2>2, <2>3, <2>4, Zenon
  <1> QED BY <1>1, <1>2, <1>3, Parsing

\* What is prepared keeps the data it was given, under a key of its own.
LEMMA PreparedTrue ==
    ASSUME NEW i, NEW c, NEW user, NEW got, Prepared(i, c, user, got).status = 200
    PROVE  /\ Prepared(i, c, user, got).key[1] = i /\ Prepared(i, c, user, got).data = got.data
           /\ ~(Size(got.data) > MaxSize)
  <1> DEFINE art == Prepared(i, c, user, got)
  <1>1. \A s \in Int : Refuse(s).status = s
    BY DEF Refuse
  <1>2. ~(Size(got.data) > MaxSize) /\ ~(c.metadata = "too large")
    <2>1. Size(got.data) > MaxSize => art = Refuse(413)
      BY Zenon DEF Prepared
    <2>2. ~(Size(got.data) > MaxSize) /\ c.metadata = "too large" => art = Refuse(422)
      BY Zenon DEF Prepared
    <2>3. art.status = 200
      OBVIOUS
    <2> HIDE DEF art
    <2>4. art # Refuse(413) /\ art # Refuse(422)
      BY <1>1, <2>3
    <2> QED BY <2>1, <2>2, <2>4, Zenon
  <1>4. art.key[1] = i /\ art.data = got.data
    <2> DEFINE name == SafeName(got.name)
               ext  == ExtensionOf(name)
               mime == ResolveMime(ext, got.mime)
               said == IF BaseMime(got.mime) = Octets THEN mime ELSE BaseMime(got.mime)
    <2>1. art = [status |-> 200, key |-> <<i, ext>>, data |-> got.data, org |-> c.org, user |-> user,
                 read |-> Extract(got.data, said, ext)]
      BY <1>2, ZenonT(60) DEF Prepared
    <2> HIDE DEF art, name, ext, mime, said
    <2> QED BY <2>1
  <1> HIDE DEF art
  <1> QED BY <1>2, <1>4 DEF art

\* What is taken in is what was sent, or what is at the page that was named; its key is its own.
LEMMA UploadTrue ==
    ASSUME NEW i, NEW c, IsDocument(c.file), c.form = "json" => c.file = NoFile, Upload(i, c).status = 200
    PROVE  Upload(i, c).key[1] = i /\ Upload(i, c).data = Source(c)
  <1> DEFINE parsed == ParseUpload(c)
             user == EffectiveUser(c)
             got  == IF parsed.data # NoFile THEN parsed ELSE FromUrl(c, parsed)
             art  == Prepared(i, c, user.user, got)
  <1>1. parsed.status = 200 /\ got.status = 200 /\ art.status = 200 /\ Upload(i, c) = art
    BY DEF Upload, Refuse
  <1>2. art.key[1] = i /\ art.data = got.data /\ ~(Size(got.data) > MaxSize)
    <2> HIDE DEF parsed, user, got
    <2> QED BY <1>1, PreparedTrue
  <1>3. CASE parsed.data # NoFile
    <2>1. got = parsed
      BY <1>3
    <2>2. parsed \in {ParseJson(c), ParseRaw(c), ParseMultipart(c)} /\ (parsed = ParseJson(c) \/ c.form # "json")
      BY <1>1 DEF ParseUpload, Refuse
    <2>3. parsed # ParseJson(c)
      <3>1. ParseJson(c).status = 200 => ParseJson(c).data = NoFile
        BY Parsed
      <3> HIDE DEF parsed, user, got, art
      <3> QED BY <1>1, <1>3, <3>1
    <2>4. parsed.data \in {c.file, ReadUpload(c.file)}
      <3>1. ParseRaw(c).status = 200 => ParseRaw(c).data = c.file
        BY Parsed
      <3>2. ParseMultipart(c).status = 200 => ParseMultipart(c).data \in {NoFile, ReadUpload(c.file)}
        BY Parsed
      <3> HIDE DEF parsed, user, got, art
      <3> QED BY <1>1, <1>3, <2>2, <2>3, <3>1, <3>2
    <2>5. parsed.data = c.file /\ c.file # NoFile
      <3> HIDE DEF parsed, user, art
      <3>1. ~(Size(parsed.data) > MaxSize)
        BY <1>2, <2>1
      <3>2. CASE parsed.data = c.file
        BY <3>2, <1>3
      <3>3. CASE parsed.data = ReadUpload(c.file)
        BY <3>1, <3>3, <1>3, ReadWhole
      <3> QED BY <2>4, <3>2, <3>3
    <2> HIDE DEF parsed, user, art
    <2> QED BY <1>1, <1>2, <2>1, <2>5 DEF Source
  <1>4. CASE parsed.data = NoFile
    <2>1. got = FromUrl(c, parsed)
      BY <1>4
    <2>2. c.file = NoFile
      <3>1. parsed \in {ParseJson(c), ParseRaw(c), ParseMultipart(c)} /\ (parsed = ParseJson(c) \/ c.form # "json")
        BY <1>1 DEF ParseUpload, Refuse
      <3>2. c.form # "json" => c.file = NoFile \/ parsed.data \in {c.file, ReadUpload(c.file)}
        <4>1. ParseRaw(c).status = 200 => ParseRaw(c).data = c.file
          BY Parsed
        <4>2. ParseMultipart(c).status = 200 => c.file = NoFile \/ ParseMultipart(c).data = ReadUpload(c.file)
          BY Parsed
        <4>3. c.form # "json" => parsed # ParseJson(c) \/ parsed \in {ParseRaw(c), ParseMultipart(c)}
          BY <1>1 DEF ParseUpload, Refuse
        <4> HIDE DEF parsed, user, got, art
        <4> QED BY <1>1, <3>1, <4>1, <4>2, <4>3
      <3> HIDE DEF parsed, user, art, got
      <3> QED BY <1>4, <3>2, ReadWhole
    <2>3. got.data = FetchUrl(c.url).data /\ FetchUrl(c.url).status = 200
      <3> HIDE DEF parsed, user, art
      <3> QED BY <1>1, <2>1 DEF FromUrl, Read
    <2>4. FetchUrl(c.url).data = Sites[c.url].data
      <3>1. FetchUrl(c.url) = Download(Sites[c.url])
        BY <2>3 DEF FetchUrl, Refuse
      <3> QED BY <2>3, <3>1 DEF Download, Refuse, Read
    <2> HIDE DEF parsed, user, art, got
    <2> QED BY <1>1, <1>2, <2>2, <2>3, <2>4 DEF Source
  <1> QED BY <1>3, <1>4

\* What a step does to the request i, and to nobody else's.
Moves(i, pc, art) ==
    /\ DOMAIN up' = Uploads /\ \A o \in Uploads : up'[o] = [f \in UpFields |-> up'[o][f]]
    /\ \A o \in Uploads \ {i} : up'[o] = up[o]
    /\ up'[i].pc = pc /\ up'[i].art = art

LEMMA RequestMoves ==
    ASSUME FiledTypes, NEW i \in Uploads
    PROVE  /\ \A pc : Go(i, pc) => Moves(i, pc, up[i].art)
           /\ \A s : Answer(i, s) => Moves(i, "answered", up[i].art)
           /\ \A art : up' = [up EXCEPT ![i].pc = "put", ![i].art = art] => Moves(i, "put", art)
           /\ \A back : up' = [up EXCEPT ![i].back = back] => Moves(i, up[i].pc, up[i].art)
  <1>1. DOMAIN up = Uploads /\ \A o \in Uploads : up[o] = [f \in UpFields |-> up[o][f]]
    BY DEF FiledTypes
  <1>2. ASSUME NEW pc, Go(i, pc) PROVE Moves(i, pc, up[i].art)
    BY <1>1, <1>2 DEF Go, Moves, UpFields
  <1>3. ASSUME NEW s, Answer(i, s) PROVE Moves(i, "answered", up[i].art)
    BY <1>1, <1>3 DEF Answer, Moves, UpFields
  <1>4. ASSUME NEW art, up' = [up EXCEPT ![i].pc = "put", ![i].art = art] PROVE Moves(i, "put", art)
    BY <1>1, <1>4 DEF Moves, UpFields
  <1>5. ASSUME NEW back, up' = [up EXCEPT ![i].back = back] PROVE Moves(i, up[i].pc, up[i].art)
    BY <1>1, <1>5 DEF Moves, UpFields
  <1> QED BY <1>2, <1>3, <1>4, <1>5

\* Rows and objects are added and none is taken away; a task begins once its row is there.
ObjectsGrow ==
    DOMAIN objects \subseteq DOMAIN objects' /\ \A key \in DOMAIN objects' : objects'[key] = Origin(key[1])
RowsGrow(i) ==
    /\ DOMAIN rows \subseteq DOMAIN rows' /\ DOMAIN rows' \subseteq DOMAIN rows \cup {i}
    /\ \A o \in DOMAIN rows' : /\ rows'[o] = [f \in RowFields |-> rows'[o][f]]
                               /\ rows'[o].key[1] = o /\ rows'[o].key \in DOMAIN objects'
TasksGrow(i) ==
    /\ DOMAIN running \subseteq DOMAIN running' /\ DOMAIN running' \subseteq DOMAIN running \cup {i}
    /\ \A o \in DOMAIN running' : running'[o] = [f \in JobFields |-> running'[o][f]]

\* So a step of a request keeps what is filed, if it stores only what its upload sent.
Filed == FiledTypes /\ StoredTruly
LEMMA FiledFrame ==
    ASSUME Filed, NEW i \in Uploads, NEW pc, NEW art, UNCHANGED case, Moves(i, pc, art),
           ObjectsGrow, RowsGrow(i), TasksGrow(i),
           pc \in Preparing => art.key[1] = i /\ art.data = Origin(i),
           pc \in Storing => art.key \in DOMAIN objects',
           pc \in {"delay", "mark"} => i \in DOMAIN rows',
           i \in DOMAIN running' => i \in DOMAIN rows' /\ pc \in {"mark", "answered"}
    PROVE  Filed'
  <1>1. Uploads' = Uploads /\ \A o : Origin(o)' = Origin(o)
    BY DEF Uploads, Origin, Source
  <1>2. FiledTypes'
    <2>1. case' \in Cases /\ DOMAIN up' = Uploads /\ \A o \in Uploads : up'[o] = [f \in UpFields |-> up'[o][f]]
      BY DEF Filed, FiledTypes, Moves
    <2>2. DOMAIN rows' \subseteq Uploads /\ \A o \in DOMAIN rows' : rows'[o] = [f \in RowFields |-> rows'[o][f]]
      BY DEF Filed, FiledTypes, RowsGrow
    <2>3. /\ DOMAIN running' \subseteq DOMAIN rows'
          /\ \A o \in DOMAIN running' : running'[o] = [f \in JobFields |-> running'[o][f]]
      BY DEF Filed, FiledTypes, RowsGrow, TasksGrow
    <2>4. \A o \in Uploads : up'[o].pc \in {"delay", "mark"} => o \in DOMAIN rows'
      BY DEF Filed, FiledTypes, RowsGrow, Moves
    <2>5. \A o \in DOMAIN running' : up'[o].pc \in {"mark", "answered"}
      <3> SUFFICES ASSUME NEW o \in DOMAIN running', o # i PROVE up'[o].pc \in {"mark", "answered"}
        BY DEF Moves
      <3>1. o \in DOMAIN running /\ o \in Uploads
        BY DEF TasksGrow, Filed, FiledTypes
      <3> QED BY <3>1 DEF Filed, FiledTypes, Moves
    <2> QED BY <1>1, <2>1, <2>2, <2>3, <2>4, <2>5 DEF FiledTypes
  <1>3. StoredTruly'
    <2>1. \A key \in DOMAIN objects' : objects'[key] = Origin(key[1])
      BY DEF ObjectsGrow
    <2>2. ASSUME NEW o \in Uploads
          PROVE  /\ up'[o].pc \in Preparing => up'[o].art.key[1] = o /\ up'[o].art.data = Origin(o)
                 /\ up'[o].pc \in Storing => up'[o].art.key \in DOMAIN objects'
      <3>1. CASE o = i
        BY <3>1 DEF Moves
      <3>2. CASE o # i
        <4>1. up'[o] = up[o]
          BY <3>2 DEF Moves
        <4> QED BY <4>1 DEF Filed, StoredTruly, ObjectsGrow
      <3> QED BY <3>1, <3>2
    <2>3. \A o \in DOMAIN rows' : rows'[o].key[1] = o /\ rows'[o].key \in DOMAIN objects'
      BY DEF RowsGrow
    <2> QED BY <1>1, <2>1, <2>2, <2>3 DEF StoredTruly
  <1> QED BY <1>2, <1>3 DEF Filed

\* What is left alone grows too.
LEMMA LeftAlone ==
    ASSUME Filed, NEW i \in Uploads
    PROVE  /\ UNCHANGED objects => ObjectsGrow
           /\ UNCHANGED rows /\ ObjectsGrow => RowsGrow(i)
           /\ UNCHANGED running => TasksGrow(i)
  <1>1. UNCHANGED objects => ObjectsGrow
    BY DEF Filed, StoredTruly, ObjectsGrow
  <1>2. ASSUME UNCHANGED rows, ObjectsGrow PROVE RowsGrow(i)
    BY <1>2 DEF Filed, FiledTypes, StoredTruly, ObjectsGrow, RowsGrow
  <1>3. ASSUME UNCHANGED running PROVE TasksGrow(i)
    BY <1>3 DEF Filed, FiledTypes, TasksGrow
  <1> QED BY <1>1, <1>2, <1>3

\* An answer keeps what is filed.
LEMMA AnswerFiled ==
    ASSUME Filed, NEW i \in Uploads, NEW art, UNCHANGED case, Moves(i, "answered", art), ObjectsGrow, RowsGrow(i), UNCHANGED running
    PROVE  Filed'
  <1>1. i \in DOMAIN running' => i \in DOMAIN rows'
    BY DEF Filed, FiledTypes, RowsGrow
  <1> QED BY <1>1, FiledFrame, LeftAlone DEF Preparing, Storing

\* A key that is written gets what its upload sent.
LEMMA KeptGrows ==
    ASSUME Filed, NEW i \in Uploads, up[i].pc \in Preparing, Kept(i)
    PROVE  ObjectsGrow /\ up[i].art.key \in DOMAIN objects'
  <1> PICK key, data : key = up[i].art.key /\ data = up[i].art.data
    OBVIOUS
  <1>1. objects' = With(objects, key, data) /\ key[1] = i /\ data = Origin(i)
    BY DEF Filed, StoredTruly, Kept
  <1>2. /\ DOMAIN objects' = DOMAIN objects \cup {key} /\ objects'[key] = data
        /\ \A l \in DOMAIN objects \ {key} : objects'[l] = objects[l]
    BY <1>1 DEF With
  <1>3. \A l \in DOMAIN objects : objects[l] = Origin(l[1])
    BY DEF Filed, StoredTruly
  <1> QED BY <1>1, <1>2, <1>3 DEF ObjectsGrow

\* A row that is inserted is that of its original.
LEMMA InsertedGrows ==
    ASSUME Filed, NEW i \in Uploads, up[i].pc \in Storing, UNCHANGED objects, rows' = With(rows, i, Row(i))
    PROVE  RowsGrow(i) /\ i \in DOMAIN rows'
  <1> PICK row_ : row_ = Row(i)
    OBVIOUS
  <1>1. rows' = With(rows, i, row_)
    OBVIOUS
  <1>2. row_ = [f \in RowFields |-> row_[f]] /\ row_.key = up[i].art.key
    BY DEF Row, RowFields
  <1>3. row_.key[1] = i /\ row_.key \in DOMAIN objects'
    BY <1>2 DEF Filed, StoredTruly, Storing, Preparing
  <1>4. DOMAIN rows' = DOMAIN rows \cup {i} /\ rows'[i] = row_ /\ \A o \in DOMAIN rows \ {i} : rows'[o] = rows[o]
    BY <1>1 DEF With
  <1>5. \A o \in DOMAIN rows : /\ rows[o] = [f \in RowFields |-> rows[o][f]]
                               /\ rows[o].key[1] = o /\ rows[o].key \in DOMAIN objects'
    BY DEF Filed, FiledTypes, StoredTruly
  <1> QED BY <1>2, <1>3, <1>4, <1>5 DEF RowsGrow

LEMMA ArriveFiled ==
    ASSUME Filed, NEW i \in Uploads, Arrive(i) PROVE Filed'
  <1> PICK c, a : c = case.uploads[i] /\ a = Upload(i, c)
    OBVIOUS
  <1>1. /\ Stands(i, "sent") /\ UNCHANGED <<case, objects, rows, running>>
        /\ IF a.status # 200 THEN Answer(i, a.status) ELSE up' = [up EXCEPT ![i].pc = "put", ![i].art = a]
    BY DEF Arrive, stores, work
  <1>2. ObjectsGrow /\ RowsGrow(i) /\ TasksGrow(i)
    BY <1>1, LeftAlone
  <1>3. CASE a.status # 200
    BY <1>1, <1>2, <1>3, RequestMoves, AnswerFiled DEF Filed
  <1>4. CASE a.status = 200
    <2>1. IsDocument(c.file) /\ (c.form = "json" => c.file = NoFile)
      BY CasesAssumption DEF Filed, FiledTypes, Uploads, NoFile, None
    <2>2. a.key[1] = i /\ a.data = Origin(i)
      BY <1>4, <2>1, UploadTrue DEF Origin
    <2>3. Moves(i, "put", a)
      BY <1>1, <1>4, RequestMoves DEF Filed
    <2>4. i \notin DOMAIN running'
      BY <1>1 DEF Filed, FiledTypes, Stands
    <2> QED BY <1>1, <1>2, <2>2, <2>3, <2>4, FiledFrame DEF Storing
  <1> QED BY <1>3, <1>4

LEMMA WriteLocalFiled ==
    ASSUME Filed, NEW i \in Uploads, WriteLocal(i) PROVE Filed'
  <1>1. Stands(i, "put") /\ UNCHANGED <<case, objects, rows, running>> /\ (Go(i, "place") \/ Answer(i, 503))
    BY DEF WriteLocal, work
  <1>2. ObjectsGrow /\ RowsGrow(i) /\ TasksGrow(i)
    BY <1>1, LeftAlone
  <1>3. CASE Go(i, "place")
    <2>1. up[i].art.key[1] = i /\ up[i].art.data = Origin(i) /\ i \notin DOMAIN running'
      BY <1>1 DEF Filed, FiledTypes, StoredTruly, Stands, Preparing
    <2> QED BY <1>1, <1>2, <1>3, <2>1, RequestMoves, FiledFrame DEF Storing, Filed
  <1>4. CASE Answer(i, 503)
    BY <1>1, <1>2, <1>4, RequestMoves, AnswerFiled DEF Filed
  <1> QED BY <1>1, <1>3, <1>4

\* Both stores: the original is kept and the row comes next, or the answer is an error.
LEMMA KeepsFiled ==
    ASSUME Filed, NEW i \in Uploads, up[i].pc \in {"put", "place"}, UNCHANGED <<case, rows, running>>,
           Kept(i) \/ UNCHANGED objects, (Go(i, "row") /\ Kept(i)) \/ Answer(i, 503)
    PROVE  Filed'
  <1>1. up[i].art.key[1] = i /\ up[i].art.data = Origin(i) /\ i \notin DOMAIN running'
    BY DEF Filed, FiledTypes, StoredTruly, Preparing
  <1>2. ObjectsGrow /\ (Kept(i) => up[i].art.key \in DOMAIN objects')
    BY KeptGrows, LeftAlone DEF Preparing
  <1>3. RowsGrow(i) /\ TasksGrow(i)
    BY <1>2, LeftAlone
  <1>4. CASE Go(i, "row") /\ Kept(i)
    BY <1>1, <1>2, <1>3, <1>4, RequestMoves, FiledFrame DEF Filed
  <1>5. CASE Answer(i, 503)
    BY <1>2, <1>3, <1>5, RequestMoves, AnswerFiled DEF Filed
  <1> QED BY <1>4, <1>5

LEMMA InsertRowFiled ==
    ASSUME Filed, NEW i \in Uploads, InsertRow(i) PROVE Filed'
  <1>1. Stands(i, "row") /\ UNCHANGED <<case, objects, rows, running>> /\ (Go(i, "commit") \/ Answer(i, 500))
    BY DEF InsertRow, stores, work
  <1>2. ObjectsGrow /\ RowsGrow(i) /\ TasksGrow(i)
    BY <1>1, LeftAlone
  <1>3. CASE Go(i, "commit")
    <2>1. up[i].art.key[1] = i /\ up[i].art.data = Origin(i) /\ i \notin DOMAIN running' /\ up[i].art.key \in DOMAIN objects'
      BY <1>1 DEF Filed, FiledTypes, StoredTruly, Stands, Preparing, Storing
    <2> QED BY <1>1, <1>2, <1>3, <2>1, RequestMoves, FiledFrame DEF Filed
  <1>4. CASE Answer(i, 500)
    BY <1>1, <1>2, <1>4, RequestMoves, AnswerFiled DEF Filed
  <1> QED BY <1>1, <1>3, <1>4

LEMMA CommitRowFiled ==
    ASSUME Filed, NEW i \in Uploads, CommitRow(i) PROVE Filed'
  <1>1. /\ Stands(i, "commit") /\ UNCHANGED <<case, objects, running>>
        /\ (Go(i, "delay") /\ rows' = With(rows, i, Row(i))) \/ Answer(i, 500)
        /\ UNCHANGED rows \/ rows' = With(rows, i, Row(i))
    BY DEF CommitRow, stores, work
  <1>2. ObjectsGrow /\ TasksGrow(i)
    BY <1>1, LeftAlone
  <1>3. RowsGrow(i) /\ (rows' = With(rows, i, Row(i)) => i \in DOMAIN rows')
    BY <1>1, <1>2, LeftAlone, InsertedGrows DEF Stands, Storing
  <1>4. CASE Go(i, "delay") /\ rows' = With(rows, i, Row(i))
    <2>1. up[i].art.key[1] = i /\ up[i].art.data = Origin(i) /\ i \notin DOMAIN running' /\ up[i].art.key \in DOMAIN objects'
      BY <1>1 DEF Filed, FiledTypes, StoredTruly, Stands, Preparing, Storing
    <2> QED BY <1>1, <1>2, <1>3, <1>4, <2>1, RequestMoves, FiledFrame DEF Filed
  <1>5. CASE Answer(i, 500)
    BY <1>1, <1>2, <1>3, <1>5, RequestMoves, AnswerFiled DEF Filed
  <1> QED BY <1>1, <1>4, <1>5

LEMMA DelayFiled ==
    ASSUME Filed, NEW i \in Uploads, Delay(i) PROVE Filed'
  <1>1. /\ Stands(i, "delay") /\ UNCHANGED <<case, objects, rows>>
        /\ (Go(i, "mark") /\ running' = With(running, i, Queued)) \/ (Answer(i, 500) /\ UNCHANGED running)
    BY DEF Delay, stores
  <1>2. ObjectsGrow /\ RowsGrow(i) /\ i \in DOMAIN rows
    BY <1>1, LeftAlone DEF Filed, FiledTypes, Stands
  <1>3. CASE Go(i, "mark") /\ running' = With(running, i, Queued)
    <2>1. up[i].art.key[1] = i /\ up[i].art.data = Origin(i) /\ up[i].art.key \in DOMAIN objects'
      BY <1>1 DEF Filed, FiledTypes, StoredTruly, Stands, Preparing, Storing
    <2>2. Queued = [f \in JobFields |-> Queued[f]]
      BY DEF Queued, JobFields
    <2>3. TasksGrow(i)
      BY <1>3, <2>2 DEF With, Filed, FiledTypes, TasksGrow
    <2> QED BY <1>1, <1>2, <1>3, <2>1, <2>3, RequestMoves, FiledFrame DEF Filed
  <1>4. CASE Answer(i, 500) /\ UNCHANGED running
    BY <1>1, <1>2, <1>4, RequestMoves, AnswerFiled DEF Filed
  <1> QED BY <1>1, <1>3, <1>4

LEMMA MarkQueuedFiled ==
    ASSUME Filed, NEW i \in Uploads, MarkQueued(i) PROVE Filed'
  <1>1. /\ Stands(i, "mark") /\ UNCHANGED <<case, objects, running>> /\ \E s : Answer(i, s)
        /\ UNCHANGED rows \/ rows' = [rows EXCEPT ![i].queued = TRUE]
    BY DEF MarkQueued, stores, work
  <1>2. ObjectsGrow
    BY <1>1, LeftAlone
  <1>3. RowsGrow(i)
    <2>1. \A o \in DOMAIN rows : /\ rows[o] = [f \in RowFields |-> rows[o][f]]
                                 /\ rows[o].key[1] = o /\ rows[o].key \in DOMAIN objects'
      BY <1>1 DEF Filed, FiledTypes, StoredTruly
    <2>2. CASE rows' = [rows EXCEPT ![i].queued = TRUE]
      <3>1. DOMAIN rows' = DOMAIN rows /\ \A o \in DOMAIN rows \ {i} : rows'[o] = rows[o]
        BY <2>2
      <3>2. i \in DOMAIN rows => rows'[i] = [rows[i] EXCEPT !.queued = TRUE]
        BY <2>2
      <3>3. \A r : r = [f \in RowFields |-> r[f]] =>
              /\ [r EXCEPT !.queued = TRUE] = [f \in RowFields |-> [r EXCEPT !.queued = TRUE][f]]
              /\ [r EXCEPT !.queued = TRUE].key = r.key
        BY DEF RowFields
      <3>4. i \in DOMAIN rows => rows'[i] = [f \in RowFields |-> rows'[i][f]] /\ rows'[i].key = rows[i].key
        BY <2>1, <3>2, <3>3
      <3> QED BY <1>1, <2>1, <3>1, <3>4 DEF RowsGrow
    <2> QED BY <1>1, <1>2, <2>2, LeftAlone
  <1> QED BY <1>1, <1>2, <1>3, RequestMoves, AnswerFiled DEF Filed

LEMMA ApiDiesFiled ==
    ASSUME Filed, NEW i \in Uploads, ApiDies(i) PROVE Filed'
  <1>1. UNCHANGED <<case, objects, rows, running>> /\ Answer(i, NoAnswer)
    BY DEF ApiDies, stores, work
  <1> QED BY <1>1, LeftAlone, RequestMoves, AnswerFiled DEF Filed

LEMMA LookBackFiled ==
    ASSUME Filed, NEW i \in Uploads, LookBack(i) PROVE Filed'
  <1> PICK back : up' = [up EXCEPT ![i].back = back]
    <2> DEFINE seen == IF i \in ListArtifacts(case.uploads[i]) THEN GetArtifact(case.uploads[i], i) ELSE 404
    <2>1. up' = [up EXCEPT ![i].back = seen]
      BY DEF LookBack
    <2> HIDE DEF seen
    <2> QED BY <2>1
  <1>1. UNCHANGED <<case, objects, rows, running>> /\ up[i].pc = "answered"
    BY DEF LookBack, stores, work, Stands
  <1> QED BY <1>1, LeftAlone, RequestMoves, AnswerFiled DEF Filed

-----------------------------------------------------------------------------
\* What a step of a task does to it, and to no other.
TaskMoves(i) ==
    /\ DOMAIN running' = DOMAIN running /\ \A o \in DOMAIN running : running'[o] = [f \in JobFields |-> running'[o][f]]
    /\ \A o \in DOMAIN running \ {i} : running'[o] = running[o]

LEMMA TaskStepMoves ==
    ASSUME Filed, NEW i \in DOMAIN running, Task(i) \/ TaskFails(i) \/ WorkerDies(i)
    PROVE  TaskMoves(i) /\ UNCHANGED <<case, up, objects, rows>>
  <1>1. UNCHANGED <<case, up, objects, rows>>
    BY DEF Task, Begin, Look, Insert, Deadlock, Commit, AskVectors, TaskFails, WorkerDies, NotUpload, stores
  <1>2. \A o \in DOMAIN running : running[o] = [f \in JobFields |-> running[o][f]]
    BY DEF Filed, FiledTypes
  <1>3. ASSUME NEW j, j = [f \in JobFields |-> j[f]], running' = [running EXCEPT ![i] = j] PROVE TaskMoves(i)
    BY <1>2, <1>3 DEF TaskMoves
  <1>4. Retry(i) => TaskMoves(i)
    <2>1. Again(running[i]) = [f \in JobFields |-> Again(running[i])[f]]
      BY <1>2 DEF Again, GivenUp, Queued, JobFields
    <2> QED BY <1>3, <2>1 DEF Retry
  <1>5. \A pc : Step(i, pc) => TaskMoves(i)
    BY <1>2 DEF Step, TaskMoves, JobFields
  <1>6. Begin(i) => TaskMoves(i)
    BY <1>2, <1>5 DEF Begin, TaskMoves, JobFields
  <1>7. Look(i) => TaskMoves(i)
    BY <1>2, <1>5 DEF Look, TaskMoves, JobFields
  <1>8. Insert(i) => TaskMoves(i)
    BY <1>2, <1>4 DEF Insert, TaskMoves, JobFields
  <1>9. Commit(i) => TaskMoves(i)
    BY <1>5 DEF Commit
  <1>10. AskVectors(i) => TaskMoves(i)
    BY <1>2, ZenonT(60) DEF AskVectors, TaskMoves, JobFields
  <1>11. WorkerDies(i) => TaskMoves(i)
    <2>1. Unacked(running[i]) = [f \in JobFields |-> Unacked(running[i])[f]]
      BY DEF Unacked, Queued, JobFields
    <2> QED BY <1>3, <2>1 DEF WorkerDies
  <1>12. Deadlock(i) \/ TaskFails(i) => TaskMoves(i)
    BY <1>4 DEF Deadlock, TaskFails
  <1> QED BY <1>1, <1>6, <1>7, <1>8, <1>9, <1>10, <1>11, <1>12 DEF Task

LEMMA TaskFiled ==
    ASSUME Filed, NEW i \in DOMAIN running, Task(i) \/ TaskFails(i) \/ WorkerDies(i) PROVE Filed'
  <1>1. TaskMoves(i) /\ UNCHANGED <<case, up, objects, rows>>
    BY TaskStepMoves
  <1>2. Uploads' = Uploads /\ \A o : Origin(o)' = Origin(o)
    BY <1>1 DEF Uploads, Origin, Source
  <1>3. FiledTypes'
    BY <1>1, <1>2 DEF Filed, FiledTypes, TaskMoves
  <1>4. StoredTruly'
    BY <1>1, <1>2 DEF Filed, StoredTruly
  <1> QED BY <1>3, <1>4 DEF Filed

LEMMA FiledBegins == ArtifactsInit => Filed
  <1> SUFFICES ASSUME ArtifactsInit PROVE Filed
    OBVIOUS
  <1>1. DOMAIN objects = {} /\ DOMAIN rows = {} /\ DOMAIN running = {} /\ case \in Cases
    BY DEF ArtifactsInit
  <1>2. DOMAIN up = Uploads /\ \A i \in Uploads : up[i] = [f \in UpFields |-> up[i][f]] /\ up[i].pc = "sent"
    BY DEF ArtifactsInit, Idle, UpFields
  <1> QED BY <1>1, <1>2 DEF Filed, FiledTypes, StoredTruly, Preparing, Storing

LEMMA FiledSteps == Filed /\ [ArtifactsNext]_artifactVars => Filed'
  <1> SUFFICES ASSUME Filed, [ArtifactsNext]_artifactVars PROVE Filed'
    OBVIOUS
  <1>1. CASE UNCHANGED artifactVars
    <2>1. UNCHANGED <<case, up, objects, rows, running>>
      BY <1>1 DEF artifactVars, stores, work
    <2>2. Uploads' = Uploads /\ \A o : Origin(o)' = Origin(o)
      BY <2>1 DEF Uploads, Origin, Source
    <2> QED BY <2>1, <2>2 DEF Filed, FiledTypes, StoredTruly
  <1>2. ASSUME NEW i \in Uploads,
               \/ Arrive(i) \/ WriteLocal(i) \/ PlaceLocal(i) \/ PutObject(i) \/ InsertRow(i) \/ CommitRow(i)
               \/ Delay(i) \/ MarkQueued(i) \/ ApiDies(i) \/ LookBack(i)
        PROVE  Filed'
    <2>1. PlaceLocal(i) \/ PutObject(i) => Filed'
      <3> SUFFICES ASSUME PlaceLocal(i) \/ PutObject(i) PROVE Filed'
        OBVIOUS
      <3>1. /\ up[i].pc \in {"put", "place"} /\ UNCHANGED <<case, rows, running>>
            /\ (Kept(i) \/ UNCHANGED objects) /\ ((Go(i, "row") /\ Kept(i)) \/ Answer(i, 503))
        BY DEF PlaceLocal, PutObject, Stands, work
      <3> QED BY <3>1, KeepsFiled
    <2> QED BY <1>2, <2>1, ArriveFiled, WriteLocalFiled, InsertRowFiled, CommitRowFiled, DelayFiled, MarkQueuedFiled,
               ApiDiesFiled, LookBackFiled
  <1>3. ASSUME NEW i \in DOMAIN running, Task(i) \/ TaskFails(i) \/ WorkerDies(i) PROVE Filed'
    BY <1>3, TaskFiled
  <1> QED BY <1>1, <1>2, <1>3 DEF ArtifactsNext, Working

\* For any uploads, in whatever form they come, and whatever fails on the way: a row's original is
\* in the store, and it is every byte of what was sent or found, never a part of it that was cut off
\* at the most that may be read (services/artifacts.py:746, api/routes/artifacts.py:187).
THEOREM OriginalsKept == ArtifactsSpec => []OriginalKept
  <1>1. Filed => OriginalKept
    BY DEF Filed, FiledTypes, StoredTruly, OriginalKept, Origin
  <1> QED BY <1>1, FiledBegins, FiledSteps, PTL DEF ArtifactsSpec

-----------------------------------------------------------------------------
\* The chunks of a row depend on what was read from its document alone, a task's slots on its chunks.
LEMMA CutStays ==
    ASSUME NEW i, rows'[i].read = rows[i].read PROVE CutOf(i)' = CutOf(i)
  BY DEF CutOf, Worth

LEMMA SlotsStay ==
    ASSUME NEW i, rows'[i].user = rows[i].user, running'[i].chunks = running[i].chunks
    PROVE  Slots(i)' = Slots(i) /\ \A k : Slot(i, k)' = Slot(i, k)
  BY DEF Slots, Slot, ChunksOf

LEMMA ThroughStays ==
    ASSUME NEW i, rows'[i].user = rows[i].user, running'[i].chunks = running[i].chunks, running'[i].left = running[i].left
    PROVE  Through(i)' = Through(i)
  BY DEF Through, Slot, ChunksOf

\* A task stays true while its chunks stay and more is remembered.
LEMMA TaskStays ==
    ASSUME NEW i \in DOMAIN running, TaskTrue(i), memories \subseteq memories', running'[i] = running[i],
           rows'[i].user = rows[i].user, rows'[i].read = rows[i].read
    PROVE  TaskTrue(i)' /\ Slots(i)' = Slots(i)
  <1>1. CutOf(i)' = CutOf(i) /\ Slots(i)' = Slots(i) /\ Through(i)' = Through(i)
    BY CutStays, SlotsStay, ThroughStays
  <1> QED BY <1>1 DEF TaskTrue, ChunksOf

\* What one task does keeps them all true and every document whole, if the task itself stays true
\* and commits nothing but all of its slots.
LEMMA OneTask ==
    ASSUME TasksTrue, NeverPart, NEW i \in DOMAIN running, TaskMoves(i), UNCHANGED rows, memories \subseteq memories',
           TaskTrue(i)', running[i].chunks \in {<<>>, running'[i].chunks},
           \A s \in memories' \ memories : s \in Slots(i)' /\ Slots(i)' \subseteq memories'
    PROVE  TasksTrue' /\ NeverPart'
  <1>1. \A o \in DOMAIN running \ {i} : TaskTrue(o)' /\ Slots(o)' = Slots(o)
    BY TaskStays DEF TasksTrue, TaskMoves
  <1>2. TasksTrue'
    BY <1>1 DEF TasksTrue, TaskMoves
  <1>3. \A s : s \in Slots(i) => Slots(i)' = Slots(i)
    <2>1. running[i].chunks = <<>> => Slots(i) = {}
      BY DEF Slots, ChunksOf
    <2>2. running'[i].chunks = running[i].chunks => Slots(i)' = Slots(i)
      BY SlotsStay
    <2> QED BY <2>1, <2>2
  <1>4. ASSUME NEW s \in memories' PROVE \E o \in DOMAIN running' : s \in Slots(o)' /\ Slots(o)' \subseteq memories'
    <2>1. DOMAIN running' = DOMAIN running
      BY DEF TaskMoves
    <2>2. CASE s \in memories
      <3>1. PICK o \in DOMAIN running : s \in Slots(o) /\ Slots(o) \subseteq memories
        BY <2>2 DEF NeverPart
      <3>2. Slots(o)' = Slots(o)
        BY <1>1, <1>3, <3>1
      <3> QED BY <2>1, <3>1, <3>2
    <2>3. CASE s \notin memories
      BY <1>4, <2>1, <2>3
    <2> QED BY <2>2, <2>3
  <1>5. NeverPart'
    BY <1>4 DEF NeverPart
  <1> QED BY <1>2, <1>5

Whole == Filed /\ TasksTrue /\ NeverPart

\* A task that stops, or is sent again, holds nothing.
LEMMA StopTrue ==
    ASSUME Whole, NEW i \in DOMAIN running, TaskMoves(i), UNCHANGED <<rows, memories>>,
           running'[i].pc \in {"queued", "failed", "done"}, running'[i].chunks = running[i].chunks, running'[i].held = {},
           running'[i].left \in {{}, running[i].left}
    PROVE  TasksTrue' /\ NeverPart'
  <1>1. TaskTrue(i) /\ CutOf(i)' = CutOf(i) /\ ChunksOf(i)' = ChunksOf(i)
    BY CutStays DEF Whole, TasksTrue, ChunksOf
  <1>2. TaskTrue(i)'
    BY <1>1 DEF TaskTrue, ChunksOf
  <1> QED BY <1>2, OneTask DEF Whole

LEMMA RetryTrue ==
    ASSUME Whole, NEW i \in DOMAIN running, Retry(i) \/ running' = [running EXCEPT ![i] = Unacked(@)],
           TaskMoves(i), UNCHANGED <<rows, memories>>
    PROVE  TasksTrue' /\ NeverPart'
  <1>0. running[i] = [f \in JobFields |-> running[i][f]]
    BY DEF Whole, Filed, FiledTypes
  <1>1. running'[i] \in {Again(running[i]), Unacked(running[i])}
    BY DEF Retry
  <1>2. \A j \in {Again(running[i]), Unacked(running[i])} :
            /\ j.pc \in {"queued", "failed"} /\ j.chunks = running[i].chunks /\ j.held = {}
            /\ j.left \in {{}, running[i].left}
    BY <1>0 DEF Again, Unacked, GivenUp, Queued, JobFields
  <1> QED BY <1>1, <1>2, StopTrue

LEMMA BeginTrue ==
    ASSUME Whole, NEW i \in DOMAIN running, Begin(i), TaskMoves(i) PROVE TasksTrue' /\ NeverPart'
  <1>0. TaskTrue(i) /\ running[i] = [f \in JobFields |-> running[i][f]] /\ i \in DOMAIN rows
    BY DEF Whole, Filed, FiledTypes, TasksTrue
  <1>1. UNCHANGED <<rows, memories>>
    BY DEF Begin, NotUpload
  <1>2. PICK cut : /\ cut = CutOf(i)
                   /\ running' = [running EXCEPT ![i].pc = "look", ![i].chunks = cut, ![i].left = DOMAIN cut]
    BY <1>0 DEF Begin, CutOf
  <1>3. running'[i].pc = "look" /\ running'[i].chunks = cut /\ running'[i].left = DOMAIN cut /\ running'[i].held = running[i].held
    BY <1>0, <1>2 DEF JobFields
  <1>4. running[i].chunks \in {<<>>, cut}
    BY <1>0, <1>2 DEF TaskTrue
  <1>5. running[i].held \subseteq Slots(i)'
    <2>1. running[i].chunks = <<>> => Slots(i) = {}
      BY DEF Slots, ChunksOf
    <2>2. running[i].chunks = cut => Slots(i)' = Slots(i)
      BY <1>1, <1>3, SlotsStay
    <2> QED BY <1>0, <1>4, <2>1, <2>2 DEF TaskTrue
  <1>6. CutOf(i)' = cut /\ ChunksOf(i)' = cut /\ Through(i)' = {}
    BY <1>1, <1>2, <1>3, CutStays DEF ChunksOf, Through
  <1>7. TaskTrue(i)'
    BY <1>3, <1>5, <1>6 DEF TaskTrue
  <1> QED BY <1>1, <1>3, <1>4, <1>7, OneTask DEF Whole

\* A step of the loop over the chunks: at most the chunk k is got through, remembered or held.
LEMMA LoopTrue ==
    ASSUME Whole, NEW i \in DOMAIN running, TaskMoves(i), UNCHANGED <<rows, memories>>,
           running[i].pc \in {"look", "insert"}, NEW k \in running[i].left, running'[i].chunks = running[i].chunks,
           \/ running'[i].pc = "insert" /\ running'[i].k = k /\ running'[i].left = running[i].left
                /\ running'[i].held = running[i].held
           \/ /\ running'[i].pc = "look" /\ running'[i].left = running[i].left \ {k}
              /\ running'[i].held \in {running[i].held, running[i].held \cup {Slot(i, k)}}
              /\ Slot(i, k) \in memories \cup running'[i].held
    PROVE  TasksTrue' /\ NeverPart'
  <1>1. /\ TaskTrue(i) /\ CutOf(i)' = CutOf(i) /\ Slots(i)' = Slots(i) /\ ChunksOf(i)' = ChunksOf(i)
        /\ \A n : Slot(i, n)' = Slot(i, n)
    BY CutStays, SlotsStay DEF Whole, TasksTrue, ChunksOf
  <1>2. k \in DOMAIN ChunksOf(i) /\ Slot(i, k) \in Slots(i)
    BY <1>1 DEF TaskTrue, Slots
  <1>3. Through(i)' \subseteq Through(i) \cup {Slot(i, k)}
    BY <1>1 DEF Through
  <1>4. running'[i].left = running[i].left => Through(i)' = Through(i)
    BY <1>1 DEF Through
  <1>5. Through(i)' \subseteq memories' \cup running'[i].held
    BY <1>1, <1>3, <1>4 DEF TaskTrue
  <1>6. TaskTrue(i)'
    BY <1>1, <1>2, <1>5 DEF TaskTrue, ChunksOf
  <1> QED BY <1>6, OneTask DEF Whole

LEMMA LookTrue ==
    ASSUME Whole, NEW i \in DOMAIN running, Look(i), TaskMoves(i) PROVE TasksTrue' /\ NeverPart'
  <1>0. TaskTrue(i) /\ running[i] = [f \in JobFields |-> running[i][f]]
    BY DEF Whole, Filed, FiledTypes, TasksTrue
  <1>1. UNCHANGED <<rows, memories>> /\ running[i].pc = "look"
    BY DEF Look, NotUpload
  <1>2. CASE running[i].left = {}
    <2>1. running' = [running EXCEPT ![i].pc = "commit"]
      BY <1>2 DEF Look, Step
    <2>2. /\ running'[i].pc = "commit" /\ running'[i].chunks = running[i].chunks
          /\ running'[i].left = {} /\ running'[i].held = running[i].held
      BY <1>0, <1>2, <2>1 DEF JobFields
    <2>3. CutOf(i)' = CutOf(i) /\ Slots(i)' = Slots(i) /\ ChunksOf(i)' = ChunksOf(i)
      BY <1>1, <2>2, CutStays, SlotsStay DEF ChunksOf
    <2>4. Slots(i) = Through(i)
      BY <1>2 DEF Slots, Through
    <2>5. TaskTrue(i)'
      BY <1>0, <1>1, <2>2, <2>3, <2>4 DEF TaskTrue, ChunksOf
    <2> QED BY <1>1, <2>2, <2>5, OneTask DEF Whole
  <1>3. CASE running[i].left # {}
    <2>1. PICK k \in running[i].left :
            running' = IF Slot(i, k) \in memories \cup running[i].held THEN [running EXCEPT ![i].left = @ \ {k}]
                       ELSE [running EXCEPT ![i].pc = "insert", ![i].k = k]
      BY <1>3 DEF Look
    <2>2. CASE Slot(i, k) \in memories \cup running[i].held
      <3>1. /\ running'[i].pc = "look" /\ running'[i].left = running[i].left \ {k}
            /\ running'[i].held = running[i].held /\ running'[i].chunks = running[i].chunks
        BY <1>0, <1>1, <2>1, <2>2 DEF JobFields
      <3> QED BY <1>1, <2>2, <3>1, LoopTrue
    <2>3. CASE Slot(i, k) \notin memories \cup running[i].held
      <3>1. /\ running'[i].pc = "insert" /\ running'[i].k = k /\ running'[i].left = running[i].left
            /\ running'[i].held = running[i].held /\ running'[i].chunks = running[i].chunks
        BY <1>0, <1>1, <2>1, <2>3 DEF JobFields
      <3> QED BY <1>1, <3>1, LoopTrue
    <2> QED BY <2>2, <2>3
  <1> QED BY <1>2, <1>3

LEMMA InsertTrue ==
    ASSUME Whole, NEW i \in DOMAIN running, Insert(i), TaskMoves(i) PROVE TasksTrue' /\ NeverPart'
  <1>0. TaskTrue(i) /\ running[i] = [f \in JobFields |-> running[i][f]]
    BY DEF Whole, Filed, FiledTypes, TasksTrue
  <1>1. UNCHANGED <<rows, memories>> /\ running[i].pc = "insert"
    BY DEF Insert, NotUpload
  <1>2. CASE Retry(i)
    BY <1>1, <1>2, RetryTrue
  <1>3. CASE ~Retry(i)
    <2> PICK k, s : k = running[i].k /\ s = Slot(i, k)
      OBVIOUS
    <2>1. running' = [running EXCEPT ![i].pc = "look", ![i].left = @ \ {k}, ![i].held = @ \cup {s}]
      BY <1>3 DEF Insert
    <2>2. /\ running'[i].pc = "look" /\ running'[i].left = running[i].left \ {k}
          /\ running'[i].held = running[i].held \cup {s} /\ running'[i].chunks = running[i].chunks
      BY <1>0, <2>1 DEF JobFields
    <2>3. k \in running[i].left
      BY <1>0, <1>1 DEF TaskTrue
    <2> QED BY <1>1, <2>2, <2>3, LoopTrue
  <1> QED BY <1>2, <1>3

\* The commit: all of the document's slots are remembered or held, and what is held is remembered.
LEMMA CommitTrue ==
    ASSUME Whole, NEW i \in DOMAIN running, Commit(i), TaskMoves(i) PROVE TasksTrue' /\ NeverPart'
  <1>0. TaskTrue(i) /\ running[i] = [f \in JobFields |-> running[i][f]]
    BY DEF Whole, Filed, FiledTypes, TasksTrue
  <1>1. PICK pc \in {"done", "ask"} : running' = [running EXCEPT ![i].pc = pc]
    BY DEF Commit, Step
  <1>2. UNCHANGED rows /\ running[i].pc = "commit" /\ memories' = memories \cup running[i].held
    BY DEF Commit, NotUpload
  <1>3. /\ running'[i].pc = pc /\ running'[i].chunks = running[i].chunks
        /\ running'[i].left = running[i].left /\ running'[i].held = running[i].held
    BY <1>0, <1>1 DEF JobFields
  <1>4. CutOf(i)' = CutOf(i) /\ Slots(i)' = Slots(i) /\ ChunksOf(i)' = ChunksOf(i)
    BY <1>2, <1>3, CutStays, SlotsStay DEF ChunksOf
  <1>5. TaskTrue(i)'
    BY <1>0, <1>3, <1>4 DEF TaskTrue, ChunksOf
  <1>6. \A s \in memories' \ memories : s \in Slots(i)' /\ Slots(i)' \subseteq memories'
    BY <1>0, <1>2, <1>4 DEF TaskTrue
  <1> QED BY <1>2, <1>3, <1>5, <1>6, OneTask DEF Whole

LEMMA AskVectorsTrue ==
    ASSUME Whole, NEW i \in DOMAIN running, AskVectors(i), TaskMoves(i) PROVE TasksTrue' /\ NeverPart'
  <1>0. running[i] = [f \in JobFields |-> running[i][f]]
    BY DEF Whole, Filed, FiledTypes
  <1>1. UNCHANGED <<rows, memories>> /\ running' = [running EXCEPT ![i].pc = "done", ![i].held = {}]
    BY DEF AskVectors, NotUpload
  <1>2. /\ running'[i].pc = "done" /\ running'[i].chunks = running[i].chunks
        /\ running'[i].left = running[i].left /\ running'[i].held = {}
    BY <1>0, <1>1 DEF JobFields
  <1> QED BY <1>1, <1>2, StopTrue

LEMMA TaskWhole ==
    ASSUME Whole, NEW i \in DOMAIN running, Task(i) \/ TaskFails(i) \/ WorkerDies(i) PROVE Whole'
  <1>1. TaskMoves(i) /\ UNCHANGED rows /\ Filed'
    BY TaskStepMoves, TaskFiled DEF Whole
  <1>2. Deadlock(i) \/ TaskFails(i) \/ WorkerDies(i) => TasksTrue' /\ NeverPart'
    <2>1. Deadlock(i) \/ TaskFails(i) \/ WorkerDies(i) =>
            UNCHANGED memories /\ (Retry(i) \/ running' = [running EXCEPT ![i] = Unacked(@)])
      BY DEF Deadlock, TaskFails, WorkerDies
    <2> QED BY <1>1, <2>1, RetryTrue
  <1>3. TasksTrue' /\ NeverPart'
    BY <1>1, <1>2, BeginTrue, LookTrue, InsertTrue, CommitTrue, AskVectorsTrue DEF Task
  <1> QED BY <1>1, <1>3 DEF Whole

\* What a request does leaves every task as it is, but for a new one, which has no chunks yet.
LEMMA RequestTrue ==
    ASSUME Whole, UNCHANGED memories, DOMAIN running \subseteq DOMAIN running',
           \A o \in DOMAIN running :
                running'[o] = running[o] /\ rows'[o].user = rows[o].user /\ rows'[o].read = rows[o].read,
           \A o \in DOMAIN running' \ DOMAIN running : running'[o] = Queued
    PROVE  TasksTrue' /\ NeverPart'
  <1>1. \A o \in DOMAIN running : TaskTrue(o)' /\ Slots(o)' = Slots(o)
    BY TaskStays DEF Whole, TasksTrue
  <1>2. ASSUME NEW o \in DOMAIN running' \ DOMAIN running PROVE TaskTrue(o)'
    <2>1. /\ running'[o].pc = "queued" /\ running'[o].chunks = <<>> /\ running'[o].held = {} /\ running'[o].left = {}
      BY <1>2 DEF Queued
    <2> QED BY <2>1 DEF TaskTrue
  <1>3. TasksTrue'
    BY <1>1, <1>2 DEF TasksTrue
  <1>4. NeverPart'
    BY <1>1 DEF Whole, NeverPart
  <1> QED BY <1>3, <1>4

LEMMA RequestWhole ==
    ASSUME Whole, NEW i \in Uploads,
           \/ Arrive(i) \/ WriteLocal(i) \/ PlaceLocal(i) \/ PutObject(i) \/ InsertRow(i) \/ CommitRow(i)
           \/ Delay(i) \/ MarkQueued(i) \/ ApiDies(i) \/ LookBack(i)
    PROVE  TasksTrue' /\ NeverPart'
  <1>0. DOMAIN running \subseteq DOMAIN rows /\ \A o \in DOMAIN running : up[o].pc \in {"mark", "answered"}
    BY DEF Whole, Filed, FiledTypes
  <1>1. CASE UNCHANGED <<rows, running, memories>>
    BY <1>1, RequestTrue
  <1>2. CASE CommitRow(i) /\ rows' = With(rows, i, Row(i))
    <2>1. UNCHANGED <<running, memories>> /\ i \notin DOMAIN running
      BY <1>0, <1>2 DEF CommitRow, Stands, work
    <2>2. \A o \in DOMAIN rows \ {i} : rows'[o] = rows[o]
      BY <1>2 DEF With
    <2> QED BY <1>0, <2>1, <2>2, RequestTrue
  <1>3. CASE Delay(i) /\ running' = With(running, i, Queued)
    <2>1. UNCHANGED <<rows, memories>> /\ i \notin DOMAIN running
      BY <1>0, <1>3 DEF Delay, Stands
    <2>2. DOMAIN running' = DOMAIN running \cup {i} /\ running'[i] = Queued /\ \A o \in DOMAIN running \ {i} : running'[o] = running[o]
      BY <1>3 DEF With
    <2> QED BY <2>1, <2>2, RequestTrue
  <1>4. CASE MarkQueued(i) /\ rows' = [rows EXCEPT ![i].queued = TRUE]
    <2>1. UNCHANGED <<running, memories>>
      BY <1>4 DEF MarkQueued, work
    <2>2. \A o \in DOMAIN rows : rows[o] = [f \in RowFields |-> rows[o][f]]
      BY DEF Whole, Filed, FiledTypes
    <2>3. \A o \in DOMAIN rows : rows'[o].user = rows[o].user /\ rows'[o].read = rows[o].read
      BY <1>4, <2>2 DEF RowFields
    <2> QED BY <1>0, <2>1, <2>3, RequestTrue
  <1>5. Arrive(i) \/ WriteLocal(i) \/ PlaceLocal(i) \/ PutObject(i) \/ InsertRow(i) \/ ApiDies(i) \/ LookBack(i)
            => UNCHANGED <<rows, running, memories>>
    BY DEF Arrive, WriteLocal, PlaceLocal, PutObject, InsertRow, ApiDies, LookBack, work
  <1>6. CommitRow(i) => UNCHANGED <<rows, running, memories>> \/ rows' = With(rows, i, Row(i))
    BY DEF CommitRow, work
  <1>7. Delay(i) => UNCHANGED <<rows, running, memories>> \/ running' = With(running, i, Queued)
    BY DEF Delay
  <1>8. MarkQueued(i) => UNCHANGED <<rows, running, memories>> \/ rows' = [rows EXCEPT ![i].queued = TRUE]
    BY DEF MarkQueued, work
  <1> QED BY <1>1, <1>2, <1>3, <1>4, <1>5, <1>6, <1>7, <1>8

LEMMA WholeBegins == ArtifactsInit => Whole
  <1> SUFFICES ASSUME ArtifactsInit PROVE Whole
    OBVIOUS
  <1>1. DOMAIN running = {} /\ memories = {}
    BY DEF ArtifactsInit
  <1> QED BY <1>1, FiledBegins DEF Whole, TasksTrue, NeverPart

LEMMA WholeSteps == Whole /\ [ArtifactsNext]_artifactVars => Whole'
  <1> SUFFICES ASSUME Whole, [ArtifactsNext]_artifactVars PROVE Whole'
    OBVIOUS
  <1>0. Filed'
    BY FiledSteps DEF Whole
  <1>1. CASE UNCHANGED artifactVars
    <2>1. UNCHANGED <<rows, running, memories>>
      BY <1>1 DEF artifactVars, work
    <2> QED BY <1>0, <2>1, RequestTrue DEF Whole
  <1>2. CASE ArtifactsNext
    BY <1>0, <1>2, RequestWhole, TaskWhole DEF ArtifactsNext, Working, Whole
  <1> QED BY <1>1, <1>2

\* For any number of documents, with texts in common or not, and tasks that fail, are sent again and
\* wait for each other: whatever has been committed, some document's chunks are all remembered with
\* it; a document is never remembered in part (artifact_tasks.py:31, services/artifact_memory.py:49).
THEOREM DocumentsWhole == ArtifactsSpec => []NeverPart
  <1>1. Whole => NeverPart
    BY DEF Whole
  <1> QED BY <1>1, WholeBegins, WholeSteps, PTL DEF ArtifactsSpec
=============================================================================

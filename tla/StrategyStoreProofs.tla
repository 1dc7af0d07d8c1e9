------------------------ MODULE StrategyStoreProofs ------------------------
(* An edit of strategies.yaml that no other overlaps is atomic, and served  *)
(* once answered: for any strategies, switches and number of requests.      *)
EXTENDS StrategyStore, TLAPS

\* The functions and records that EXCEPT updates.
ShapeInv ==
    /\ editor = [e \in Editors |-> editor[e]]
    /\ last = [before |-> last.before, after |-> last.after, stage |-> last.stage]

Alone(e) == \A f \in Editors \ {e} : editor[f] = Idle

\* How far the one edit that runs has come, and what is on disk then.
Underway(e) ==
    \/ editor[e].step = "loaded" /\ editor[e].data = last.after /\ file = last.before
    \/ /\ editor[e].step = "opened" /\ editor[e].data = last.after /\ file = last.before
       /\ editor[e].handle = "tmp" /\ tmp = Partial
    \/ editor[e].step = "dumped" /\ file = last.before /\ tmp = last.after
    \/ editor[e].step = "saved" /\ file = last.after
    \/ editor[e].step = "reread" /\ file = last.after /\ editor[e].data = Load(last.after)

\* What the latest edit left once no request is running.
Settled ==
    /\ Quiet
    /\ last.stage \in {"ok", "failed", "cut"}
    /\ file \in {last.before, last.after}
    /\ last.stage = "ok" => file = last.after /\ router = Routes(Load(last.after))

IInv ==
    /\ ShapeInv
    /\ \/ last.stage = "raced"
       \/ Settled
       \/ last.stage = "running" /\ \E e \in Editors : Alone(e) /\ Underway(e)

\* The invariant holds initially.
LEMMA InitInv == Init => IInv
  BY DEF Init, IInv, ShapeInv, Settled, Quiet

\* Every step keeps the shape of the records.
LEMMA ShapeKept == ShapeInv /\ [Next]_vars => ShapeInv'
  <1> SUFFICES ASSUME ShapeInv, [Next]_vars PROVE ShapeInv'
    OBVIOUS
  <1>1. editor' = [e \in Editors |-> editor'[e]]
    BY DEF Next, Edit, Begin, OpenTmp, Dump, Replace, ReplaceFails, Reread, Swap, Restart,
           Become, vars, ShapeInv
  <1>2. last' = [before |-> last'.before, after |-> last'.after, stage |-> last'.stage]
    BY DEF Next, Edit, Begin, OpenTmp, Dump, Replace, ReplaceFails, Reread, Swap, Restart,
           Mark, Raced, vars, ShapeInv
  <1>3. QED
    BY <1>1, <1>2 DEF ShapeInv

\* Every file operation, reload and restart keeps the invariant.
LEMMA StepInv == IInv /\ [Next]_vars => IInv'
  <1> SUFFICES ASSUME IInv, [Next]_vars PROVE IInv'
    OBVIOUS
  <1>s. ShapeInv /\ ShapeInv'
    BY ShapeKept DEF IInv
  <1> DEFINE Fine == \/ last.stage = "raced"
                     \/ Settled
                     \/ last.stage = "running" /\ \E e \in Editors : Alone(e) /\ Underway(e)
  <1> SUFFICES Fine'
    BY <1>s DEF IInv
  \* A request that starts while another runs.
  <1>1. ASSUME NEW e \in Editors, Begin(e) \/ (Reread(e) /\ editor[e] = Idle), ~Quiet
        PROVE  Fine'
    <2>1. last' = Raced
      BY <1>1 DEF Begin, Reread, Idle
    <2>2. QED
      BY <2>1 DEF Raced
  \* One that starts alone.
  <1>2. ASSUME NEW e \in Editors, Begin(e), Quiet PROVE Fine'
    <2>1. PICK after \in Edited(Load(file)) :
             /\ editor' = [editor EXCEPT ![e] = [step |-> "loaded", data |-> after,
                                                 handle |-> "none"]]
             /\ last' = [before |-> file, after |-> after, stage |-> "running"]
             /\ UNCHANGED file
      BY <1>2 DEF Begin, Become
    <2>2. Alone(e)' /\ editor'[e] = [step |-> "loaded", data |-> after, handle |-> "none"]
      BY <1>2, <1>s, <2>1 DEF Quiet, Alone, ShapeInv
    <2>3. Underway(e)'
      BY <2>1, <2>2 DEF Underway
    <2>4. QED
      BY <2>1, <2>2, <2>3
  <1>3. ASSUME NEW e \in Editors, Reread(e), editor[e] = Idle, Quiet PROVE Fine'
    <2>1. /\ editor' = [editor EXCEPT ![e] = [step |-> "reread", data |-> Load(file),
                                              handle |-> "none"]]
          /\ last' = [before |-> file, after |-> file, stage |-> "running"]
          /\ UNCHANGED file
      BY <1>3 DEF Reread, Become, Idle
    <2>2. Alone(e)' /\ editor'[e] = [step |-> "reread", data |-> Load(file), handle |-> "none"]
      BY <1>3, <1>s, <2>1 DEF Quiet, Alone, ShapeInv
    <2>3. Underway(e)'
      BY <2>1, <2>2 DEF Underway
    <2>4. QED
      BY <2>1, <2>2, <2>3
  \* The further steps of a request.
  <1>4. ASSUME NEW e \in Editors, editor[e] # Idle,
               \/ OpenTmp(e) \/ Dump(e) \/ Replace(e) \/ ReplaceFails(e) \/ Reread(e) \/ Swap(e)
        PROVE  Fine'
    <2>1. CASE last.stage = "raced"
      <3>1. last' = last
        BY <1>4, <2>1 DEF OpenTmp, Dump, Replace, ReplaceFails, Reread, Swap, Mark
      <3>2. QED
        BY <2>1, <3>1
    <2>2. CASE last.stage # "raced"
      <3>1. last.stage = "running" /\ Alone(e) /\ Underway(e)
        BY <1>4, <2>2 DEF IInv, Settled, Quiet, Alone
      <3>2. CASE OpenTmp(e)
        <4>1. /\ editor'[e] = [step |-> "opened", data |-> last.after, handle |-> "tmp"]
              /\ Alone(e)' /\ UNCHANGED <<last, file>> /\ tmp' = Partial /\ file = last.before
          BY <3>1, <3>2, <1>s DEF OpenTmp, Become, Alone, Underway, ShapeInv
        <4>2. Underway(e)'
          BY <3>1, <4>1 DEF Underway
        <4>3. QED
          BY <3>1, <4>1, <4>2
      <3>3. CASE Dump(e)
        <4>1. /\ editor'[e] = [step |-> "dumped", data |-> last.after, handle |-> "none"]
              /\ Alone(e)' /\ UNCHANGED <<last, file>> /\ tmp' = last.after /\ file = last.before
          BY <3>1, <3>3, <1>s DEF Dump, Become, Alone, Underway, ShapeInv, Over
        <4>2. Underway(e)'
          BY <3>1, <4>1 DEF Underway
        <4>3. QED
          BY <3>1, <4>1, <4>2
      <3>4. CASE Replace(e)
        <4>1. editor'[e].step = "saved" /\ UNCHANGED last /\ file' = last.after
          BY <3>1, <3>4, <1>s DEF Replace, Underway, Idle
        <4>2. Alone(e)'
          BY <3>1, <3>4, <1>s DEF Replace, Alone, Relinked, Idle
        <4>3. QED
          BY <3>1, <4>1, <4>2 DEF Underway
      <3>5. CASE ReplaceFails(e)
        <4>1. last' = [last EXCEPT !.stage = "failed"] /\ UNCHANGED file /\ file = last.before
          BY <2>2, <3>1, <3>5 DEF ReplaceFails, Mark, Underway
        <4>2. Quiet'
          BY <3>1, <3>5, <1>s DEF ReplaceFails, Alone, Quiet, ShapeInv
        <4>3. QED
          BY <1>s, <4>1, <4>2 DEF Settled, ShapeInv
      <3>6. CASE Reread(e)
        <4>1. /\ editor'[e] = [step |-> "reread", data |-> Load(file), handle |-> "none"]
              /\ Alone(e)' /\ UNCHANGED <<last, file>> /\ file = last.after
          BY <1>4, <3>1, <3>6, <1>s DEF Reread, Become, Alone, Underway, ShapeInv
        <4>2. QED
          BY <3>1, <4>1 DEF Underway
      <3>7. CASE Swap(e)
        <4>1. /\ last' = [last EXCEPT !.stage = "ok"] /\ UNCHANGED file /\ file = last.after
              /\ router' = Routes(Load(last.after))
          BY <2>2, <3>1, <3>7 DEF Swap, Mark, Underway
        <4>2. Quiet'
          BY <3>1, <3>7, <1>s DEF Swap, Alone, Quiet, ShapeInv
        <4>3. QED
          BY <1>s, <4>1, <4>2 DEF Settled, ShapeInv
      <3>8. QED
        BY <1>4, <3>2, <3>3, <3>4, <3>5, <3>6, <3>7
    <2>3. QED
      BY <2>1, <2>2
  <1>5. CASE Restart
    <2>1. CASE last.stage = "raced"
      BY <1>5, <2>1 DEF Restart, Mark
    <2>2. CASE last.stage # "raced" /\ Quiet
      <3>1. Settled
        BY <2>2 DEF IInv, Quiet, Underway, Idle
      <3>2. last' = [last EXCEPT !.stage = last.stage] /\ UNCHANGED file
        BY <1>5, <2>2 DEF Restart, Mark
      <3>3. last' = last
        BY <1>s, <3>2 DEF ShapeInv
      <3>4. Quiet' /\ router' = Routes(Load(file))
        BY <1>5 DEF Restart, Quiet
      <3>5. QED
        BY <3>1, <3>2, <3>3, <3>4 DEF Settled
    <2>3. CASE last.stage # "raced" /\ ~Quiet
      <3>1. last' = [last EXCEPT !.stage = "cut"] /\ UNCHANGED file
        BY <1>5, <2>3 DEF Restart, Mark
      <3>2. file \in {last.before, last.after}
        BY <2>3 DEF IInv, Settled, Underway
      <3>3. Quiet'
        BY <1>5 DEF Restart, Quiet
      <3>4. QED
        BY <1>s, <3>1, <3>2, <3>3 DEF Settled, ShapeInv
    <2>4. QED
      BY <2>1, <2>2, <2>3
  <1>6. CASE UNCHANGED vars
    BY <1>6 DEF vars, IInv, Settled, Quiet, Alone, Underway
  <1>7. ASSUME NEW e \in Editors, Edit(e) PROVE Fine'
    <2>1. editor[e] = Idle => Begin(e) \/ Reread(e)
      BY <1>7 DEF Edit, OpenTmp, Dump, Replace, ReplaceFails, Swap, Idle
    <2>2. Begin(e) => editor[e] = Idle
      BY DEF Begin
    <2>3. QED
      BY <1>1, <1>2, <1>3, <1>4, <1>7, <2>1, <2>2 DEF Edit
  <1>8. QED
    BY <1>5, <1>6, <1>7 DEF Next

\* The strengthened invariant holds in every reachable state: what a request that is alone holds,
\* its open file included, is what its edit is to leave behind.
THEOREM Invariant == Spec => []IInv
  BY InitInv, StepInv, PTL DEF Spec

\* An edit nobody overlaps is on disk in whole or not at all, wherever the process dies.
THEOREM EditsAreAtomic == Spec => []EditIsAtomic
  <1>1. IInv => EditIsAtomic
    BY DEF IInv, Settled, Underway, EditIsAtomic
  <1>2. QED
    BY Invariant, <1>1, PTL

\* Once it was answered, disk and router both have it.
THEOREM AnswersAreServed == Spec => []AnsweredIsServed
  <1>1. IInv => AnsweredIsServed
    BY DEF IInv, Settled, AnsweredIsServed
  <1>2. QED
    BY Invariant, <1>1, PTL
============================================================================

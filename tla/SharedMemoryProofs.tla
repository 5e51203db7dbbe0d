--------------------------- MODULE SharedMemoryProofs ---------------------------
(***************************************************************************)
(* SameCalls for every number of ranks and of calls, if every call samples *)
(* (Sampled).  write_shm waits for no reader, so the invariant says how    *)
(* far apart the ranks can be: rank 0 leaves a call with its tokens, and   *)
(* so every rank within one call behind it; a rank that is one call behind *)
(* has its event set exactly when rank 0 has come to it.                   *)
(***************************************************************************)
EXTENDS SharedMemory, TLAPS

Number == 0..(MaxCalls + 1)
ZeroPlaces == {"create", "opening", "idle", "write", "set", "run", "leave", "exited"}
OtherPlaces == {"start", "opening", "wait", "clear", "run", "leave", "exited"}

TypeOK ==
  /\ pc \in [Rank -> ZeroPlaces \union OtherPlaces]
  /\ pc[0] \in ZeroPlaces /\ \A r \in Others : pc[r] \in OtherPlaces
  /\ segment \in {"none", "open", "unlinked"}
  /\ event \in [Others -> BOOLEAN] /\ target \in Others
  /\ current \in [Rank -> [method : {"none", "run", "run_mixed", "exit"},
                           samples : BOOLEAN, number : Number]]
  /\ came \in [Rank -> Nat]

(* How many collectives a rank has issued, with the barrier of __init__.   *)
Issued(r) ==
  IF pc[r] \in {"create", "start"} THEN 0
  ELSE IF pc[r] \in {"write", "set", "clear", "run"} THEN current[r].number
  ELSE current[r].number + 1

CameInOrder == \A r \in Rank : came[r] = Issued(r)

(* What the place of a rank says of the call it executes.                  *)
CallFits(r) ==
  /\ current[r].method = "none" <=> current[r].number = 0
  /\ pc[r] \in {"create", "start", "opening"} => current[r].number = 0
  /\ pc[r] \in {"write", "set", "clear", "run", "leave", "exited"} => current[r].number > 0
  /\ pc[r] \in {"idle", "wait"} => current[r].method # "exit"
  /\ pc[r] = "exited" => current[r].method = "exit"
  /\ current[r].number = MaxCalls + 1 => current[r].method = "exit"
  /\ current[r].method \in {"run", "run_mixed"} => current[r].samples

ZeroFits ==
  /\ pc[0] # "write" => buffer = {current[0]}
  /\ pc[0] # "set" => target = 1
  /\ segment = "open" <=> pc[0] \notin {"create", "exited"}

Signalled(r) == pc[0] \in {"run", "leave"} \/ (pc[0] = "set" /\ r < target)

(* A rank that has not read the call of rank 0 yet.                        *)
Behind(r) ==
  /\ current[r].number = current[0].number - 1 /\ current[r].method # "exit"
  /\ pc[0] \in {"write", "set", "run", "leave"} /\ pc[r] \in {"opening", "wait", "leave"}
  /\ event[r] <=> Signalled(r)

(* A rank that has.                                                        *)
Level(r) ==
  /\ current[r] = current[0] /\ (event[r] <=> pc[r] = "clear")
  /\ pc[0] # "write" /\ (pc[0] = "set" => r < target)
  /\ pc[0] = "idle" => pc[r] \in {"opening", "wait", "leave"}
  /\ pc[0] = "exited" => pc[r] \in {"leave", "exited"}
  /\ pc[r] = "wait" => pc[0] # "create"

(* The inductive invariant.                                                *)
IInv ==
  /\ TypeOK /\ CameInOrder /\ ZeroFits
  /\ \A r \in Rank : CallFits(r)
  /\ \A r \in Others : Behind(r) \/ Level(r)

---------------------------------------------------------------------------
(* The ranks, with what the provers need of them.                          *)
LEMMA RankFacts ==
  /\ NumRanks \in Nat /\ NumRanks > 1 /\ MaxCalls \in Nat
  /\ 0 \in Rank /\ 0 \notin Others /\ 1 \in Others
  /\ \A r \in Others : r \in Rank /\ r \in Int /\ r # 0 /\ 1 <= r /\ r <= NumRanks - 1
  /\ \A r \in Rank : r = 0 \/ r \in Others
  /\ 0 \in Number /\ \A n \in Number : n \in Int /\ 0 <= n /\ n <= MaxCalls + 1
BY SharedMemoryAssumption DEF Rank, Others, Number

(* Every rank starts with nothing executed and at no barrier.              *)
LEMMA InitIInv ==
  Init => IInv
<1> SUFFICES ASSUME Init PROVE IInv
  OBVIOUS
<1>1. TypeOK
  BY RankFacts DEF Init, TypeOK, ZeroPlaces, OtherPlaces, Nothing, Numbered, Number
<1>2. CameInOrder
  BY RankFacts DEF Init, CameInOrder, Issued, Number
<1>3. ZeroFits
  BY RankFacts DEF Init, ZeroFits
<1>4. \A r \in Rank : CallFits(r)
  BY RankFacts DEF Init, CallFits, Nothing, Numbered
<1>5. \A r \in Others : Level(r)
  BY RankFacts DEF Init, Level
<1> QED BY <1>1, <1>2, <1>3, <1>4, <1>5 DEF IInv

---------------------------------------------------------------------------
(* One lemma per action.                                                   *)

(* The target of write_shm: the ranks 1 to NumRanks - 1 one after the      *)
(* other, and then 1 again.                                                *)
LEMMA Wrapped ==
  ASSUME NEW t \in Others
  PROVE  (t % (NumRanks - 1)) + 1 = IF t = NumRanks - 1 THEN 1 ELSE t + 1
<1> DEFINE k == NumRanks - 1
<1>1. k \in Nat \ {0} /\ t \in 1..k
  BY RankFacts
<1> HIDE DEF k
<1>2. t % k = IF t = k THEN 0 ELSE t
  BY <1>1
<1> QED BY <1>2 DEF k

(* Rank 0 creates the segment and comes to the barrier.                    *)
LEMMA CreateStep ==
  ASSUME IInv, Create
  PROVE  IInv'
<1> USE RankFacts DEF IInv, Create, Goto, Come
<1>1. TypeOK'
  BY DEF TypeOK, ZeroPlaces, OtherPlaces, CallFits, AllCame, CameInOrder
<1>2. CameInOrder'
  BY DEF TypeOK, CameInOrder, Issued, CallFits, Number
<1>3. ZeroFits'
  BY DEF ZeroFits, TypeOK, ZeroPlaces
<1>4. (\A q \in Rank : CallFits(q))'
  BY DEF CallFits, TypeOK
<1>5. (\A q \in Others : Behind(q) \/ Level(q))'
  BY DEF Behind, Level, TypeOK, CallFits, CameInOrder, Issued, ZeroFits, Signalled
<1> QED BY <1>1, <1>2, <1>3, <1>4, <1>5

(* Another rank comes to the barrier.                                      *)
LEMMA StartStep ==
  ASSUME IInv, NEW r \in Others, Start(r)
  PROVE  IInv'
<1> USE RankFacts DEF IInv, Start, Goto, Come
<1>1. TypeOK'
  BY DEF TypeOK, ZeroPlaces, OtherPlaces, CallFits, AllCame, CameInOrder
<1>2. CameInOrder'
  BY DEF TypeOK, CameInOrder, Issued, CallFits, Number
<1>3. ZeroFits'
  BY DEF ZeroFits, TypeOK, ZeroPlaces
<1>4. (\A q \in Rank : CallFits(q))'
  BY DEF CallFits, TypeOK
<1>5. (\A q \in Others : Behind(q) \/ Level(q))'
  BY DEF Behind, Level, TypeOK, CallFits, CameInOrder, Issued, ZeroFits, Signalled
<1> QED BY <1>1, <1>2, <1>3, <1>4, <1>5

(* The barrier of __init__ is left when all have come to it.               *)
LEMMA OpenedStep ==
  ASSUME IInv, NEW r \in Rank, Opened(r)
  PROVE  IInv'
<1> USE RankFacts DEF IInv, Opened, Goto, Come
<1>0. \A q \in Rank : pc[q] \notin {"create", "start"}
  BY DEF AllCame, CameInOrder, Issued, TypeOK, CallFits
<1>1. TypeOK'
  BY DEF TypeOK, ZeroPlaces, OtherPlaces, CallFits, AllCame, CameInOrder
<1>2. CameInOrder'
  BY DEF TypeOK, CameInOrder, Issued, CallFits, Number
<1>3. ZeroFits'
  BY DEF ZeroFits, TypeOK, ZeroPlaces
<1>4. (\A q \in Rank : CallFits(q))'
  BY DEF CallFits, TypeOK
<1>5. (\A q \in Others : Behind(q) \/ Level(q))'
  <2> SUFFICES ASSUME NEW q \in Others PROVE (Behind(q) \/ Level(q))'
    OBVIOUS
  <2>1. pc[r] = "opening" /\ (q = r => pc'[q] = "wait") /\ (q # r => pc'[q] = pc[q])
    BY DEF TypeOK
  <2>2. IF r = 0 THEN pc'[0] = "idle" ELSE pc'[0] = pc[0]
    BY DEF TypeOK
  <2>3. CASE Behind(q)
    BY <2>1, <2>2, <2>3 DEF Behind, Signalled
  <2>4. CASE Level(q)
    BY <1>0, <2>1, <2>2, <2>4 DEF Level, TypeOK, CallFits, OtherPlaces, ZeroPlaces
  <2> QED BY <2>3, <2>4
<1> QED BY <1>1, <1>2, <1>3, <1>4, <1>5

(* The next call: rank 0 is idle, so every rank has come to the last one.  *)
LEMMA BeginWriteStep ==
  ASSUME IInv, BeginWrite, Sampled
  PROVE  IInv'
<1> USE RankFacts DEF IInv, BeginWrite, Goto, Come, Numbered
<1>0. PICK call \in [method : {"run", "run_mixed", "exit"}, samples : BOOLEAN] :
        /\ current' = [current EXCEPT ![0] = Numbered(call, @.number + 1)]
        /\ current[0].number < MaxCalls \/ call.method = "exit"
        /\ call.method # "exit" => call.samples
  <2>1. PICK c \in IF current[0].number < MaxCalls THEN Calls \union {Exit} ELSE {Exit} :
          current' = [current EXCEPT ![0] = Numbered(c, @.number + 1)]
    OBVIOUS
  <2>2. c = Exit \/ (c \in Calls /\ current[0].number < MaxCalls)
    OBVIOUS
  <2>3. c \in Calls => /\ c \in [method : {"run", "run_mixed", "exit"}, samples : BOOLEAN]
                       /\ c.samples
    BY SharedMemoryAssumption DEF Sampled
  <2>4. /\ Exit \in [method : {"run", "run_mixed", "exit"}, samples : BOOLEAN]
        /\ Exit.method = "exit"
    BY DEF Exit
  <2> QED BY <2>1, <2>2, <2>3, <2>4
<1>10. current[0].number \in Nat /\ current[0].number <= MaxCalls
  <2>1. current[0].number \in Number
    BY DEF TypeOK
  <2>2. current[0].number # MaxCalls + 1
    BY DEF CallFits
  <2> QED BY <2>1, <2>2 DEF Number
<1>1. TypeOK'
  BY <1>0, <1>10 DEF TypeOK, ZeroPlaces, Number, Numbered
<1>2. CameInOrder'
  BY DEF TypeOK, CameInOrder, Issued, CallFits, Number
<1>3. ZeroFits'
  BY DEF ZeroFits, TypeOK, ZeroPlaces
<1>4. (\A q \in Rank : CallFits(q))'
  BY <1>0, <1>10 DEF CallFits, TypeOK, Numbered
<1>5. (\A q \in Others : Behind(q) \/ Level(q))'
  BY DEF Behind, Level, TypeOK, CallFits, CameInOrder, Issued, ZeroFits, Signalled
<1> QED BY <1>1, <1>2, <1>3, <1>4, <1>5

(* The call is written.                                                    *)
LEMMA EndWriteStep ==
  ASSUME IInv, EndWrite
  PROVE  IInv'
<1> USE RankFacts DEF IInv, EndWrite, Goto, Come
<1>1. TypeOK'
  BY DEF TypeOK, ZeroPlaces, OtherPlaces, CallFits, AllCame, CameInOrder
<1>2. CameInOrder'
  BY DEF TypeOK, CameInOrder, Issued, CallFits, Number
<1>3. ZeroFits'
  BY DEF ZeroFits, TypeOK, ZeroPlaces
<1>4. (\A q \in Rank : CallFits(q))'
  BY DEF CallFits, TypeOK
<1>5. (\A q \in Others : Behind(q) \/ Level(q))'
  BY DEF Behind, Level, TypeOK, CallFits, CameInOrder, Issued, ZeroFits, Signalled
<1> QED BY <1>1, <1>2, <1>3, <1>4, <1>5

(* The event of the target is set, and the next rank is the target.        *)
LEMMA SetEventStep ==
  ASSUME IInv, SetEvent
  PROVE  IInv'
<1> USE RankFacts DEF IInv, SetEvent, Goto, Come
<1>0. target' = (IF target = NumRanks - 1 THEN 1 ELSE target + 1)
  BY Wrapped DEF TypeOK
<1>1. TypeOK'
  BY <1>0 DEF TypeOK, ZeroPlaces, Others, Rank
<1>2. CameInOrder'
  BY DEF TypeOK, CameInOrder, Issued, CallFits, Number
<1>3. ZeroFits'
  BY <1>0 DEF ZeroFits, TypeOK, ZeroPlaces
<1>4. (\A q \in Rank : CallFits(q))'
  BY DEF CallFits, TypeOK
<1>5. (\A q \in Others : Behind(q) \/ Level(q))'
  <2> SUFFICES ASSUME NEW q \in Others PROVE (Behind(q) \/ Level(q))'
    OBVIOUS
  <2>1. /\ pc[0] = "set" /\ pc'[0] = IF target = NumRanks - 1 THEN "run" ELSE "set"
        /\ pc'[q] = pc[q] /\ event'[q] = (IF q = target THEN TRUE ELSE event[q])
        /\ q \in Int /\ target \in Int /\ q <= NumRanks - 1
    BY DEF TypeOK
  <2>2. current' = current /\ NumRanks \in Int
    OBVIOUS
  <2>3. CASE Behind(q)
    <3>1. Signalled(q)' <=> q <= target
      BY <1>0, <2>1, <2>2 DEF Signalled
    <3>2. event[q] <=> q < target
      BY <2>1, <2>3 DEF Behind, Signalled
    <3>3. event'[q] <=> Signalled(q)'
      BY <2>1, <3>1, <3>2 DEF TypeOK
    <3>4. pc'[0] \in {"set", "run"}
      BY <2>1
    <3> QED BY <2>1, <2>2, <2>3, <3>3, <3>4 DEF Behind
  <2>4. CASE Level(q)
    <3>1. q < target /\ (event'[q] <=> pc'[q] = "clear")
      BY <2>1, <2>4 DEF Level
    <3>2. pc'[0] \in {"set", "run"} /\ (pc'[0] = "set" => q < target')
      BY <1>0, <2>1, <3>1
    <3> QED BY <2>2, <2>4, <3>1, <3>2 DEF Level
  <2> QED BY <2>3, <2>4
<1> QED BY <1>1, <1>2, <1>3, <1>4, <1>5

(* A rank whose event is set is behind, and the buffer holds the call of   *)
(* rank 0.                                                                 *)
LEMMA ReadStep ==
  ASSUME IInv, NEW r \in Others, Read(r)
  PROVE  IInv'
<1> USE RankFacts DEF IInv, Read, Goto, Come
<1>0. Behind(r) /\ Signalled(r) /\ buffer = {current[0]} /\ current[0] # Torn
  BY DEF Behind, Level, ZeroFits, Signalled, TypeOK, Torn, Numbered
<1> USE <1>0
<1>1. TypeOK'
  BY DEF TypeOK, ZeroPlaces, OtherPlaces, CallFits, AllCame, CameInOrder
<1>2. CameInOrder'
  BY DEF TypeOK, CameInOrder, Issued, CallFits, Number, Behind
<1>3. ZeroFits'
  BY DEF ZeroFits, TypeOK, ZeroPlaces
<1>4. (\A q \in Rank : CallFits(q))'
  BY DEF CallFits, TypeOK, Behind
<1>5. (\A q \in Others : Behind(q) \/ Level(q))'
  BY DEF Behind, Level, TypeOK, CallFits, CameInOrder, Issued, ZeroFits, Signalled
<1> QED BY <1>1, <1>2, <1>3, <1>4, <1>5

(* A rank that clears its event has read.                                  *)
LEMMA ClearStep ==
  ASSUME IInv, NEW r \in Others, Clear(r)
  PROVE  IInv'
<1> USE RankFacts DEF IInv, Clear, Goto, Come
<1>1. TypeOK'
  BY DEF TypeOK, ZeroPlaces, OtherPlaces, CallFits, AllCame, CameInOrder
<1>2. CameInOrder'
  BY DEF TypeOK, CameInOrder, Issued, CallFits, Number
<1>3. ZeroFits'
  BY DEF ZeroFits, TypeOK, ZeroPlaces
<1>4. (\A q \in Rank : CallFits(q))'
  BY DEF CallFits, TypeOK
<1>5. (\A q \in Others : Behind(q) \/ Level(q))'
  BY DEF Behind, Level, TypeOK, CallFits, CameInOrder, Issued, ZeroFits, Signalled
<1> QED BY <1>1, <1>2, <1>3, <1>4, <1>5

(* A rank comes to the collective of its call.                             *)
LEMMA RunStep ==
  ASSUME IInv, NEW r \in Rank, Run(r)
  PROVE  IInv'
<1> USE RankFacts DEF IInv, Run, Goto, Come
<1>1. TypeOK'
  BY DEF TypeOK, ZeroPlaces, OtherPlaces, CallFits, AllCame, CameInOrder
<1>2. CameInOrder'
  BY DEF TypeOK, CameInOrder, Issued, CallFits, Number
<1>3. ZeroFits'
  BY DEF ZeroFits, TypeOK, ZeroPlaces
<1>4. (\A q \in Rank : CallFits(q))'
  BY DEF CallFits, TypeOK
<1>5. (\A q \in Others : Behind(q) \/ Level(q))'
  BY DEF Behind, Level, TypeOK, CallFits, CameInOrder, Issued, ZeroFits, Signalled
<1> QED BY <1>1, <1>2, <1>3, <1>4, <1>5

(* Rank 0 leaves no call, and nobody leaves exit, before all ranks have    *)
(* come to it.                                                             *)
LEMMA LeaveStep ==
  ASSUME IInv, NEW r \in Rank, Leave(r)
  PROVE  IInv'
<1> USE RankFacts DEF IInv, Leave, Goto, Come
<1>0. r = 0 \/ current[r].method = "exit" =>
        \A q \in Rank : current[r].number < Issued(q)
  BY DEF TypeOK, CallFits, AllCame, Waits, CameInOrder, Issued, Number
<1>1. TypeOK'
  BY DEF TypeOK, ZeroPlaces, OtherPlaces, CallFits, AllCame, CameInOrder
<1>2. CameInOrder'
  BY DEF TypeOK, CameInOrder, Issued, CallFits, Number
<1>3. ZeroFits'
  BY DEF ZeroFits, TypeOK, ZeroPlaces
<1>4. (\A q \in Rank : CallFits(q))'
  BY DEF CallFits, TypeOK
<1>5. (\A q \in Others : Behind(q) \/ Level(q))'
  <2> SUFFICES ASSUME NEW q \in Others PROVE (Behind(q) \/ Level(q))'
    OBVIOUS
  <2>1. pc[r] = "leave" /\ (q # r => pc'[q] = pc[q]) /\ (r # 0 => pc'[0] = pc[0])
    BY DEF TypeOK
  <2>2. pc'[r] = IF current[r].method = "exit" THEN "exited"
                 ELSE IF r = 0 THEN "idle" ELSE "wait"
    BY DEF TypeOK
  <2>3. CASE Behind(q)
    <3>1. current[q].number \in Int /\ current[0].number = current[q].number + 1
      BY <2>3 DEF Behind, TypeOK, Number
    <3>2. r # 0
      <4>1. Issued(q) \in Int /\ Issued(q) <= current[0].number
        BY <2>3, <3>1 DEF Issued, Behind
      <4> QED BY <1>0, <3>1, <4>1 DEF TypeOK, Number
    <3> QED BY <2>1, <2>2, <2>3, <3>2 DEF Behind, Signalled
  <2>4. CASE Level(q)
    <3>1. current[q] = current[0] /\ current[0].number \in Int
      BY <2>4 DEF Level, TypeOK, Number
    <3>2. CASE r = 0
      <4>1. pc[q] \in {"wait", "leave", "exited"}
        BY <1>0, <3>1, <3>2 DEF Issued, TypeOK, OtherPlaces, CallFits
      <4> QED BY <2>1, <2>2, <2>4, <3>1, <3>2, <4>1 DEF Level, CallFits
    <3>3. CASE r = q
      <4>1. current[r].method = "exit" => pc[0] \in {"leave", "exited"}
        BY <1>0, <2>1, <2>4, <3>1, <3>3 DEF Issued, TypeOK, ZeroPlaces, CallFits, Level
      <4> QED BY <2>1, <2>2, <2>4, <3>1, <3>3, <4>1 DEF Level, CallFits
    <3>4. CASE r # 0 /\ r # q
      BY <2>1, <2>4, <3>4 DEF Level
    <3> QED BY <3>2, <3>3, <3>4
  <2> QED BY <2>3, <2>4
<1> QED BY <1>1, <1>2, <1>3, <1>4, <1>5

---------------------------------------------------------------------------

(* IInv is kept by every step of every rank.                               *)
LEMMA NextIInv ==
  ASSUME Sampled, IInv, [Next]_vars
  PROVE  IInv'
<1>1. CASE Zero
  BY <1>1, CreateStep, OpenedStep, BeginWriteStep, EndWriteStep, SetEventStep, RunStep,
     LeaveStep, RankFacts DEF Zero
<1>2. ASSUME NEW r \in Others, Other(r) PROVE IInv'
  BY <1>2, StartStep, OpenedStep, ReadStep, ClearStep, RunStep, LeaveStep, RankFacts DEF Other
<1>3. CASE UNCHANGED vars
  BY <1>3 DEF vars, IInv, TypeOK, CameInOrder, Issued, ZeroFits, CallFits, Behind, Level, Signalled
<1> QED BY <1>1, <1>2, <1>3 DEF Next

(* What every rank executes follows from how far apart the ranks are.      *)
LEMMA IInvImpliesSameCalls ==
  IInv => SameCalls
<1> SUFFICES ASSUME IInv, NEW r \in Others PROVE
      /\ pc[r] # "dead"
      /\ current[r].number \in {current[0].number - 1, current[0].number}
      /\ pc[r] = "wait" => segment = "open" /\ came[r] = current[r].number + 1
  BY DEF SameCalls
<1>1. pc[r] # "dead"
  BY RankFacts DEF IInv, TypeOK, OtherPlaces
<1>2. current[r].number \in {current[0].number - 1, current[0].number}
  BY DEF IInv, Behind, Level
<1>3. ASSUME pc[r] = "wait" PROVE segment = "open"
  BY <1>3 DEF IInv, Behind, Level, ZeroFits
<1>4. ASSUME pc[r] = "wait" PROVE came[r] = current[r].number + 1
  <2>1. came[r] = Issued(r)
    BY RankFacts DEF IInv, CameInOrder
  <2> QED BY <1>4, <2>1 DEF Issued
<1> QED BY <1>1, <1>2, <1>3, <1>4

(* How far apart rank 0 and the readers of its segment can be when every   *)
(* call samples, for every number of ranks and calls: the invariant the    *)
(* protocol rests on.                                                      *)
THEOREM RanksInStep == Sampled => (Spec => []IInv)
<1> SUFFICES ASSUME Sampled PROVE Spec => []IInv
  OBVIOUS
<1>1. Init => IInv BY InitIInv
<1>2. IInv /\ [Next]_vars => IInv' BY NextIInv
<1> QED BY <1>1, <1>2, PTL DEF Spec

(* Every rank of ModelRunner.loop executes the calls that rank 0 writes,   *)
(* each once and in order, none while it is being written, although        *)
(* write_shm waits for nobody: if every call samples, so that rank 0       *)
(* leaves none before .tolist() has the work of all ranks.                 *)
THEOREM CallsAgree == Sampled => (Spec => []SameCalls)
<1> SUFFICES ASSUME Sampled PROVE Spec => []SameCalls
  OBVIOUS
<1>1. IInv => SameCalls BY IInvImpliesSameCalls
<1>2. Spec => []IInv BY RanksInStep
<1> QED BY <1>1, <1>2, PTL
=============================================================================

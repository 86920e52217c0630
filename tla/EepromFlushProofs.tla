-------------------------- MODULE EepromFlushProofs -------------------------
(***************************************************************************)
(* Proofs about EepromFlush for every number of pages, every set of values *)
(* and every delay: what the flash holds while update() is under way, and  *)
(* from it the safety properties of the module.                            *)
(*                                                                         *)
(* NeverMixed is not inductive: it says nothing of the pages in the middle *)
(* of an update, and a power failure ends the update at any of them.       *)
(* StageInv adds what each operation leaves behind.                        *)
(***************************************************************************)
EXTENDS EepromFlush, TLAPS

(* An update is only under way for a commit, and only after a change.      *)
FlagInv ==
  /\ flashing => op # 0
  /\ op # 0 => need_update
  /\ needUpdate => dirty

(* Until something is changed the copy in RAM is the flash.                *)
CleanInv == ~dirty => flash = data

(* The flash by the operation that is next or under way: the halves are    *)
(* erased one after the other, and then the pages below the one of the     *)
(* operation are written and those above it erased.                        *)
StageInv ==
  /\ op = 1 /\ flashing => \A p \in Lower : flash[p] = "garbage"
  /\ op = 2 => \A p \in Lower : flash[p] = "erased"
  /\ op > 2 =>
       /\ \A p \in Pages : p < op - 3 => flash[p] = data[p]
       /\ \A p \in Pages : p > op - 3 => flash[p] = "erased"
       /\ flash[op - 3] = IF flashing THEN "garbage" ELSE "erased"

(* The delay is counted from the notice, which no flush comes after.       *)
DelayInv == need_update => elapsed <= since

IInv == /\ TypeOK /\ FlagInv /\ CleanInv /\ StageInv /\ DelayInv
        /\ NeverMixed /\ CommitKept

-----------------------------------------------------------------------------
(* The pages of the halves and of each operation.                          *)
LEMMA PageFacts ==
  /\ HalfPages \in Nat \ {0} /\ Delay \in Nat \ {0} /\ MaxCuts \in Nat
  /\ "erased" \notin Values /\ "garbage" \notin Values
  /\ Pages = Lower \cup Upper /\ 0 \in Lower
  /\ \A p \in Lower : p \notin Upper
  /\ \A k \in 3..LastOp : k - 3 \in Pages
BY FlushAssumption DEF Pages, Lower, Upper, LastOp

LEMMA OperationPages ==
  /\ Operation(1) = [pages |-> Lower, erases |-> TRUE]
  /\ Operation(2) = [pages |-> Upper, erases |-> TRUE]
  /\ \A k \in 3..LastOp : Operation(k) = [pages |-> {k - 3}, erases |-> FALSE]
BY DEF Operation

LEMMA InitInv == Init => IInv
<1> SUFFICES ASSUME Init PROVE IInv
  OBVIOUS
<1>1. TypeOK
  <2>1. PICK v \in Values : flash = [p \in Pages |-> v]
    BY DEF Init
  <2>2. flash \in [Pages -> Content]
    BY <2>1 DEF Content
  <2>3. dirty \in BOOLEAN /\ needUpdate \in BOOLEAN /\ need_update \in BOOLEAN
        /\ flashing \in BOOLEAN
    BY DEF Init
  <2> QED BY <2>2, <2>3, PageFacts DEF Init, TypeOK, LastOp
<1>2. FlagInv /\ CleanInv /\ StageInv /\ DelayInv
  BY DEF Init, FlagInv, CleanInv, StageInv, DelayInv
<1>3. NeverMixed /\ CommitKept
  BY DEF Init, NeverMixed, CommitKept
<1> QED BY <1>1, <1>2, <1>3 DEF IInv

-----------------------------------------------------------------------------
(***************************************************************************)
(* The application and the clock, while no update is under way.            *)
(***************************************************************************)

LEMMA WriteInv ==
  ASSUME IInv, NEW p \in Pages, NEW v \in Values, Write(p, v) PROVE IInv'
<1>1. TypeOK'
  BY DEF IInv, TypeOK, Write, Content, update
<1>2. FlagInv' /\ CleanInv' /\ StageInv' /\ DelayInv'
  BY DEF IInv, FlagInv, CleanInv, StageInv, DelayInv, Write, update
<1>3. NeverMixed'
  BY DEF IInv, NeverMixed, Write
<1>4. CommitKept'
  BY DEF IInv, TypeOK, CommitKept, Write, update
<1> QED BY <1>1, <1>2, <1>3, <1>4 DEF IInv

LEMMA GetDataPtrInv ==
  ASSUME IInv, GetDataPtr PROVE IInv'
BY DEF IInv, TypeOK, FlagInv, CleanInv, StageInv, DelayInv, NeverMixed,
       CommitKept, GetDataPtr, update, ghosts

(* A commit of a copy that was never changed has nothing to keep.          *)
LEMMA CommitInv ==
  ASSUME IInv, Commit PROVE IInv'
<1>1. needUpdate' \in BOOLEAN /\ (needUpdate => needUpdate')
  BY DEF IInv, TypeOK, Commit, Committed
<1>2. TypeOK'
  BY <1>1 DEF IInv, TypeOK, Commit, update
<1>3. FlagInv' /\ CleanInv' /\ StageInv' /\ DelayInv' /\ NeverMixed'
  BY DEF IInv, FlagInv, CleanInv, StageInv, DelayInv, NeverMixed, Commit,
         Committed, update
<1>4. CommitKept'
  BY DEF IInv, CleanInv, CommitKept, Commit, Committed, update
<1> QED BY <1>2, <1>3, <1>4 DEF IInv

LEMMA NoticeInv ==
  ASSUME IInv, Notice PROVE IInv'
BY PageFacts
   DEF IInv, TypeOK, FlagInv, CleanInv, StageInv, DelayInv, NeverMixed,
       CommitKept, Notice, GetNeedUpdate, update, ghosts

LEMMA UpdateInv ==
  ASSUME IInv, Update PROVE IInv'
BY PageFacts
   DEF IInv, TypeOK, FlagInv, CleanInv, StageInv, DelayInv, NeverMixed,
       CommitKept, Update, ram, ghosts, LastOp

LEMMA TickInv ==
  ASSUME IInv, Tick PROVE IInv'
<1>1. TypeOK'
  BY PageFacts DEF IInv, TypeOK, Tick, Upto, update
<1>2. DelayInv'
  BY PageFacts DEF IInv, TypeOK, DelayInv, Tick, Upto
<1>3. FlagInv' /\ CleanInv' /\ StageInv' /\ NeverMixed' /\ CommitKept'
  BY DEF IInv, FlagInv, CleanInv, StageInv, NeverMixed, CommitKept, Tick,
         update
<1> QED BY <1>1, <1>2, <1>3 DEF IInv

(* Wherever the power fails: the copy in RAM becomes what is in flash.     *)
LEMMA PowerLossInv ==
  ASSUME IInv, PowerLoss PROVE IInv'
<1>1. /\ dirty' \in BOOLEAN /\ needUpdate' \in BOOLEAN
      /\ need_update' \in BOOLEAN /\ flashing' \in BOOLEAN
  BY DEF PowerLoss
<1>2. TypeOK'
  BY <1>1, PageFacts DEF IInv, TypeOK, PowerLoss, LastOp
<1>3. /\ FlagInv' /\ CleanInv' /\ StageInv' /\ DelayInv' /\ NeverMixed'
      /\ CommitKept'
  BY DEF IInv, FlagInv, CleanInv, StageInv, DelayInv, NeverMixed, CommitKept,
         PowerLoss
<1> QED BY <1>2, <1>3 DEF IInv

-----------------------------------------------------------------------------
(***************************************************************************)
(* The flash operations.                                                   *)
(***************************************************************************)

(* As long as a page is erased or garbage the flash is no version at all.  *)
LEMMA IncompleteIsVisible ==
  ASSUME TypeOK', StageInv', op' # 0, op' = 1 => flashing'
  PROVE  NeverMixed'
<1>1. CASE op' < 3
  <2>1. op' = 1 \/ op' = 2
    BY <1>1, PageFacts DEF TypeOK, LastOp
  <2> QED BY <2>1, PageFacts DEF StageInv, NeverMixed
<1>2. CASE op' >= 3
  <2>1. op' \in 3..LastOp /\ op' - 3 \in Pages
    BY <1>2, PageFacts DEF TypeOK, LastOp
  <2> QED BY <1>2, <2>1, PageFacts DEF StageInv, NeverMixed
<1> QED BY <1>1, <1>2, PageFacts DEF TypeOK, LastOp

LEMMA OperationBeginInv ==
  ASSUME IInv, OperationBegin PROVE IInv'
<1> USE PageFacts, OperationPages
<1>1. /\ TypeOK /\ FlagInv /\ CleanInv /\ StageInv /\ DelayInv
      /\ op \in 1..LastOp /\ needUpdate /\ dirty
  BY DEF IInv, OperationBegin, TypeOK, FlagInv
<1>2. TypeOK'
  BY <1>1 DEF TypeOK, OperationBegin, Begun, Content, ram, ghosts
<1>3. FlagInv' /\ CleanInv' /\ DelayInv' /\ CommitKept'
  BY <1>1 DEF FlagInv, CleanInv, DelayInv, CommitKept, OperationBegin, ram,
              ghosts
<1>4. StageInv'
  <2>1. CASE op < 3
    BY <1>1, <2>1 DEF StageInv, OperationBegin, Begun, ram, LastOp
  <2>2. CASE op >= 3
    <3>1. op \in 3..LastOp /\ Operation(op).pages = {op - 3}
      BY <1>1, <2>2 DEF LastOp
    <3> QED BY <1>1, <2>2, <3>1 DEF StageInv, OperationBegin, Begun, ram
  <2> QED BY <1>1, <2>1, <2>2 DEF LastOp
<1>5. NeverMixed'
  BY <1>2, <1>4, IncompleteIsVisible DEF OperationBegin
<1> QED BY <1>2, <1>3, <1>4, <1>5 DEF IInv

LEMMA OperationEndInv ==
  ASSUME IInv, OperationEnd PROVE IInv'
<1> USE PageFacts, OperationPages
<1>1. /\ TypeOK /\ FlagInv /\ CleanInv /\ StageInv /\ DelayInv
      /\ op \in 1..LastOp /\ op < LastOp /\ op' = op + 1
      /\ needUpdate /\ dirty
  BY DEF IInv, OperationEnd, TypeOK, FlagInv, LastOp
<1>2. TypeOK'
  <2>1. flash' \in [Pages -> Content]
    BY <1>1 DEF TypeOK, OperationEnd, Ended, Content
  <2>2. op' \in 0..LastOp
    BY <1>1 DEF LastOp
  <2>3. flashing' \in BOOLEAN
    BY DEF OperationEnd
  <2> QED BY <1>1, <2>1, <2>2, <2>3 DEF TypeOK, OperationEnd, ram, ghosts
<1>3. FlagInv' /\ CleanInv' /\ DelayInv' /\ CommitKept'
  BY <1>1 DEF FlagInv, CleanInv, DelayInv, CommitKept, OperationEnd, ram,
              ghosts, LastOp
<1>4. StageInv'
  <2>1. CASE op = 1
    BY <1>1, <2>1 DEF StageInv, OperationEnd, Ended, ram
  <2>2. CASE op = 2
    BY <1>1, <2>2 DEF StageInv, OperationEnd, Ended, ram, Pages
  <2>3. CASE op >= 3
    <3>1. /\ op \in 3..LastOp /\ Operation(op).pages = {op - 3}
          /\ Operation(op).erases = FALSE
          /\ op - 3 \in Pages /\ op' - 3 \in Pages
      BY <1>1, <2>3 DEF LastOp
    <3>2. /\ \A p \in Pages : flash'[p] = IF p = op - 3 THEN data[p] ELSE flash[p]
          /\ data' = data /\ ~flashing'
      BY <3>1 DEF OperationEnd, Ended, ram
    <3> QED BY <1>1, <2>3, <3>1, <3>2 DEF StageInv, Pages, LastOp
  <2> QED BY <1>1, <2>1, <2>2, <2>3 DEF LastOp
<1>5. NeverMixed'
  <2>1. op' # 0 /\ op' # 1
    BY <1>1 DEF LastOp
  <2> QED BY <1>2, <1>4, <2>1, IncompleteIsVisible
<1> QED BY <1>2, <1>3, <1>4, <1>5 DEF IInv

(* After the last page the flash is the copy in RAM, page for page.        *)
LEMMA UpdateDoneInv ==
  ASSUME IInv, UpdateDone PROVE IInv'
<1> USE PageFacts, OperationPages
<1>1. TypeOK /\ FlagInv /\ StageInv /\ op = LastOp /\ LastOp \in 3..LastOp
  BY DEF IInv, UpdateDone, LastOp
<1>2. flash' = data
  <2>1. \A p \in Pages : p # LastOp - 3 => p < LastOp - 3
    BY DEF Pages, LastOp
  <2>2. \A p \in Pages : Ended(flash, op)[p] = data[p]
    BY <1>1, <2>1 DEF StageInv, Ended
  <2>3. DOMAIN data = Pages /\ DOMAIN Ended(flash, op) = Pages
    BY <1>1 DEF TypeOK, Ended
  <2>4. Ended(flash, op) = [p \in Pages |-> data[p]]
    BY <2>2 DEF Ended
  <2> QED BY <1>1, <2>4 DEF TypeOK, UpdateDone
<1>3. TypeOK'
  <2>1. needUpdate' \in BOOLEAN /\ need_update' \in BOOLEAN
        /\ flashing' \in BOOLEAN
    BY DEF UpdateDone
  <2> QED BY <1>1, <1>2, <2>1 DEF TypeOK, UpdateDone, LastOp
<1>4. /\ FlagInv' /\ CleanInv' /\ StageInv' /\ DelayInv' /\ NeverMixed'
      /\ CommitKept'
  BY <1>1, <1>2
     DEF FlagInv, CleanInv, StageInv, DelayInv, NeverMixed, CommitKept,
         UpdateDone
<1> QED BY <1>3, <1>4 DEF IInv

LEMMA NextInv == IInv /\ [Next]_vars => IInv'
<1> SUFFICES ASSUME IInv, [Next]_vars PROVE IInv'
  OBVIOUS
<1>1. CASE UNCHANGED vars
  BY <1>1 DEF vars, ram, update, ghosts, IInv, TypeOK, FlagInv, CleanInv,
              StageInv, DelayInv, NeverMixed, CommitKept
<1>2. ASSUME NEW p \in Pages, NEW v \in Values, Write(p, v) PROVE IInv'
  BY <1>2, WriteInv
<1>3. CASE Cycle
  BY <1>3, NoticeInv, UpdateInv, OperationBeginInv, OperationEndInv,
     UpdateDoneInv DEF Cycle
<1> QED BY <1>1, <1>2, <1>3, GetDataPtrInv, CommitInv, TickInv, PowerLossInv
        DEF Next

(* IInv holds in every reachable state, whatever the pages, values and     *)
(* delay are, and however often the power fails.                           *)
THEOREM Invariance == Spec => []IInv
BY InitInv, NextInv, PTL DEF Spec

-----------------------------------------------------------------------------
(* Every variable keeps its range.                                         *)
THEOREM TypeCorrect == Spec => []TypeOK
<1>1. IInv => TypeOK
  BY DEF IInv
<1> QED BY <1>1, Invariance, PTL

(* The settings a boot finds are one version that was flushed, or a page   *)
(* shows that they are none, for flashes of any size.                      *)
THEOREM VersionsNeverMix == Spec => []NeverMixed
<1>1. IInv => NeverMixed
  BY DEF IInv
<1> QED BY <1>1, Invariance, PTL

(* Without a pending update the flash has all that was committed.          *)
THEOREM CommitsAreKept == Spec => []CommitKept
<1>1. IInv => CommitKept
  BY DEF IInv
<1> QED BY <1>1, Invariance, PTL

(* The flash is erased only for a commit, a delay after the last flush.    *)
THEOREM FlushesAreSpaced == Spec => FlushesSpaced
<1>1. ASSUME IInv, [Next]_vars, op = 0, op' = 1
      PROVE  needUpdate /\ since = Delay
  <2>1. CASE Update
    <3>1. needUpdate
      BY <1>1, <2>1 DEF IInv, TypeOK, Update
    <3>2. elapsed <= since /\ elapsed >= Delay
      BY <1>1, <2>1 DEF IInv, DelayInv, Update, TimeExpired
    <3>3. elapsed \in 0..Delay /\ since \in 0..Delay
      BY <1>1 DEF IInv, TypeOK
    <3> QED BY <3>1, <3>2, <3>3, PageFacts
  <2>2. CASE ~Update
    BY <1>1, <2>2
       DEF Next, Cycle, Write, GetDataPtr, Commit, Notice, OperationBegin,
           OperationEnd, UpdateDone, Tick, PowerLoss, IInv, FlagInv, vars,
           update
  <2> QED BY <2>1, <2>2
<1>2. IInv /\ [Next]_vars
        => [op = 0 /\ op' = 1 => needUpdate /\ since = Delay]_vars
  BY <1>1
<1> QED BY <1>2, Invariance, PTL DEF Spec, FlushesSpaced
=============================================================================

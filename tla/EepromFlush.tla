----------------------------- MODULE EepromFlush ----------------------------
(***************************************************************************)
(* The settings: EEPROMClass (src/lib/EEPROM/src), which keeps them in RAM *)
(* and copies them to flash, and the plugin EEPROMUpgrade (src/src), whose *)
(* beforeEachCycle starts the copying some time after a commit.            *)
(*                                                                         *)
(* All of it runs in the main loop of one core.  The power may fail at any *)
(* step; a page that is being erased or programmed then holds garbage.  A  *)
(* page (256 bytes) has one value.                                         *)
(***************************************************************************)
EXTENDS Naturals

CONSTANTS HalfPages,    \* pages in each of the two halves that are erased
          Values,       \* what a page may say
          Delay,        \* ticks from the noticed commit to the flush (500 ms)
          MaxCuts       \* bound: power failures

ASSUME FlushAssumption ==
  /\ HalfPages \in Nat \ {0} /\ Delay \in Nat \ {0} /\ MaxCuts \in Nat
  /\ Values \cap {"erased", "garbage"} = {} /\ Values # {}

VARIABLES
  flash,
  data, dirty, needUpdate,  \* EEPROMClass: _data, _dirty, needUpdate
  need_update, elapsed,     \* EEPROMUpgrade: need_update_, and the ticks
                            \* since start_time_, counted up to Delay
  op, flashing,             \* update()'s next flash operation, or 0; it is
                            \* under way
  cuts,
  image, written, since     \* the last complete copy; the pages written
                            \* since the last commit; ticks since a flush

ram == <<data, dirty, needUpdate, need_update, elapsed>>
update == <<op, flashing>>
ghosts == <<cuts, image, written, since>>
vars == <<flash, ram, update, ghosts>>

Pages == 0..2 * HalfPages - 1
LastOp == 2 + 2 * HalfPages
Content == Values \cup {"erased", "garbage"}

Lower == 0..HalfPages - 1
Upper == HalfPages..2 * HalfPages - 1

Operation_HalfByHalf(k) ==
  CASE k = 1 -> [pages |-> Lower, erases |-> TRUE]
    [] k = HalfPages + 2 -> [pages |-> Upper, erases |-> TRUE]
    [] k \in 2..HalfPages + 1 -> [pages |-> {k - 2}, erases |-> FALSE]
    [] OTHER -> [pages |-> {k - 3}, erases |-> FALSE]

(* update(): two erasures, of a half each, and then page after page.       *)
Operation(k) ==
  CASE k = 1 -> [pages |-> Lower, erases |-> TRUE]
    [] k = 2 -> [pages |-> Upper, erases |-> TRUE]
    [] OTHER -> [pages |-> {k - 3}, erases |-> FALSE]

Upto(n, limit) == IF n < limit THEN n + 1 ELSE limit

(* After begin(): the RAM copy is what the flash says.                     *)
Init ==
  /\ \E v \in Values : flash = [p \in Pages |-> v]
  /\ data = flash /\ image = flash
  /\ dirty = FALSE /\ needUpdate = FALSE /\ need_update = FALSE
  /\ elapsed = 0 /\ since = Delay /\ cuts = 0 /\ written = {}
  /\ op = 0 /\ flashing = FALSE

-----------------------------------------------------------------------------
(* A changed datum makes the copy dirty; nothing makes it clean again.     *)
Write(p, v) ==
  /\ op = 0
  /\ data[p] # v
  /\ data' = [data EXCEPT ![p] = v]
  /\ dirty' = TRUE
  /\ written' = written \cup {p}
  /\ UNCHANGED <<flash, needUpdate, need_update, elapsed, update, cuts, image,
                 since>>

(* getDataPtr makes it dirty whatever is done with the pointer.            *)
GetDataPtr ==
  /\ op = 0
  /\ dirty' = TRUE
  /\ UNCHANGED <<flash, data, needUpdate, need_update, elapsed, update,
                 ghosts>>

Committed_NotAgainSoon == needUpdate \/ (dirty /\ since = Delay)

(* commit() only asks for an update, if the copy is dirty.                 *)
Committed == needUpdate \/ dirty

Commit ==
  /\ op = 0
  /\ needUpdate' = Committed
  /\ written' = {}
  /\ UNCHANGED <<flash, data, dirty, need_update, elapsed, update, cuts, image,
                 since>>

(* What an operation does to its pages when it begins and when it ends.    *)
Begun(f, k) == [p \in Pages |-> IF p \in Operation(k).pages THEN "garbage"
                                ELSE f[p]]
Ended(f, k) == [p \in Pages |-> IF p \notin Operation(k).pages THEN f[p]
                                ELSE IF Operation(k).erases THEN "erased"
                                ELSE data[p]]

TimeExpired_AtOnce == TRUE

(* Runtime.hasTimeExpired(start_time_, 500)                                *)
TimeExpired == elapsed >= Delay

GetNeedUpdate_Dirty == dirty

GetNeedUpdate == needUpdate

\* Fault: the delay starts again at every cycle.
Notice_EveryCycle ==
  /\ op = 0 /\ GetNeedUpdate
  /\ need_update' = TRUE /\ elapsed' = 0
  /\ UNCHANGED <<flash, data, dirty, needUpdate, update, ghosts>>

(* beforeEachCycle notices a commit, and a while later starts update().    *)
Notice ==
  /\ op = 0 /\ ~need_update /\ GetNeedUpdate
  /\ need_update' = TRUE /\ elapsed' = 0
  /\ UNCHANGED <<flash, data, dirty, needUpdate, update, ghosts>>

Update ==
  /\ op = 0 /\ need_update /\ TimeExpired
  /\ op' = 1
  /\ UNCHANGED <<flash, flashing, ram, ghosts>>

OperationBegin ==
  /\ op # 0 /\ ~flashing
  /\ flash' = Begun(flash, op)
  /\ flashing' = TRUE
  /\ UNCHANGED <<ram, op, ghosts>>

OperationEnd ==
  /\ flashing /\ op # LastOp
  /\ flash' = Ended(flash, op)
  /\ flashing' = FALSE /\ op' = op + 1
  /\ UNCHANGED <<ram, ghosts>>

(* After the last page both flags are taken back.  The copy in RAM went    *)
(* to flash as it is, with what was written and not committed.             *)
UpdateDone ==
  /\ flashing /\ op = LastOp
  /\ flash' = Ended(flash, op)
  /\ flashing' = FALSE /\ op' = 0
  /\ needUpdate' = FALSE /\ need_update' = FALSE
  /\ image' = data /\ written' = {} /\ since' = 0
  /\ UNCHANGED <<data, dirty, elapsed, cuts>>

Cycle == Notice \/ Update \/ OperationBegin \/ OperationEnd \/ UpdateDone

Tick ==
  /\ elapsed < Delay \/ since < Delay
  /\ elapsed' = Upto(elapsed, Delay) /\ since' = Upto(since, Delay)
  /\ UNCHANGED <<flash, data, dirty, needUpdate, need_update, update, cuts,
                 image, written>>

(* The power fails and comes back: begin() copies the flash to RAM.        *)
PowerLoss ==
  /\ cuts < MaxCuts /\ cuts' = cuts + 1
  /\ data' = flash
  /\ dirty' = FALSE /\ needUpdate' = FALSE /\ need_update' = FALSE
  /\ elapsed' = 0 /\ since' = Delay /\ written' = {}
  /\ op' = 0 /\ flashing' = FALSE
  /\ UNCHANGED <<flash, image>>

Next == (\E p \in Pages, v \in Values : Write(p, v)) \/ GetDataPtr
        \/ Commit \/ Cycle \/ Tick \/ PowerLoss

(* The loop and the clock go on.                                           *)
Spec == Init /\ [][Next]_vars /\ WF_vars(Cycle) /\ WF_vars(Tick)
-----------------------------------------------------------------------------
TypeOK ==
  /\ flash \in [Pages -> Content] /\ data \in [Pages -> Content]
  /\ image \in [Pages -> Content] /\ written \subseteq Pages
  /\ dirty \in BOOLEAN /\ needUpdate \in BOOLEAN /\ need_update \in BOOLEAN
  /\ elapsed \in 0..Delay /\ since \in 0..Delay
  /\ need_update => needUpdate
  /\ op \in 0..LastOp /\ flashing \in BOOLEAN /\ cuts \in 0..MaxCuts

(* A boot never finds a mixture of two versions of the settings that looks *)
(* whole: unless a page is erased or garbage, the flash is the last copy   *)
(* that was completed, wherever the power failed.                          *)
(* (EEPROM.cpp:128-155: both halves are erased before a page is written)   *)
NeverMixed == (\A p \in Pages : flash[p] \in Values) => flash = image

(* When no update is pending, every page that was not written since the    *)
(* last commit is in flash as it is in RAM: no commit is forgotten, also   *)
(* when it comes while an earlier one waits.                               *)
(* (EEPROM.cpp:105-119, 142-155, EEPROMUpgrade.cpp:82-97)                  *)
CommitKept ==
  ~needUpdate /\ op = 0 => \A p \in Pages \ written : flash[p] = data[p]

(* The flash is only erased for a commit, and not again before the delay   *)
(* is over: commits in that time share one update. (EEPROMUpgrade.cpp:82)  *)
FlushesSpaced == [][op = 0 /\ op' = 1 => needUpdate /\ since = Delay]_vars

(* Every commit is written to flash at last, unless the power fails, which *)
(* also ends the waiting. (EEPROMUpgrade.cpp:90-93)                        *)
CommitReachesFlash == needUpdate ~> ~needUpdate
=============================================================================

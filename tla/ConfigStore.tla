------------------------------ MODULE ConfigStore ------------------------------
(***************************************************************************)
(* The configurations kept in the EEPROM, saved and loaded page by page.    *)
(* Source: common.c (load_config, save_config), eeprom.c (the list of       *)
(* records, the mutex), cat24c256_eeprom.c (pages), system_control.c and    *)
(* menu.c (save all, erase, reboot).                                        *)
(*                                                                         *)
(* A record is a revision, some fields and, for the records that go through *)
(* save_config, a CRC: cells of the EEPROM, PageSize of them to a page.  A   *)
(* CRC is the list of fields it was computed over, so two lists never share *)
(* one.  A page is written whole or not at all; power may go between pages. *)
(* The other records (learn_from_throws.c, pid_autotune.cpp, ai_tuning.c)   *)
(* have their revision and no CRC, and are written straight from memory.    *)
(***************************************************************************)
EXTENDS Naturals, Sequences

CONSTANTS
  InitOrder,     \* the records, in the order they are loaded at start-up
  AddressOrder,  \* the same, in the order of their addresses
  Checked,       \* those with a CRC
  Width,         \* Width[r]: how many fields
  PageSize,
  Values,        \* of a field; Zero is one of them
  Zero,
  Default,       \* Default[r]: the default configuration
  Blank,         \* an erased cell
  None,
  MaxEdits, MaxFaults  \* bounds on the edits, and on the errors of the bus and power cuts

Records == {InitOrder[i] : i \in DOMAIN InitOrder}
Fields(r) == 1..Width[r]
Configs(r) == [Fields(r) -> Values \union {Blank}]   \* erased bytes may be taken for a value
ZeroConfig(r) == [i \in Fields(r) |-> Zero]
Tasks == {"menu", "tcpip"}
Actors == Tasks \union {"boot"}

ASSUME SizesAssumption == PageSize \in Nat \ {0} /\ \A r \in Records : Width[r] \in Nat \ {0}
ASSUME DefaultAssumption == Zero \in Values /\ \A r \in Records : Default[r] \in Configs(r)
ASSUME OrderAssumption ==
  /\ InitOrder \in Seq(Records) /\ AddressOrder \in Seq(Records)
  /\ Len(AddressOrder) = Len(InitOrder) /\ InitOrder # <<>>
ASSUME NamesAssumption ==
  /\ Checked \subseteq Records /\ None \notin Actors
  /\ Blank \notin Values /\ \A r \in Records : Blank \notin Configs(r)

\* Revision, fields, CRC.
Length(r) == Width[r] + IF r \in Checked THEN 2 ELSE 1
Cells(r) == 1..Length(r)
\* cat24c256_write: Length \div PageSize full pages, then the rest, which may be empty.
LastChunk(r) == Length(r) \div PageSize
ChunkSizeFull(r, k) == IF k = LastChunk(r) THEN 0 ELSE PageSize   \* mutant: the rest is not written
ChunkSize(r, k) == IF k = LastChunk(r) THEN Length(r) - k * PageSize ELSE PageSize
Chunk(r, k) == {k * PageSize + i : i \in 1..ChunkSize(r, k)}

VARIABLES
  cell,          \* cell[r][i]: the EEPROM
  ram,           \* ram[r]: the configuration in memory
  registered,    \* eeprom_save_handler_head: what eeprom_save_all saves, in its order
  boot,          \* how many records start-up has dealt with; then the scheduler runs
  mutex,         \* eeprom_access_mutex
  op,            \* op[t]: what each task is doing
  edits, faults,   \* counted against the bounds
  known,         \* history: configurations a save has begun with
  committed      \* history: the configuration of the last save, if it ended undisturbed

counters == <<edits, faults>>
vars == <<cell, ram, registered, boot, mutex, op, counters, known, committed>>

Idle == [at |-> "idle", todo |-> <<>>, erase |-> FALSE, reset |-> FALSE,
         sum |-> <<>>, buf |-> <<>>, rec |-> 1, chunk |-> 0, raced |-> FALSE]

\* What a load makes of a record's cells.
FieldsOf(r, c) == [i \in Fields(r) |-> c[i + 1]]
AcceptedUnchecked(r, c) ==      \* mutant: the CRC is not compared
  IF r \in Checked THEN c[1] \in {"legacy", "zero"} ELSE c[1] = "rev"
Accepted(r, c) ==
  IF r \in Checked
  THEN c[1] = "legacy" \/ (c[1] = "zero" /\ c[Length(r)] = FieldsOf(r, c))
  ELSE c[1] = "rev"
Reads(r, c) == IF Accepted(r, c) THEN FieldsOf(r, c) ELSE Default[r]
Legacy(r) == cell[r][1] = "legacy"

\* A board never started, or one with a record saved or left by an older firmware.
Fresh(r) == [i \in Cells(r) |-> Blank]
Stored(r, rev, f) ==
  [i \in Cells(r) |-> CASE i = 1 -> rev
                        [] i \in 2..(Width[r] + 1) -> f[i - 1]
                        [] OTHER -> IF rev = "zero" THEN f ELSE Blank]
Revisions(r) == IF r \in Checked THEN {"zero", "legacy"} ELSE {"rev"}

Found(r) == {Fresh(r)} \union
  {Stored(r, rev, f) : rev \in Revisions(r), f \in [Fields(r) -> Values \ {Zero}]}

Init ==
  /\ cell \in [Records -> UNION {Found(r) : r \in Records}]
  /\ \A r \in Records : cell[r] \in Found(r)
  /\ ram = [r \in Records |-> ZeroConfig(r)]
  /\ registered = <<>>
  /\ boot = 0
  /\ mutex = None
  /\ op = [t \in Actors |-> Idle]
  /\ edits = 0 /\ faults = 0
  /\ known = [r \in Checked |-> IF Accepted(r, cell[r]) THEN {FieldsOf(r, cell[r])} ELSE {}]
  /\ committed = [r \in Records |-> None]

Running == boot = Len(InitOrder)
Rec(t) == Head(op[t].todo)

Fault == faults < MaxFaults /\ faults' = faults + 1
BusError == Fault /\ UNCHANGED edits

-----------------------------------------------------------------------------
(* save_config: the CRC, the copy, the pages under the mutex. *)

\* Where a task goes when it has nothing left to do for the record at hand.
Onward(o) ==
  IF o.todo # <<>> THEN [Idle EXCEPT !.at = "sum", !.todo = o.todo, !.erase = o.erase, !.reset = o.reset]
  ELSE IF o.erase THEN [Idle EXCEPT !.at = "erase", !.reset = o.reset]
  ELSE IF o.reset THEN [Idle EXCEPT !.at = "reset"]
  ELSE Idle

RecordDone(o) == Onward([o EXCEPT !.todo = Tail(@)])

Sum(t) ==
  /\ op[t].at = "sum"
  /\ LET r == Rec(t) IN
     /\ op' = [op EXCEPT ![t].at = IF r \in Checked THEN "copy" ELSE "take",
                         ![t].sum = ram[r], ![t].raced = FALSE]
     /\ known' = IF r \in Checked THEN [known EXCEPT ![r] = @ \union {ram[r]}] ELSE known
  /\ UNCHANGED <<cell, ram, registered, boot, mutex, counters, committed>>

Copy(t) ==
  /\ op[t].at = "copy"
  /\ op' = [op EXCEPT ![t].at = "take", ![t].buf = ram[Rec(t)]]
  /\ UNCHANGED <<cell, ram, registered, boot, mutex, counters, known, committed>>

\* eeprom_write; before the scheduler runs there is no mutex and nobody else.
Take(t) ==
  /\ op[t].at = "take"
  /\ mutex = None
  /\ mutex' = IF t = "boot" THEN None ELSE t
  /\ op' = [op EXCEPT ![t].at = "write", ![t].chunk = 0]
  /\ UNCHANGED <<cell, ram, registered, boot, counters, known, committed>>

Written(t, r, i) ==
  IF i = 1 THEN IF r \in Checked THEN "zero" ELSE "rev"
  ELSE IF r \notin Checked THEN ram[r][i - 1]
  ELSE IF i = Length(r) THEN op[t].sum
  ELSE op[t].buf[i - 1]

WriteChunk(t) ==
  /\ op[t].at = "write"
  /\ LET r == Rec(t)
         k == op[t].chunk IN
     /\ cell' = [cell EXCEPT ![r] = [i \in Cells(r) |->
                   IF i \in Chunk(r, k) THEN Written(t, r, i) ELSE @[i]]]
     /\ IF k = LastChunk(r)
        THEN /\ op' = [op EXCEPT ![t] = RecordDone(@)]
             /\ mutex' = None
             /\ committed' = [committed EXCEPT ![r] = IF op[t].raced THEN None ELSE op[t].sum]
             /\ registered' = IF t = "boot" THEN <<r>> \o registered ELSE registered
             /\ boot' = IF t = "boot" THEN boot + 1 ELSE boot
        ELSE /\ op' = [op EXCEPT ![t].chunk = @ + 1]
             /\ committed' = [committed EXCEPT ![r] = None]
             /\ UNCHANGED <<mutex, registered, boot>>
  /\ UNCHANGED <<ram, counters, known>>

\* The bus gives an error: the save ends there.  The next record is saved all the same.
WriteFails(t) ==
  /\ op[t].at = "write"
  /\ BusError
  /\ op' = [op EXCEPT ![t] = RecordDone(@)]
  /\ mutex' = None
  /\ boot' = IF t = "boot" THEN boot + 1 ELSE boot
  /\ UNCHANGED <<cell, ram, registered, known, committed>>

-----------------------------------------------------------------------------
(* Start-up: every record is loaded, and saved if it was not as it should be. *)

Loading == ~Running /\ op["boot"].at = "idle"
NextRecord == InitOrder[boot + 1]

LoadFails ==
  /\ Loading
  /\ BusError
  /\ LET r == NextRecord IN
     /\ ram' = [ram EXCEPT ![r] = IF r \in Checked THEN ZeroConfig(r) ELSE Default[r]]
     /\ registered' = IF r \in Checked THEN registered ELSE <<r>> \o registered
  /\ boot' = boot + 1
  /\ UNCHANGED <<cell, mutex, op, known, committed>>

Load ==
  /\ Loading
  /\ LET r == NextRecord
         good == r \notin Checked \/ (Accepted(r, cell[r]) /\ cell[r][1] = "zero") IN
     /\ ram' = [ram EXCEPT ![r] = Reads(r, cell[r])]
     /\ op' = IF good THEN op
              ELSE [op EXCEPT !["boot"] = Onward([Idle EXCEPT !.todo = <<r>>])]
     /\ boot' = IF good THEN boot + 1 ELSE boot
     /\ registered' = IF good THEN <<r>> \o registered ELSE registered
  /\ UNCHANGED <<cell, mutex, counters, known, committed>>

-----------------------------------------------------------------------------
(* What the running tasks ask for. *)

\* A task that saves r while its configuration, or its pages, change under it.
Disturbed(t, r, at) == op[t].todo # <<>> /\ Rec(t) = r /\ op[t].at \in at

\* The REST handler of a record changes a field in memory ...
Edit ==
  /\ Running /\ op["tcpip"].at = "idle"
  /\ edits < MaxEdits
  /\ edits' = edits + 1
  /\ \E r \in Records : \E i \in Fields(r), v \in Values :
       /\ ram' = [ram EXCEPT ![r][i] = v]
       /\ op' = [op EXCEPT !["menu"].raced = @ \/
                   Disturbed("menu", r, IF r \in Checked THEN {"copy"} ELSE {"take", "write"})]
  /\ UNCHANGED <<cell, registered, boot, mutex, faults, known, committed>>

\* ... and saves it if the request says so.
SaveOne ==
  /\ Running /\ op["tcpip"].at = "idle"
  /\ \E r \in Records : op' = [op EXCEPT !["tcpip"] = Onward([Idle EXCEPT !.todo = <<r>>])]
  /\ UNCHANGED <<cell, ram, registered, boot, mutex, counters, known, committed>>

Request(t, save, erase, reset) ==
  /\ Running /\ op[t].at = "idle"
  /\ op' = [op EXCEPT ![t] = Onward([Idle EXCEPT !.todo = IF save THEN registered ELSE <<>>,
                                                 !.erase = erase, !.reset = reset])]
  /\ UNCHANGED <<cell, ram, registered, boot, mutex, counters, known, committed>>

SystemControl == \E s, e, r \in BOOLEAN : (s \/ e \/ r) /\ Request("tcpip", s, e, r)
MenuSaveAll == Request("menu", TRUE, FALSE, FALSE)
MenuErase == Request("menu", FALSE, TRUE, TRUE)
MenuReboot == Request("menu", FALSE, FALSE, TRUE)

\* cat24c256_eeprom_erase: page after page in the order of the addresses, without the
\* mutex; a page the bus fails on is left as it is.
EraseChunk(t) ==
  /\ op[t].at = "erase"
  /\ LET r == AddressOrder[op[t].rec]
         k == op[t].chunk
         o == IF (k + 1) * PageSize < Length(r) THEN [op[t] EXCEPT !.chunk = @ + 1]
              ELSE IF op[t].rec < Len(AddressOrder) THEN [op[t] EXCEPT !.rec = @ + 1, !.chunk = 0]
              ELSE Onward([op[t] EXCEPT !.erase = FALSE]) IN
     /\ \/ /\ cell' = [cell EXCEPT ![r] = [i \in Cells(r) |->
                         IF i \in Chunk(r, k) THEN Blank ELSE @[i]]]
           /\ UNCHANGED counters
        \/ BusError /\ UNCHANGED cell
     /\ committed' = [committed EXCEPT ![r] = None]
     /\ op' = [u \in Actors |-> IF u = t THEN o
                 ELSE [op[u] EXCEPT !.raced = @ \/ Disturbed(u, r, {"write"})]]
  /\ UNCHANGED <<ram, registered, boot, mutex, known>>

\* Everything but the EEPROM is lost, and start-up begins again.
Restart ==
  /\ ram' = [r \in Records |-> ZeroConfig(r)]
  /\ registered' = <<>>
  /\ boot' = 0
  /\ mutex' = None
  /\ op' = [t \in Actors |-> Idle]
  /\ UNCHANGED <<cell, edits, known, committed>>

Reset(t) == op[t].at = "reset" /\ Restart /\ UNCHANGED faults
PowerCut == Fault /\ Restart

-----------------------------------------------------------------------------

Saving(t) == Sum(t) \/ Copy(t) \/ Take(t) \/ WriteChunk(t) \/ WriteFails(t)
StartUp == LoadFails \/ Load
Asking == Edit \/ SaveOne \/ SystemControl \/ MenuSaveAll \/ MenuErase \/ MenuReboot

Next ==
  \/ \E t \in Actors : Saving(t)
  \/ \E t \in Tasks : EraseChunk(t) \/ Reset(t)
  \/ StartUp \/ Asking \/ PowerCut

Spec == Init /\ [][Next]_vars

-----------------------------------------------------------------------------
(* Properties. *)

\* Every variable holds a value the code can give it.
TypeOK ==
  /\ \A r \in Records : \A i \in Cells(r) :
       cell[r][i] \in {Blank} \union (IF i = 1 THEN {"zero", "legacy", "rev"}
                                     ELSE IF i = Width[r] + 2 THEN Configs(r) ELSE Values)
  /\ \A r \in Records : ram[r] \in Configs(r)
  /\ \A r \in Checked : known[r] \subseteq Configs(r)
  /\ registered \in Seq(Records)
  /\ boot \in 0..Len(InitOrder)
  /\ mutex \in Tasks \union {None}
  /\ \A t \in Actors : op[t].todo \in Seq(Records) /\ op[t].chunk \in Nat

\* What a record with a CRC reads as; one of the old format is another matter, it is taken
\* for what it says (the FIXME in load_config).
ReadsChecked == [r \in Checked |-> IF Legacy(r) THEN Default[r] ELSE Reads(r, cell[r])]

\* A record with a CRC never reads as a mixture of two configurations: wherever power
\* goes, whatever is edited or erased during a save (common.c: load_config).
NeverAMixture ==
  \A r \in Checked : ReadsChecked[r] \in known[r] \union {Default[r]}

\* The last save that ended well is what the next start will load, of either kind of
\* record, until another save or an erase of it begins.  An edit between the CRC and the
\* copy is the one way to lose it (common.c:201).
CompletedSaveHolds ==
  \A r \in Records : committed[r] # None => Reads(r, cell[r]) = committed[r]

Store == INSTANCE RecordStore WITH
  Names <- Checked, Configurations <- UNION {Configs(r) : r \in Checked}, Defaults <- Default,
  reads <- ReadsChecked, known <- known

\* The pages, CRCs and revisions keep what the store promises (RecordStore).
KeepsPromise == Store!Spec

=============================================================================

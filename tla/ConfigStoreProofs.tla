--------------------------- MODULE ConfigStoreProofs ---------------------------
(***************************************************************************)
(* For any records, of any width, and pages of any size: a record with a    *)
(* CRC never reads as a mixture, so that ConfigStore implements RecordStore, *)
(* and a save that ends undisturbed is what the next start loads.           *)
(***************************************************************************)
EXTENDS ConfigStore, SequenceTheorems, TLAPS

Stages == {"idle", "sum", "copy", "take", "write", "erase", "reset"}
AnyConfig == {<<>>} \union UNION {Configs(r) : r \in Records}
Ops == [at : Stages, todo : Seq(Records), erase : BOOLEAN, reset : BOOLEAN,
        sum : AnyConfig, buf : AnyConfig, rec : Nat, chunk : Nat, raced : BOOLEAN]

\* A cell holds what its place allows.
CellOK(r, i, v) ==
  v \in {Blank} \union (IF i = 1 THEN {"zero", "legacy", "rev"}
                        ELSE IF i = Width[r] + 2 THEN Configs(r) ELSE Values)

Shape ==
  /\ DOMAIN cell = Records /\ \A r \in Records : \A i \in Cells(r) : CellOK(r, i, cell[r][i])
  /\ DOMAIN ram = Records /\ \A r \in Records : ram[r] \in Configs(r)
  /\ DOMAIN known = Checked /\ \A r \in Checked : known[r] \subseteq Configs(r)
  /\ DOMAIN committed = Records
  /\ op \in [Actors -> Ops]
  /\ registered \in Seq(Records) /\ boot \in 0..Len(InitOrder) /\ mutex \in Tasks \union {None}

\* What a save holds of the record at hand: the fields it summed have begun a save.
Busy == {"sum", "copy", "take", "write"}
SaveOK(o, begun) ==
  /\ o.at \in Busy => o.todo # <<>>
  /\ o.at = "copy" => Head(o.todo) \in Checked
  /\ o.at \in Busy \ {"sum"} =>
       /\ o.sum \in Configs(Head(o.todo))
       /\ Head(o.todo) \in Checked => o.sum \in begun[Head(o.todo)]
  /\ o.at \in {"take", "write"} /\ Head(o.todo) \in Checked => o.buf \in Configs(Head(o.todo))
SaveInv == \A t \in Actors : SaveOK(op[t], known)

\* Start-up and the tasks never overlap.
BootInv ==
  /\ op["boot"].at # "idle" =>
       /\ ~Running /\ Len(op["boot"].todo) = 1 /\ ~op["boot"].erase /\ ~op["boot"].reset
       /\ op["boot"].at \in Busy
  /\ ~Running => \A t \in Tasks : op[t].at = "idle"

\* A CRC in the EEPROM was computed over a configuration some save began with.
CrcInv == \A r \in Checked : cell[r][Length(r)] \in known[r] \union {Blank}

-----------------------------------------------------------------------------

LEMMA Sizes ==
  /\ PageSize \in Nat /\ PageSize > 0
  /\ \A r \in Records : Width[r] \in Nat /\ Width[r] > 0 /\ Length(r) \in Nat /\ Length(r) > 1
  /\ \A r \in Checked : r \in Records /\ Length(r) = Width[r] + 2
BY SizesAssumption, NamesAssumption DEF Length

\* What a task is when it does nothing, or has something left to do.
LEMMA IdleFacts == Idle \in Ops /\ Idle.at = "idle" /\ Idle.todo = <<>> /\ ~Idle.raced
<1>1. <<>> \in AnyConfig /\ <<>> \in Seq(Records)
  BY EmptySeq DEF AnyConfig
<1>2. QED
  BY <1>1 DEF Idle, Ops, Stages

LEMMA OnwardFacts ==
  ASSUME NEW o \in Ops
  PROVE  /\ Onward(o) \in Ops
         /\ Onward(o).at \in {"idle", "sum", "erase", "reset"}
         /\ Onward(o).at = "sum" => Onward(o).todo # <<>>
         /\ ~Onward(o).raced
         /\ o.todo = <<>> /\ ~o.erase /\ ~o.reset => Onward(o) = Idle
         /\ o.todo # <<>> => /\ Onward(o).at = "sum" /\ Onward(o).todo = o.todo
                             /\ Onward(o).erase = o.erase /\ Onward(o).reset = o.reset
<1>1. /\ o.todo \in Seq(Records) /\ o.erase \in BOOLEAN /\ o.reset \in BOOLEAN
  BY DEF Ops
<1>2. Idle \in Ops /\ Idle.todo = <<>> /\ ~Idle.raced
  BY IdleFacts
<1>3. CASE o.todo # <<>>
  <2>1. Onward(o) = [Idle EXCEPT !.at = "sum", !.todo = o.todo, !.erase = o.erase, !.reset = o.reset]
    BY <1>3 DEF Onward
  <2>2. QED
    BY <1>1, <1>2, <1>3, <2>1 DEF Ops, Stages
<1>4. CASE o.todo = <<>> /\ o.erase
  <2>1. Onward(o) = [Idle EXCEPT !.at = "erase", !.reset = o.reset]
    BY <1>4 DEF Onward
  <2>2. QED
    BY <1>1, <1>2, <1>4, <2>1 DEF Ops, Stages
<1>5. CASE o.todo = <<>> /\ ~o.erase /\ o.reset
  <2>1. Onward(o) = [Idle EXCEPT !.at = "reset"]
    BY <1>5 DEF Onward
  <2>2. QED
    BY <1>1, <1>2, <1>5, <2>1 DEF Ops, Stages
<1>6. CASE o.todo = <<>> /\ ~o.erase /\ ~o.reset
  BY <1>2, <1>6, IdleFacts DEF Onward
<1>7. QED
  BY <1>3, <1>4, <1>5, <1>6

\* What is left to do after the record at hand.
LEMMA TailFacts ==
  ASSUME NEW o \in Ops, o.todo # <<>>
  PROVE  /\ Head(o.todo) \in Records
         /\ [o EXCEPT !.todo = Tail(@)] \in Ops
         /\ [o EXCEPT !.todo = Tail(@)].todo = Tail(o.todo)
         /\ [o EXCEPT !.todo = Tail(@)].erase = o.erase
         /\ [o EXCEPT !.todo = Tail(@)].reset = o.reset
         /\ Len(o.todo) = 1 => Tail(o.todo) = <<>>
<1>1. o.todo \in Seq(Records)
  BY DEF Ops
<1>2. Head(o.todo) \in Records /\ Tail(o.todo) \in Seq(Records) /\ (Len(o.todo) = 1 => Tail(o.todo) = <<>>)
  <2>1. /\ Head(o.todo) \in Records /\ Tail(o.todo) \in Seq(Records)
        /\ Len(Tail(o.todo)) = Len(o.todo) - 1
    BY <1>1, HeadTailProperties
  <2>2. Tail(o.todo) # <<>> => Len(Tail(o.todo)) \in Nat \ {0}
    BY <2>1, EmptySeq
  <2>3. QED
    BY <2>1, <2>2
<1>3. PICK rest : rest = Tail(o.todo)
  OBVIOUS
<1>4. [o EXCEPT !.todo = Tail(@)] = [o EXCEPT !.todo = rest]
  BY <1>3
<1>5. QED
  BY <1>2, <1>3, <1>4 DEF Ops

\* A load takes cells for a configuration.
LEMMA ReadsFacts ==
  ASSUME Shape, NEW r \in Records
  PROVE  FieldsOf(r, cell[r]) \in Configs(r) /\ Reads(r, cell[r]) \in Configs(r)
<1>1. \A i \in Fields(r) : i + 1 \in Cells(r) /\ i + 1 # 1 /\ i + 1 # Width[r] + 2
  BY Sizes DEF Fields, Cells, Length
<1>2. \A i \in Fields(r) : cell[r][i + 1] \in Values \union {Blank}
  BY <1>1 DEF Shape, CellOK
<1>3. FieldsOf(r, cell[r]) \in Configs(r)
  BY <1>2 DEF FieldsOf, Configs
<1>4. QED
  BY <1>3, DefaultAssumption DEF Reads

\* What a CRC in its place says: the cells are a configuration a save began with.
LEMMA CrcMeans ==
  ASSUME Shape, CrcInv
  PROVE  NeverAMixture
<1> SUFFICES ASSUME NEW r \in Checked
             PROVE  ReadsChecked[r] \in known[r] \union {Default[r]}
  BY DEF NeverAMixture
<1>1. r \in Records /\ FieldsOf(r, cell[r]) \in Configs(r)
  BY Sizes, ReadsFacts
<1>2. CASE Legacy(r) \/ ~Accepted(r, cell[r])
  BY <1>2 DEF ReadsChecked, Reads
<1>3. CASE ~Legacy(r) /\ Accepted(r, cell[r])
  <2>1. cell[r][Length(r)] = FieldsOf(r, cell[r])
    BY <1>3 DEF Accepted, Legacy
  <2>2. FieldsOf(r, cell[r]) # Blank
    BY <1>1, NamesAssumption
  <2>3. FieldsOf(r, cell[r]) \in known[r]
    BY <2>1, <2>2 DEF CrcInv
  <2>4. QED
    BY <1>3, <2>3 DEF ReadsChecked, Reads
<1>4. QED
  BY <1>2, <1>3

-----------------------------------------------------------------------------
(* The steps of a save, of an erase and of start-up, and what each leaves.  *)

IInv == Shape /\ SaveInv /\ BootInv /\ CrcInv

\* The record at hand, as long as there is one.
LEMMA RecFacts ==
  ASSUME IInv, NEW t \in Actors, op[t].at \in Busy
  PROVE  /\ Rec(t) = Head(op[t].todo) /\ Rec(t) \in Records /\ op[t].todo # <<>>
         /\ op[t].at # "sum" => op[t].sum \in Configs(Rec(t))
         /\ op[t].at # "sum" /\ Rec(t) \in Checked => op[t].sum \in known[Rec(t)]
         /\ op[t].at \in {"take", "write"} /\ Rec(t) \in Checked => op[t].buf \in Configs(Rec(t))
<1>1. op[t] \in Ops /\ SaveOK(op[t], known)
  BY DEF IInv, Shape, SaveInv
<1>2. op[t].todo # <<>>
  BY <1>1 DEF SaveOK
<1>3. QED
  BY <1>1, <1>2, TailFacts DEF SaveOK, Rec, Busy

\* A task that is not idle runs after start-up, or is start-up.
LEMMA WhoRuns ==
  ASSUME IInv, NEW t \in Actors, op[t].at # "idle"
  PROVE  /\ t = "boot" => ~Running /\ Len(op[t].todo) = 1 /\ ~op[t].erase /\ ~op[t].reset
         /\ t \in Tasks => Running
BY DEF IInv, BootInv

\* When one task moves, the others keep what they hold of their saves, also when more
\* saves have begun.
KnownOK == DOMAIN known = Checked /\ \A r \in Checked : known[r] \subseteq Configs(r)
Grown == \A r \in Checked : known[r] \subseteq known'[r]

LEMMA OneMoves ==
  ASSUME IInv, NEW t \in Actors, NEW o \in Ops, op' = [op EXCEPT ![t] = o], Grown
  PROVE  /\ op' \in [Actors -> Ops]
         /\ op'[t] = o /\ \A u \in Actors \ {t} : op'[u] = op[u]
         /\ SaveOK(o, known') => SaveInv'
<1>1. op \in [Actors -> Ops]
  BY DEF IInv, Shape
<1>2. /\ op' \in [Actors -> Ops]
      /\ op'[t] = o /\ \A u \in Actors \ {t} : op'[u] = op[u]
  BY <1>1
<1>3. \A u \in Actors \ {t} : SaveOK(op'[u], known')
  <2>1. \A u \in Actors \ {t} : SaveOK(op[u], known)
    BY DEF IInv, SaveInv
  <2>2. QED
    BY <1>2, <2>1 DEF SaveOK, Grown
<1>4. QED
  BY <1>2, <1>3 DEF SaveInv

LEMMA BootKept ==
  ASSUME IInv, NEW t \in Actors, NEW o \in Ops, op' = [op EXCEPT ![t] = o], boot' = boot,
         t \in Tasks => Running,
         t = "boot" => ~Running /\ o.at \in Busy /\ Len(o.todo) = 1 /\ ~o.erase /\ ~o.reset
  PROVE  BootInv'
<1>1. op'[t] = o /\ \A u \in Actors \ {t} : op'[u] = op[u]
  BY DEF IInv, Shape
<1>2. Running' = Running
  BY DEF Running
<1>3. CASE t = "boot"
  BY <1>1, <1>2, <1>3 DEF BootInv, Tasks, Actors, IInv
<1>4. CASE t \in Tasks
  BY <1>1, <1>2, <1>4 DEF BootInv, Tasks, Actors, IInv
<1>5. QED
  BY <1>3, <1>4 DEF Actors

LEMMA SumStep ==
  ASSUME IInv, NEW t \in Actors, Sum(t)
  PROVE  IInv'
<1> DEFINE r == Rec(t)
           at == IF r \in Checked THEN "copy" ELSE "take"
           o == [op[t] EXCEPT !.at = at, !.sum = ram[r], !.raced = FALSE]
<1>1. /\ op[t].at = "sum" /\ op[t] \in Ops /\ op[t].todo # <<>> /\ r = Head(op[t].todo)
      /\ r \in Records /\ ram[r] \in Configs(r) /\ ram[r] \in AnyConfig
  BY RecFacts DEF Sum, IInv, Shape, Busy, AnyConfig
<1>2. op' = [op EXCEPT ![t] = o]
  BY <1>1 DEF Sum, IInv, Shape
<1>3. UNCHANGED <<cell, ram, registered, boot, mutex, counters, committed>>
  BY DEF Sum
<1>4. known' = IF r \in Checked THEN [known EXCEPT ![r] = known[r] \union {ram[r]}] ELSE known
  BY DEF Sum
<1>5. KnownOK' /\ Grown /\ (r \in Checked => ram[r] \in known'[r])
  BY <1>1, <1>4 DEF IInv, Shape, KnownOK, Grown
<1>6. /\ o \in Ops /\ o.at = at /\ o.sum = ram[r] /\ o.todo = op[t].todo
      /\ o.erase = op[t].erase /\ o.reset = op[t].reset
  BY <1>1 DEF Ops, Stages
<1> HIDE DEF o, r
<1>7. SaveOK(o, known')
  BY <1>1, <1>5, <1>6 DEF SaveOK, Busy
<1>8. BootInv'
  BY <1>1, <1>2, <1>3, <1>6, WhoRuns, BootKept DEF Busy
<1>9. Shape'
  BY <1>2, <1>3, <1>5, <1>6, OneMoves DEF IInv, Shape, KnownOK
<1>10. CrcInv'
  BY <1>3, <1>5 DEF IInv, CrcInv, Grown
<1>11. QED
  BY <1>2, <1>5, <1>6, <1>7, <1>8, <1>9, <1>10, OneMoves DEF IInv

LEMMA CopyTakeStep ==
  ASSUME IInv, NEW t \in Actors, Copy(t) \/ Take(t)
  PROVE  IInv'
<1>1. UNCHANGED <<cell, ram, registered, boot, counters, known, committed>>
  BY DEF Copy, Take
<1>2. op[t] \in Ops /\ Grown /\ op[t].at \in {"copy", "take"} /\ op[t].at \in Busy
  BY <1>1 DEF IInv, Shape, Grown, Copy, Take, Busy
<1>3. PICK o \in Ops :
        /\ op' = [op EXCEPT ![t] = o]
        /\ o.at \in Busy \ {"sum", "copy"} /\ o.sum = op[t].sum /\ o.todo = op[t].todo
        /\ o.erase = op[t].erase /\ o.reset = op[t].reset
        /\ Rec(t) \in Checked => o.buf \in Configs(Rec(t))
  <2>1. CASE Copy(t)
    <3>1. ram[Rec(t)] \in Configs(Rec(t)) /\ ram[Rec(t)] \in AnyConfig
      BY <1>2, RecFacts DEF IInv, Shape, AnyConfig
    <3>2. op' = [op EXCEPT ![t] = [op[t] EXCEPT !.at = "take", !.buf = ram[Rec(t)]]]
      BY <1>2, <2>1 DEF Copy, IInv, Shape
    <3>3. PICK o : o = [op[t] EXCEPT !.at = "take", !.buf = ram[Rec(t)]]
      OBVIOUS
    <3>4. o \in Ops /\ o.at = "take" /\ o.sum = op[t].sum /\ o.todo = op[t].todo
          /\ o.erase = op[t].erase /\ o.reset = op[t].reset /\ o.buf = ram[Rec(t)]
      BY <1>2, <3>1, <3>3 DEF Ops, Stages
    <3>5. QED
      BY <3>1, <3>2, <3>3, <3>4 DEF Busy
  <2>2. CASE Take(t)
    <3>1. op' = [op EXCEPT ![t] = [op[t] EXCEPT !.at = "write", !.chunk = 0]]
      BY <1>2, <2>2 DEF Take, IInv, Shape
    <3>2. PICK o : o = [op[t] EXCEPT !.at = "write", !.chunk = 0]
      OBVIOUS
    <3>3. o \in Ops /\ o.at = "write" /\ o.sum = op[t].sum /\ o.todo = op[t].todo
          /\ o.erase = op[t].erase /\ o.reset = op[t].reset /\ o.buf = op[t].buf
      BY <1>2, <3>2 DEF Ops, Stages
    <3>4. Rec(t) \in Checked => op[t].buf \in Configs(Rec(t))
      BY <1>2, <2>2, RecFacts DEF Take
    <3>5. QED
      BY <3>1, <3>2, <3>3, <3>4 DEF Busy
  <2>3. QED
    BY <2>1, <2>2
<1>4. SaveOK(o, known')
  BY <1>1, <1>2, <1>3, RecFacts DEF SaveOK, Busy
<1>5. BootInv'
  BY <1>1, <1>2, <1>3, WhoRuns, BootKept DEF Busy
<1>6. mutex' \in Tasks \union {None}
  BY DEF Copy, Take, IInv, Shape, Actors
<1>7. Shape'
  BY <1>1, <1>2, <1>3, <1>6, OneMoves DEF IInv, Shape
<1>8. CrcInv'
  BY <1>1 DEF IInv, CrcInv
<1>9. QED
  BY <1>2, <1>3, <1>4, <1>5, <1>7, <1>8, OneMoves DEF IInv

\* The end of a save, good or bad: the next record, or what comes after the last.
Ended(t) ==
  /\ op' = [op EXCEPT ![t] = RecordDone(@)]
  /\ boot' = IF t = "boot" THEN boot + 1 ELSE boot

LEMMA EndFacts ==
  ASSUME IInv, NEW t \in Actors, op[t].at = "write", Ended(t), known' = known
  PROVE  /\ op' \in [Actors -> Ops] /\ SaveInv' /\ BootInv' /\ boot' \in 0..Len(InitOrder)
         /\ op'[t].at \in {"idle", "sum", "erase", "reset"} /\ \A u \in Actors \ {t} : op'[u] = op[u]
<1>1. op[t] \in Ops /\ op[t].todo # <<>> /\ Grown
  BY RecFacts DEF IInv, Shape, Busy, Grown
<1>2. PICK q : q = [op[t] EXCEPT !.todo = Tail(@)]
  OBVIOUS
<1>3. q \in Ops /\ q.erase = op[t].erase /\ q.reset = op[t].reset /\ (Len(op[t].todo) = 1 => q.todo = <<>>)
  BY <1>1, <1>2, TailFacts
<1>4. PICK o \in Ops : o = Onward(q)
  BY <1>3, OnwardFacts
<1>5. op' = [op EXCEPT ![t] = o]
  BY <1>2, <1>4 DEF Ended, RecordDone
<1>6. o.at \in {"idle", "sum", "erase", "reset"} /\ (o.at = "sum" => o.todo # <<>>)
  BY <1>3, <1>4, OnwardFacts
<1>7. SaveOK(o, known')
  BY <1>6 DEF SaveOK, Busy
<1>8. BootInv' /\ boot' \in 0..Len(InitOrder)
  <2>1. CASE t = "boot"
    <3>1. ~Running /\ o = Idle
      BY <1>1, <1>3, <1>4, <2>1, WhoRuns, OnwardFacts
    <3>2. op'["boot"].at = "idle"
      BY <1>1, <1>5, <2>1, <3>1, IdleFacts, OneMoves
    <3>3. \A u \in Tasks : op'[u].at = "idle"
      BY <1>1, <1>5, <2>1, <3>1, OneMoves DEF IInv, BootInv, Tasks, Actors
    <3>4. boot' \in 0..Len(InitOrder)
      BY <2>1, <3>1, OrderAssumption, LenProperties DEF Ended, IInv, Shape, Running
    <3>5. QED
      BY <3>2, <3>3, <3>4 DEF BootInv
  <2>2. CASE t \in Tasks
    <3>1. Running /\ boot' = boot
      BY <2>2, WhoRuns DEF Ended, Tasks
    <3>2. QED
      BY <1>5, <2>2, <3>1, BootKept DEF IInv, Shape, Tasks
  <2>3. QED
    BY <2>1, <2>2 DEF Actors
<1>9. QED
  BY <1>1, <1>5, <1>6, <1>7, <1>8, OneMoves

\* What a page holds once it is written.
LEMMA WrittenFacts ==
  ASSUME IInv, NEW t \in Actors, op[t].at = "write", NEW i \in Cells(Rec(t))
  PROVE  /\ CellOK(Rec(t), i, Written(t, Rec(t), i))
         /\ Rec(t) \in Checked /\ i = Length(Rec(t)) =>
              Written(t, Rec(t), i) \in known[Rec(t)]
<1> DEFINE r == Rec(t)
<1>1. /\ r \in Records /\ op[t].sum \in Configs(r) /\ ram[r] \in Configs(r)
      /\ r \in Checked => op[t].buf \in Configs(r) /\ op[t].sum \in known[r]
  BY RecFacts DEF Busy, IInv, Shape
<1>2. /\ Width[r] \in Nat /\ Width[r] > 0 /\ i \in 1..Length(r)
      /\ Length(r) = IF r \in Checked THEN Width[r] + 2 ELSE Width[r] + 1
  BY <1>1, Sizes DEF Length, Cells
<1> HIDE DEF r
<1>3. CASE i = 1
  BY <1>2, <1>3 DEF CellOK, Written, r
<1>4. CASE i # 1 /\ r \notin Checked
  <2>1. i - 1 \in Fields(r) /\ i # Width[r] + 2
    BY <1>2, <1>4 DEF Fields
  <2>2. ram[r][i - 1] \in Values \union {Blank}
    BY <1>1, <2>1 DEF Configs
  <2>3. QED
    BY <1>4, <2>1, <2>2 DEF CellOK, Written, r
<1>5. CASE i = Length(r) /\ r \in Checked
  BY <1>1, <1>2, <1>5 DEF CellOK, Written, r
<1>6. CASE i # 1 /\ i # Length(r) /\ r \in Checked
  <2>1. i - 1 \in Fields(r) /\ i # Width[r] + 2
    BY <1>2, <1>6 DEF Fields
  <2>2. op[t].buf[i - 1] \in Values \union {Blank}
    BY <1>1, <1>6, <2>1 DEF Configs
  <2>3. QED
    BY <1>6, <2>1, <2>2 DEF CellOK, Written, r
<1>7. QED
  BY <1>2, <1>3, <1>4, <1>5, <1>6 DEF r

\* The cells of one record change, into what its places allow.
CellsOK == DOMAIN cell = Records /\ \A r \in Records : \A i \in Cells(r) : CellOK(r, i, cell[r][i])

LEMMA CellsChange ==
  ASSUME IInv, known' = known, NEW q \in Records, NEW S,
         NEW V, \A i \in Cells(q) : CellOK(q, i, V[i]),
         q \in Checked => V[Length(q)] \in known[q] \union {Blank},
         cell' = [cell EXCEPT ![q] = [i \in Cells(q) |-> IF i \in S THEN V[i] ELSE @[i]]]
  PROVE  CellsOK' /\ CrcInv'
<1>1. DOMAIN cell = Records /\ \A r \in Records : \A i \in Cells(r) : CellOK(r, i, cell[r][i])
  BY DEF IInv, Shape
<1>2. /\ \A r \in Records \ {q} : cell'[r] = cell[r]
      /\ cell'[q] = [i \in Cells(q) |-> IF i \in S THEN V[i] ELSE cell[q][i]]
      /\ DOMAIN cell' = Records
  BY <1>1
<1>3. \A r \in Records : \A i \in Cells(r) : CellOK(r, i, cell'[r][i])
  BY <1>1, <1>2
<1>4. \A r \in Checked : cell'[r][Length(r)] \in known[r] \union {Blank}
  <2>1. \A r \in Checked : r \in Records /\ Length(r) \in Cells(r)
    BY Sizes DEF Cells
  <2>2. \A r \in Checked : cell[r][Length(r)] \in known[r] \union {Blank}
    BY DEF IInv, CrcInv
  <2>3. QED
    BY <1>2, <2>1, <2>2
<1>5. QED
  BY <1>2, <1>3, <1>4 DEF CellsOK, CrcInv

LEMMA WriteChunkStep ==
  ASSUME IInv, NEW t \in Actors, WriteChunk(t)
  PROVE  IInv'
<1> DEFINE r == Rec(t)
           k == op[t].chunk
           V == [i \in Cells(r) |-> Written(t, r, i)]
<1>1. /\ op[t].at = "write" /\ r \in Records /\ op[t] \in Ops /\ op[t].todo # <<>> /\ r = Head(op[t].todo)
      /\ known' = known /\ ram' = ram
  BY RecFacts DEF WriteChunk, Busy, IInv, Shape
<1>2. CellsOK' /\ CrcInv'
  <2>1. cell' = [cell EXCEPT ![r] = [i \in Cells(r) |-> IF i \in Chunk(r, k) THEN V[i] ELSE @[i]]]
    BY DEF WriteChunk
  <2>2. \A i \in Cells(r) : CellOK(r, i, V[i])
    BY <1>1, WrittenFacts
  <2>3. r \in Checked => V[Length(r)] \in known[r]
    BY <1>1, WrittenFacts, Sizes DEF Cells
  <2> HIDE DEF V, r
  <2>4. QED
    BY <1>1, <2>1, <2>2, <2>3, CellsChange
<1>3. DOMAIN committed' = Records
  BY DEF WriteChunk, IInv, Shape
<1>4. CASE k = LastChunk(r)
  <2>1. Ended(t) /\ mutex' = None /\ (registered' = registered \/ registered' = <<r>> \o registered)
    BY <1>1, <1>4 DEF WriteChunk, Ended
  <2>2. registered' \in Seq(Records)
    <3>1. registered \in Seq(Records) /\ <<r>> \in Seq(Records)
      BY <1>1 DEF IInv, Shape
    <3>2. <<r>> \o registered \in Seq(Records)
      BY <3>1, ConcatProperties
    <3>3. QED
      BY <2>1, <3>1, <3>2
  <2>3. Shape'
    BY <1>1, <1>2, <1>3, <2>1, <2>2, EndFacts DEF Shape, CellsOK, IInv
  <2>4. QED
    BY <1>1, <1>2, <2>1, <2>3, EndFacts DEF IInv
<1>5. CASE k # LastChunk(r)
  <2>1. UNCHANGED <<mutex, registered, boot>>
    BY <1>5 DEF WriteChunk
  <2>2. PICK o : o = [op[t] EXCEPT !.chunk = k + 1]
    OBVIOUS
  <2>3. op' = [op EXCEPT ![t] = o]
    BY <1>1, <1>5, <2>2 DEF WriteChunk, IInv, Shape
  <2>4. /\ o \in Ops /\ o.at = op[t].at /\ o.todo = op[t].todo /\ o.sum = op[t].sum /\ o.buf = op[t].buf
        /\ o.erase = op[t].erase /\ o.reset = op[t].reset
    BY <1>1, <2>2 DEF Ops
  <2>5. SaveOK(o, known')
    BY <1>1, <2>4 DEF IInv, SaveInv, SaveOK
  <2>6. BootInv'
    BY <1>1, <2>1, <2>3, <2>4, WhoRuns, BootKept DEF Busy
  <2>7. Grown
    BY <1>1 DEF Grown
  <2>8. Shape'
    BY <1>1, <1>2, <1>3, <2>1, <2>3, <2>4, <2>7, OneMoves DEF Shape, CellsOK, IInv
  <2>9. QED
    BY <1>2, <2>3, <2>4, <2>5, <2>6, <2>7, <2>8, OneMoves DEF IInv
<1>6. QED
  BY <1>4, <1>5

LEMMA WriteFailsStep ==
  ASSUME IInv, NEW t \in Actors, WriteFails(t)
  PROVE  IInv'
<1>1. op[t].at = "write" /\ Ended(t) /\ mutex' = None /\ UNCHANGED <<cell, ram, registered, known, committed>>
  BY DEF WriteFails, Ended
<1>2. op' \in [Actors -> Ops] /\ SaveInv' /\ BootInv' /\ boot' \in 0..Len(InitOrder)
  BY <1>1, EndFacts
<1>3. Shape' /\ CrcInv'
  BY <1>1, <1>2 DEF IInv, Shape, CrcInv
<1>4. QED
  BY <1>2, <1>3 DEF IInv

\* A new request of a task that was idle.
LEMMA NewRequest ==
  ASSUME NEW todo \in Seq(Records), NEW erase \in BOOLEAN, NEW reset \in BOOLEAN
  PROVE  LET q == [Idle EXCEPT !.todo = todo, !.erase = erase, !.reset = reset]
         IN q \in Ops /\ q.todo = todo /\ q.erase = erase /\ q.reset = reset
BY IdleFacts DEF Ops

LEMMA AskStep ==
  ASSUME IInv, NEW t \in Tasks, Running, NEW q \in Ops, op' = [op EXCEPT ![t] = Onward(q)],
         UNCHANGED <<cell, ram, registered, boot, mutex, known, committed>>
  PROVE  IInv'
<1>1. PICK o \in Ops : o = Onward(q)
  BY OnwardFacts
<1>2. o.at \in {"idle", "sum", "erase", "reset"} /\ (o.at = "sum" => o.todo # <<>>)
  BY <1>1, OnwardFacts
<1>3. op' = [op EXCEPT ![t] = o] /\ t \in Actors /\ t # "boot" /\ Grown
  BY <1>1 DEF Actors, Tasks, Grown
<1>4. SaveOK(o, known')
  BY <1>2 DEF SaveOK, Busy
<1>5. BootInv'
  BY <1>3, BootKept
<1>6. Shape'
  BY <1>3, OneMoves DEF IInv, Shape
<1>7. CrcInv'
  BY DEF IInv, CrcInv
<1>8. QED
  BY <1>3, <1>4, <1>5, <1>6, <1>7, OneMoves DEF IInv

LEMMA SaveOneStep ==
  ASSUME IInv, SaveOne
  PROVE  IInv'
<1>1. PICK r \in Records : op' = [op EXCEPT !["tcpip"] = Onward([Idle EXCEPT !.todo = <<r>>])]
  BY DEF SaveOne
<1>2. PICK q : q = [Idle EXCEPT !.todo = <<r>>]
  OBVIOUS
<1>3. <<r>> \in Seq(Records)
  OBVIOUS
<1>4. q \in Ops
  BY <1>2, <1>3, IdleFacts DEF Ops
<1>5. QED
  BY <1>1, <1>2, <1>4, AskStep DEF SaveOne, Tasks

LEMMA RequestStep ==
  ASSUME IInv, NEW t \in Tasks, NEW save \in BOOLEAN, NEW erase \in BOOLEAN, NEW reset \in BOOLEAN,
         Request(t, save, erase, reset)
  PROVE  IInv'
<1>1. PICK todo \in Seq(Records) : todo = IF save THEN registered ELSE <<>>
  BY EmptySeq DEF IInv, Shape
<1>2. PICK q : q = [Idle EXCEPT !.todo = todo, !.erase = erase, !.reset = reset]
  OBVIOUS
<1>3. q \in Ops
  BY <1>2, NewRequest
<1>4. op' = [op EXCEPT ![t] = Onward(q)]
  BY <1>1, <1>2 DEF Request
<1>5. QED
  BY <1>3, <1>4, AskStep DEF Request

LEMMA AskingStep ==
  ASSUME IInv, SystemControl \/ MenuSaveAll \/ MenuErase \/ MenuReboot
  PROVE  IInv'
BY RequestStep DEF SystemControl, MenuSaveAll, MenuErase, MenuReboot, Tasks

\* Only whether a save is raced is written of an operation that another one touches.
LEMMA RacedFacts ==
  ASSUME NEW o \in Ops, NEW raced \in BOOLEAN
  PROVE  LET q == [o EXCEPT !.raced = raced]
         IN /\ q \in Ops /\ q.at = o.at /\ q.todo = o.todo /\ q.erase = o.erase /\ q.reset = o.reset
            /\ q.sum = o.sum /\ q.buf = o.buf /\ q.rec = o.rec /\ q.chunk = o.chunk /\ q.raced = raced
BY DEF Ops

LEMMA EditStep ==
  ASSUME IInv, Edit
  PROVE  IInv'
<1>1. PICK r \in Records : \E i \in Fields(r), v \in Values :
        /\ ram' = [ram EXCEPT ![r][i] = v]
        /\ op' = [op EXCEPT !["menu"].raced = @ \/
                     Disturbed("menu", r, IF r \in Checked THEN {"copy"} ELSE {"take", "write"})]
  BY DEF Edit
<1>2. /\ UNCHANGED <<cell, registered, boot, mutex, known, committed>> /\ Running
      /\ "menu" \in Actors /\ "menu" \in Tasks /\ op["menu"] \in Ops /\ Grown
  BY DEF Edit, Actors, Tasks, IInv, Shape, Grown
<1>3. PICK raced \in BOOLEAN : raced = (op["menu"].raced \/
                     Disturbed("menu", r, IF r \in Checked THEN {"copy"} ELSE {"take", "write"}))
  BY <1>2 DEF Ops
<1>4. PICK o : o = [op["menu"] EXCEPT !.raced = raced]
  OBVIOUS
<1>5. op' = [op EXCEPT !["menu"] = o]
  BY <1>1, <1>2, <1>3, <1>4 DEF IInv, Shape
<1>6. /\ o \in Ops /\ o.at = op["menu"].at /\ o.todo = op["menu"].todo
      /\ o.sum = op["menu"].sum /\ o.buf = op["menu"].buf
  BY <1>2, <1>4, RacedFacts
<1>7. SaveOK(o, known')
  BY <1>2, <1>6 DEF IInv, SaveInv, SaveOK
<1>8. BootInv'
  BY <1>2, <1>5, <1>6, BootKept
<1>9. DOMAIN ram' = Records /\ \A q \in Records : ram'[q] \in Configs(q)
  <2>0. PICK i \in Fields(r), v \in Values : ram' = [ram EXCEPT ![r][i] = v]
    BY <1>1
  <2>1. ram[r] \in Configs(r) /\ DOMAIN ram = Records
    BY DEF IInv, Shape
  <2>2. [ram[r] EXCEPT ![i] = v] \in Configs(r)
    BY <2>1 DEF Configs
  <2>3. ram' = [ram EXCEPT ![r] = [ram[r] EXCEPT ![i] = v]]
    BY <2>0, <2>1
  <2>4. QED
    BY <2>1, <2>2, <2>3 DEF IInv, Shape
<1>10. Shape'
  BY <1>2, <1>5, <1>6, <1>9, OneMoves DEF IInv, Shape
<1>11. CrcInv'
  BY <1>2 DEF IInv, CrcInv
<1>12. QED
  BY <1>2, <1>5, <1>6, <1>7, <1>8, <1>10, <1>11, OneMoves DEF IInv

\* Start-up reads one record after the other, in the order of their initialisation.
LEMMA NextFacts ==
  ASSUME IInv, Loading
  PROVE  /\ NextRecord \in Records /\ boot + 1 \in 0..Len(InitOrder) /\ <<NextRecord>> \o registered \in Seq(Records)
         /\ \A t \in Actors : op[t].at = "idle"
<1>1. boot + 1 \in 1..Len(InitOrder) /\ InitOrder \in Seq(Records) /\ Len(InitOrder) \in Nat
  BY OrderAssumption, LenProperties DEF IInv, Shape, Loading, Running
<1>2. NextRecord \in Records
  BY <1>1, ElementOfSeq DEF NextRecord
<1>3. registered \in Seq(Records) /\ <<NextRecord>> \in Seq(Records)
  BY <1>2 DEF IInv, Shape
<1>4. <<NextRecord>> \o registered \in Seq(Records)
  BY <1>3, ConcatProperties
<1>5. \A t \in Actors : op[t].at = "idle"
  BY DEF IInv, BootInv, Loading, Actors
<1>6. QED
  BY <1>1, <1>2, <1>4, <1>5

\* With nothing to save, start-up goes on to the next record.
LEMMA LoadedStep ==
  ASSUME IInv, Loading, boot' = boot + 1, UNCHANGED <<cell, mutex, op, known, committed>>,
         NEW c \in Configs(NextRecord), ram' = [ram EXCEPT ![NextRecord] = c],
         registered' = registered \/ registered' = <<NextRecord>> \o registered
  PROVE  IInv'
<1>1. NextRecord \in Records /\ boot' \in 0..Len(InitOrder) /\ \A t \in Actors : op[t].at = "idle"
  BY NextFacts
<1>2. registered' \in Seq(Records)
  BY NextFacts DEF IInv, Shape
<1>3. Shape'
  BY <1>1, <1>2 DEF IInv, Shape
<1>4. SaveInv' /\ BootInv' /\ CrcInv'
  BY <1>1 DEF IInv, SaveInv, BootInv, CrcInv, Actors
<1>5. QED
  BY <1>3, <1>4 DEF IInv

LEMMA StartUpStep ==
  ASSUME IInv, LoadFails \/ Load
  PROVE  IInv'
<1> DEFINE r == NextRecord
<1>1. CASE LoadFails
  <2>1. PICK c : c = IF r \in Checked THEN ZeroConfig(r) ELSE Default[r]
    OBVIOUS
  <2>2. r \in Records /\ c \in Configs(r)
    BY <1>1, <2>1, NextFacts, DefaultAssumption DEF LoadFails, ZeroConfig, Configs
  <2>3. /\ Loading /\ boot' = boot + 1 /\ UNCHANGED <<cell, mutex, op, known, committed>>
        /\ ram' = [ram EXCEPT ![r] = c]
        /\ registered' = registered \/ registered' = <<r>> \o registered
    BY <1>1, <2>1 DEF LoadFails
  <2>4. QED
    BY <2>2, <2>3, LoadedStep
<1>2. CASE Load
  <2>1. PICK c : c = Reads(r, cell[r])
    OBVIOUS
  <2>2. r \in Records /\ c \in Configs(r) /\ Loading
    BY <1>2, <2>1, NextFacts, ReadsFacts DEF Load, IInv
  <2>3. UNCHANGED <<cell, mutex, known, committed>> /\ ram' = [ram EXCEPT ![r] = c]
    BY <1>2, <2>1 DEF Load
  <2>4. CASE op' = op /\ boot' = boot + 1 /\ registered' = <<r>> \o registered
    BY <2>2, <2>3, <2>4, LoadedStep
  <2>5. CASE op' = [op EXCEPT !["boot"] = Onward([Idle EXCEPT !.todo = <<r>>])] /\ boot' = boot
             /\ registered' = registered
    <3>1. PICK q : q = [Idle EXCEPT !.todo = <<r>>]
      OBVIOUS
    <3>2. q \in Ops /\ q.todo = <<r>> /\ ~q.erase /\ ~q.reset
      <4>1. <<r>> \in Seq(Records) /\ ~Idle.erase /\ ~Idle.reset
        BY <2>2 DEF Idle
      <4> HIDE DEF r
      <4>2. QED
        BY <3>1, <4>1, IdleFacts DEF Ops
    <3>3. PICK o \in Ops : o = Onward(q)
      BY <3>2, OnwardFacts
    <3>4. <<r>> # <<>> /\ Len(<<r>>) = 1
      OBVIOUS
    <3>5. o.at = "sum" /\ o.todo = <<r>> /\ ~o.erase /\ ~o.reset
      BY <3>2, <3>3, <3>4, OnwardFacts
    <3>6. op' = [op EXCEPT !["boot"] = o] /\ "boot" \in Actors /\ "boot" \notin Tasks /\ ~Running /\ Grown
      BY <2>2, <2>3, <2>5, <3>1, <3>3 DEF Actors, Tasks, Loading, Grown
    <3>7. SaveOK(o, known')
      BY <3>4, <3>5 DEF SaveOK, Busy
    <3>8. BootInv'
      BY <2>5, <3>4, <3>5, <3>6, BootKept DEF Busy
    <3>9. Shape'
      BY <2>2, <2>3, <2>5, <3>6, OneMoves DEF IInv, Shape
    <3>10. CrcInv'
      BY <2>3 DEF IInv, CrcInv
    <3>11. QED
      BY <3>6, <3>7, <3>8, <3>9, <3>10, OneMoves DEF IInv
  <2>6. QED
    BY <1>2, <2>4, <2>5 DEF Load
<1>3. QED
  BY <1>1, <1>2

LEMMA RestartStep ==
  ASSUME IInv, Restart
  PROVE  IInv'
<1>1. op' = [t \in Actors |-> Idle] /\ ram' = [r \in Records |-> ZeroConfig(r)]
  BY DEF Restart
<1>2. \A r \in Records : ZeroConfig(r) \in Configs(r)
  BY DefaultAssumption DEF ZeroConfig, Configs
<1>3. Len(InitOrder) \in Nat /\ Len(InitOrder) # 0 /\ <<>> \in Seq(Records)
  BY OrderAssumption, EmptySeq
<1>4. Shape'
  BY <1>1, <1>2, <1>3, IdleFacts DEF Restart, IInv, Shape
<1>5. SaveInv' /\ BootInv'
  BY <1>1, IdleFacts DEF SaveInv, SaveOK, BootInv, Busy, Actors, Tasks
<1>6. CrcInv'
  BY DEF IInv, CrcInv, Restart
<1>7. QED
  BY <1>4, <1>5, <1>6 DEF IInv

LEMMA EraseChunkStep ==
  ASSUME IInv, NEW t \in Tasks, EraseChunk(t)
  PROVE  IInv'
<1> DEFINE r == AddressOrder[op[t].rec]
           k == op[t].chunk
           q == [op[t] EXCEPT !.erase = FALSE]
<1>1. /\ op[t].at = "erase" /\ op[t] \in Ops /\ Running /\ t \in Actors /\ t # "boot"
      /\ UNCHANGED <<ram, registered, boot, mutex, known>>
  BY WhoRuns DEF EraseChunk, IInv, Shape, Actors, Tasks
<1>2. PICK o : /\ op' = [u \in Actors |-> IF u = t THEN o
                         ELSE [op[u] EXCEPT !.raced = @ \/ Disturbed(u, r, {"write"})]]
               /\ \/ o = [op[t] EXCEPT !.chunk = k + 1]
                  \/ o = [op[t] EXCEPT !.rec = op[t].rec + 1, !.chunk = 0]
                  \/ o = Onward(q)
  BY DEF EraseChunk
<1>3. o \in Ops /\ o.at \in {"idle", "sum", "erase", "reset"} /\ (o.at = "sum" => o.todo # <<>>)
  <2>1. q \in Ops
    BY <1>1 DEF Ops
  <2>2. CASE o = Onward(q)
    BY <2>1, <2>2, OnwardFacts
  <2>3. CASE o = [op[t] EXCEPT !.chunk = k + 1] \/ o = [op[t] EXCEPT !.rec = op[t].rec + 1, !.chunk = 0]
    <3>1. k + 1 \in Nat /\ op[t].rec + 1 \in Nat
      BY <1>1 DEF Ops
    <3>2. PICK n \in Nat, m \in Nat : o = [op[t] EXCEPT !.chunk = n] \/ o = [op[t] EXCEPT !.rec = m, !.chunk = n]
      BY <2>3, <3>1
    <3>3. o \in Ops /\ o.at = op[t].at
      BY <1>1, <3>2 DEF Ops
    <3>4. QED
      BY <1>1, <3>3
  <2>4. QED
    BY <1>2, <2>2, <2>3
<1>4. \A u \in Actors \ {t} : /\ op'[u] \in Ops /\ op'[u].at = op[u].at /\ op'[u].todo = op[u].todo
                              /\ op'[u].erase = op[u].erase /\ op'[u].reset = op[u].reset
                              /\ op'[u].sum = op[u].sum /\ op'[u].buf = op[u].buf
  <2> SUFFICES ASSUME NEW u \in Actors \ {t}
               PROVE  /\ op'[u] \in Ops /\ op'[u].at = op[u].at /\ op'[u].todo = op[u].todo
                      /\ op'[u].erase = op[u].erase /\ op'[u].reset = op[u].reset
                      /\ op'[u].sum = op[u].sum /\ op'[u].buf = op[u].buf
    OBVIOUS
  <2>1. op[u] \in Ops
    BY DEF IInv, Shape
  <2>2. PICK raced \in BOOLEAN : raced = (op[u].raced \/ Disturbed(u, r, {"write"}))
    BY <2>1 DEF Ops
  <2>3. op'[u] = [op[u] EXCEPT !.raced = raced]
    BY <1>2, <2>2
  <2>4. QED
    BY <2>1, <2>3, RacedFacts
<1>5. op'[t] = o /\ op' \in [Actors -> Ops]
  BY <1>1, <1>2, <1>3, <1>4
<1>6. SaveInv'
  <2>1. \A u \in Actors \ {t} : SaveOK(op'[u], known')
    BY <1>1, <1>4 DEF IInv, SaveInv, SaveOK
  <2>2. SaveOK(op'[t], known')
    BY <1>3, <1>5 DEF SaveOK, Busy
  <2>3. QED
    BY <2>1, <2>2 DEF SaveInv
<1>7. BootInv'
  <2>1. op'["boot"].at = "idle"
    BY <1>1, <1>4 DEF IInv, BootInv, Actors
  <2>2. Running'
    BY <1>1 DEF Running
  <2>3. QED
    BY <2>1, <2>2 DEF BootInv
<1>8. DOMAIN committed' = Records
  BY DEF EraseChunk, IInv, Shape
<1>9. CellsOK' /\ CrcInv'
  <2>1. cell' = cell \/ cell' = [cell EXCEPT ![r] = [i \in Cells(r) |-> IF i \in Chunk(r, k) THEN Blank ELSE @[i]]]
    BY DEF EraseChunk
  <2>2. CASE r \in Records /\ cell' # cell
    <3>1. PICK V : V = [i \in Cells(r) |-> Blank]
      OBVIOUS
    <3>2. cell' = [cell EXCEPT ![r] = [i \in Cells(r) |-> IF i \in Chunk(r, k) THEN V[i] ELSE @[i]]]
      BY <2>1, <2>2, <3>1
    <3>3. \A i \in Cells(r) : CellOK(r, i, V[i])
      BY <3>1 DEF CellOK
    <3>4. r \in Checked => V[Length(r)] = Blank
      BY <3>1, Sizes DEF Cells
    <3> HIDE DEF r
    <3>5. QED
      BY <1>1, <2>2, <3>2, <3>3, <3>4, CellsChange
  <2>3. CASE r \notin Records \/ cell' = cell
    <3>1. DOMAIN cell' = Records /\ \A p \in Records : cell'[p] = cell[p]
      BY <2>1, <2>3 DEF IInv, Shape
    <3>2. QED
      BY <1>1, <3>1, Sizes DEF IInv, Shape, CellsOK, CrcInv
  <2>4. QED
    BY <2>2, <2>3
<1>10. Shape'
  BY <1>1, <1>5, <1>8, <1>9 DEF Shape, CellsOK, IInv
<1>11. QED
  BY <1>6, <1>7, <1>9, <1>10 DEF IInv

LEMMA StutterStep == IInv /\ UNCHANGED vars => IInv'
BY DEF IInv, Shape, SaveInv, BootInv, CrcInv, Running, vars

LEMMA NextIInv == IInv /\ [Next]_vars => IInv'
BY SumStep, CopyTakeStep, WriteChunkStep, WriteFailsStep, EraseChunkStep, RestartStep, StartUpStep, EditStep,
   SaveOneStep, AskingStep, StutterStep DEF Next, Saving, StartUp, Asking, Reset, PowerCut, Tasks, Actors

\* The records a board may be found with are whole, or of an older format, or none.
LEMMA FoundFacts ==
  ASSUME NEW r \in Records, NEW c \in Found(r)
  PROVE  /\ \A i \in Cells(r) : CellOK(r, i, c[i])
         /\ r \in Checked => c[Length(r)] = Blank \/ (Accepted(r, c) /\ c[Length(r)] = FieldsOf(r, c))
<1>1. /\ Width[r] \in Nat /\ Width[r] > 0 /\ Cells(r) = 1..Length(r)
      /\ Length(r) = IF r \in Checked THEN Width[r] + 2 ELSE Width[r] + 1
  BY Sizes DEF Length, Cells
<1>2. CASE c = Fresh(r)
  <2>1. \A i \in Cells(r) : c[i] = Blank
    BY <1>2 DEF Fresh
  <2>2. Length(r) \in Cells(r)
    BY <1>1
  <2>3. QED
    BY <2>1, <2>2 DEF CellOK
<1>3. CASE \E rev \in Revisions(r), f \in [Fields(r) -> Values \ {Zero}] : c = Stored(r, rev, f)
  <2>1. PICK rev \in Revisions(r), f \in [Fields(r) -> Values \ {Zero}] : c = Stored(r, rev, f)
    BY <1>3
  <2>2. rev \in {"zero", "legacy", "rev"} /\ (r \in Checked => rev \in {"zero", "legacy"})
    BY DEF Revisions
  <2>3. f \in Configs(r)
    BY DEF Configs
  <2>4. \A i \in Cells(r) : c[i] = CASE i = 1 -> rev
                                   [] i \in 2..(Width[r] + 1) -> f[i - 1]
                                   [] OTHER -> IF rev = "zero" THEN f ELSE Blank
    BY <2>1 DEF Stored
  <2>5. \A i \in Cells(r) : CellOK(r, i, c[i])
    <3> SUFFICES ASSUME NEW i \in Cells(r)
                 PROVE  CellOK(r, i, c[i])
      OBVIOUS
    <3>1. CASE i = 1
      BY <2>2, <2>4, <3>1 DEF CellOK
    <3>2. CASE i \in 2..(Width[r] + 1)
      <4>1. c[i] = f[i - 1] /\ i - 1 \in Fields(r) /\ i # Width[r] + 2 /\ i # 1
        BY <1>1, <2>4, <3>2 DEF Fields
      <4>2. QED
        BY <4>1 DEF CellOK
    <3>3. CASE i = Width[r] + 2
      <4>1. i # 1 /\ c[i] \in {f, Blank}
        BY <1>1, <2>4, <3>3
      <4>2. QED
        BY <2>3, <3>3, <4>1 DEF CellOK
    <3>4. QED
      BY <1>1, <3>1, <3>2, <3>3
  <2>6. r \in Checked => c[Length(r)] = Blank \/ (Accepted(r, c) /\ c[Length(r)] = FieldsOf(r, c))
    <3> SUFFICES ASSUME r \in Checked
                 PROVE  c[Length(r)] = Blank \/ (Accepted(r, c) /\ c[Length(r)] = FieldsOf(r, c))
      OBVIOUS
    <3>1. Length(r) \in Cells(r) /\ Length(r) = Width[r] + 2 /\ 1 \in Cells(r)
      BY <1>1
    <3>2. c[Length(r)] = (IF rev = "zero" THEN f ELSE Blank) /\ c[1] = rev
      BY <1>1, <2>4, <3>1
    <3>3. FieldsOf(r, c) = f
      <4>1. \A j \in Cells(r) : j # 1 /\ j \in 2..(Width[r] + 1) => c[j] = f[j - 1]
        BY <2>4
      <4>2. \A i \in Fields(r) : c[i + 1] = f[i]
        <5> SUFFICES ASSUME NEW i \in Fields(r)
                     PROVE  c[i + 1] = f[i]
          OBVIOUS
        <5>1. PICK j : j = i + 1
          OBVIOUS
        <5>2. j \in Cells(r) /\ j # 1 /\ j \in 2..(Width[r] + 1) /\ j - 1 = i
          BY <1>1, <5>1 DEF Fields
        <5>3. QED
          BY <4>1, <5>1, <5>2
      <4>3. QED
        <5>1. f = [i \in Fields(r) |-> f[i]]
          OBVIOUS
        <5>2. FieldsOf(r, c) = [i \in Fields(r) |-> c[i + 1]]
          BY DEF FieldsOf
        <5>3. [i \in Fields(r) |-> c[i + 1]] = [i \in Fields(r) |-> f[i]]
          BY <4>2
        <5>4. QED
          BY <5>1, <5>2, <5>3
    <3>4. QED
      BY <3>2, <3>3 DEF Accepted
  <2>7. QED
    BY <2>5, <2>6
<1>4. QED
  BY <1>2, <1>3 DEF Found

LEMMA InitIInv == Init => IInv
<1> SUFFICES ASSUME Init
             PROVE  IInv
  OBVIOUS
<1>1. DOMAIN cell = Records /\ \A r \in Records : cell[r] \in Found(r)
  BY DEF Init
<1>2. \A r \in Records : \A i \in Cells(r) : CellOK(r, i, cell[r][i])
  BY <1>1, FoundFacts
<1>3. \A r \in Records : ZeroConfig(r) \in Configs(r)
  BY DefaultAssumption DEF ZeroConfig, Configs
<1>4. \A r \in Records : FieldsOf(r, cell[r]) \in Configs(r)
  <2> SUFFICES ASSUME NEW r \in Records
               PROVE  FieldsOf(r, cell[r]) \in Configs(r)
    OBVIOUS
  <2>1. \A i \in Fields(r) : i + 1 \in Cells(r) /\ i + 1 # 1 /\ i + 1 # Width[r] + 2
    BY Sizes DEF Fields, Cells, Length
  <2>2. \A i \in Fields(r) : cell[r][i + 1] \in Values \union {Blank}
    BY <1>2, <2>1 DEF CellOK
  <2>3. QED
    BY <2>2 DEF FieldsOf, Configs
<1>5. known = [r \in Checked |-> IF Accepted(r, cell[r]) THEN {FieldsOf(r, cell[r])} ELSE {}]
  BY DEF Init
<1>6. KnownOK
  BY <1>4, <1>5, Sizes DEF KnownOK
<1>7. Len(InitOrder) \in Nat /\ Len(InitOrder) # 0 /\ <<>> \in Seq(Records)
  BY OrderAssumption, EmptySeq
<1>8. op = [t \in Actors |-> Idle] /\ boot = 0 /\ registered = <<>>
  BY DEF Init
<1>9. Shape
  BY <1>1, <1>2, <1>3, <1>6, <1>7, <1>8, IdleFacts DEF Init, Shape, KnownOK
<1>10. SaveInv /\ BootInv
  BY <1>8, IdleFacts DEF SaveInv, SaveOK, BootInv, Busy, Actors, Tasks
<1>11. CrcInv
  <2> SUFFICES ASSUME NEW r \in Checked
               PROVE  cell[r][Length(r)] \in known[r] \union {Blank}
    BY DEF CrcInv
  <2>1. r \in Records /\ cell[r] \in Found(r)
    BY <1>1, Sizes
  <2>2. \/ cell[r][Length(r)] = Blank
        \/ Accepted(r, cell[r]) /\ cell[r][Length(r)] = FieldsOf(r, cell[r])
    BY <2>1, FoundFacts
  <2>3. QED
    BY <1>5, <2>2
<1>12. QED
  BY <1>9, <1>10, <1>11 DEF IInv

LEMMA SpecIInv == Spec => []IInv
BY InitIInv, NextIInv, PTL DEF Spec

\* Every variable keeps its type, for records of any width and pages of any size.
THEOREM TypeCorrect == Spec => []TypeOK
<1>1. IInv => TypeOK
  BY DEF IInv, Shape, CellOK, TypeOK, Ops
<1>2. QED
  BY <1>1, SpecIInv, PTL

\* A record with a CRC never reads as a mixture of two configurations (load_config),
\* wherever power goes and whatever is edited or erased during a save.
THEOREM NeverMixed == Spec => []NeverAMixture
<1>1. IInv => NeverAMixture
  BY CrcMeans DEF IInv
<1>2. QED
  BY <1>1, SpecIInv, PTL

\* What a step does to what a load would give: a save begins, or any record may come to
\* read as the defaults or as a configuration a save began with.
AllConfigs == UNION {Configs(r) : r \in Checked}

ReadsOK == /\ ReadsChecked \in [Checked -> AllConfigs]
           /\ \A r \in Checked : ReadsChecked[r] \in known[r] \union {Default[r]}

LEMMA ReadsTyped == IInv => ReadsOK
<1> SUFFICES ASSUME IInv
             PROVE  ReadsOK
  OBVIOUS
<1>1. \A r \in Checked : ReadsChecked[r] \in Configs(r)
  BY ReadsFacts, Sizes, DefaultAssumption DEF ReadsChecked, IInv
<1>2. ReadsChecked \in [Checked -> AllConfigs]
  BY <1>1 DEF ReadsChecked, AllConfigs
<1>3. QED
  BY <1>2, CrcMeans DEF IInv, NeverAMixture, ReadsOK

LEMMA StoreInit == Init => Store!Init
<1> SUFFICES ASSUME Init
             PROVE  Store!Init
  OBVIOUS
<1>1. known = [r \in Checked |-> IF Accepted(r, cell[r]) THEN {FieldsOf(r, cell[r])} ELSE {}]
  BY DEF Init
<1>2. \A r \in Checked : known[r] \in SUBSET AllConfigs
  BY InitIInv DEF IInv, Shape, AllConfigs
<1>3. known \in [Checked -> SUBSET AllConfigs]
  BY <1>1, <1>2
<1>4. QED
  BY <1>3, InitIInv, ReadsTyped DEF Store!Init, AllConfigs, ReadsOK

LEMMA StoreStep ==
  ASSUME IInv, ReadsOK', [Next]_vars
  PROVE  [Store!Next]_<<ReadsChecked, known>>
<1>1. CASE known' = known
  BY <1>1 DEF ReadsOK, Store!Next, Store!Change, AllConfigs
<1>2. CASE known' # known
  <2>1. PICK t \in Actors : Sum(t)
    BY <1>2 DEF Next, Saving, StartUp, Asking, Reset, PowerCut, Copy, Take, WriteChunk, WriteFails, EraseChunk,
                Restart, LoadFails, Load, Edit, SaveOne, SystemControl, MenuSaveAll, MenuErase, MenuReboot,
                Request, vars
  <2>2. Rec(t) \in Records /\ ram[Rec(t)] \in Configs(Rec(t))
    BY <2>1, RecFacts DEF Sum, Busy, IInv, Shape
  <2>3. Rec(t) \in Checked /\ known' = [known EXCEPT ![Rec(t)] = @ \union {ram[Rec(t)]}] /\ cell' = cell
    BY <1>2, <2>1 DEF Sum
  <2>4. ram[Rec(t)] \in AllConfigs
    BY <2>2, <2>3 DEF AllConfigs
  <2>5. ReadsChecked' = ReadsChecked
    BY <2>3 DEF ReadsChecked, Legacy
  <2>6. Store!Learn(Rec(t), ram[Rec(t)])
    BY <2>3, <2>5 DEF Store!Learn
  <2>7. QED
    BY <2>3, <2>4, <2>6 DEF Store!Next, AllConfigs
<1>3. QED
  BY <1>1, <1>2

\* The pages, revisions and CRCs of common.c and cat24c256_eeprom.c implement what
\* RecordStore promises of a configuration, for every record and every place power may go.
THEOREM PromiseKept == Spec => KeepsPromise
<1>1. IInv /\ ReadsOK' /\ [Next]_vars => [Store!Next]_<<ReadsChecked, known>>
  BY StoreStep
<1>2. QED
  BY <1>1, StoreInit, ReadsTyped, SpecIInv, PTL DEF Spec, KeepsPromise, Store!Spec

-----------------------------------------------------------------------------
(* A save that nothing disturbs ends with what it began with.               *)

\* What is written so far of an undisturbed save, and what there is to write.
PageOK(t) ==
  LET r == Rec(t) IN
  op[t].at \in Busy \ {"sum"} /\ ~op[t].raced =>
    /\ op[t].at = "copy" => ram[r] = op[t].sum
    /\ op[t].at # "copy" => IF r \in Checked THEN op[t].buf = op[t].sum ELSE ram[r] = op[t].sum
    /\ op[t].at = "write" =>
         \A i \in Cells(r) : i <= op[t].chunk * PageSize => cell[r][i] = Written(t, r, i)
PageInv == \A t \in Actors : PageOK(t)

MutexInv == \A t \in Tasks : op[t].at = "write" => mutex = t

PInv == IInv /\ PageInv /\ MutexInv /\ CompletedSaveHolds

\* A page is written, or the cell lies in one of the pages before.
LEMMA Paging ==
  ASSUME NEW r \in Records, NEW k \in Nat, NEW i \in Cells(r),
         k = LastChunk(r) \/ i <= (k + 1) * PageSize, i \notin Chunk(r, k)
  PROVE  i <= k * PageSize
<1> DEFINE before == k * PageSize
<1>1. /\ PageSize \in Nat /\ PageSize > 0 /\ Length(r) \in Nat /\ i \in Nat /\ i >= 1 /\ i <= Length(r)
      /\ before \in Nat /\ (k + 1) * PageSize = before + PageSize
  BY Sizes DEF Cells
<1>2. ChunkSize(r, k) = IF k = LastChunk(r) THEN Length(r) - before ELSE PageSize
  BY DEF ChunkSize
<1> HIDE DEF before
<1>3. Chunk(r, k) = {before + j : j \in 1..ChunkSize(r, k)}
  BY DEF Chunk, before
<1>4. i > before => i - before \in 1..ChunkSize(r, k) /\ i = before + (i - before)
  BY <1>1, <1>2
<1>5. QED
  BY <1>1, <1>3, <1>4 DEF before

\* One save writes at a time.
LEMMA OneWriter ==
  ASSUME PInv, NEW t \in Actors, op[t].at = "write", NEW u \in Actors \ {t}
  PROVE  op[u].at # "write"
<1>1. CASE t = "boot"
  BY <1>1, WhoRuns DEF PInv, IInv, BootInv, Actors, Tasks
<1>2. CASE t \in Tasks /\ u \in Tasks
  BY <1>2 DEF PInv, MutexInv
<1>3. CASE t \in Tasks /\ u = "boot"
  BY <1>3, WhoRuns DEF PInv, IInv, BootInv, Actors, Tasks
<1>4. QED
  BY <1>1, <1>2, <1>3 DEF Actors

\* A save that a step leaves alone is as good after it.
LEMMA PageKept ==
  ASSUME NEW u \in Actors, PageOK(u), op'[u] = op[u], ram' = ram,
         op[u].at = "write" => cell'[Rec(u)] = cell[Rec(u)]
  PROVE  PageOK(u)'
BY DEF PageOK, Rec, Written

LEMMA DoneKept ==
  ASSUME CompletedSaveHolds, UNCHANGED <<cell, committed>>
  PROVE  CompletedSaveHolds'
BY DEF CompletedSaveHolds, Reads

\* One task moves in a save and writes nothing.
LEMMA MoveKept ==
  ASSUME PInv, NEW t \in Actors, NEW o \in Ops, op' = [op EXCEPT ![t] = o],
         UNCHANGED <<cell, ram, committed>>
  PROVE  /\ op'[t] = o /\ \A u \in Actors \ {t} : op'[u] = op[u]
         /\ PageOK(t)' => PageInv'
         /\ CompletedSaveHolds'
<1>1. op'[t] = o /\ \A u \in Actors \ {t} : op'[u] = op[u]
  BY DEF PInv, IInv, Shape
<1>2. \A u \in Actors \ {t} : PageOK(u)'
  BY <1>1, PageKept DEF PInv, PageInv
<1>3. QED
  BY <1>1, <1>2, DoneKept DEF PInv, PageInv

LEMMA SumPage ==
  ASSUME PInv, NEW t \in Actors, Sum(t)
  PROVE  PageInv' /\ MutexInv' /\ CompletedSaveHolds'
<1> DEFINE r == Rec(t)
           at == IF r \in Checked THEN "copy" ELSE "take"
           q == [op[t] EXCEPT !.at = at, !.sum = ram[r], !.raced = FALSE]
<1>1. /\ op[t].at = "sum" /\ op[t] \in Ops /\ r = Head(op[t].todo) /\ ram[r] \in AnyConfig
  BY RecFacts DEF Sum, PInv, IInv, Shape, Busy, AnyConfig
<1>2. PICK o : o = q
  OBVIOUS
<1>3. op' = [op EXCEPT ![t] = o] /\ UNCHANGED <<cell, ram, committed, mutex>>
  BY <1>1, <1>2 DEF Sum, PInv, IInv, Shape
<1>4. o \in Ops /\ o.at = at /\ o.sum = ram[r] /\ o.todo = op[t].todo
  BY <1>1, <1>2 DEF Ops, Stages
<1> HIDE DEF q
<1>5. op'[t] = o /\ \A u \in Actors \ {t} : op'[u] = op[u]
  BY <1>3, <1>4, MoveKept
<1>6. PageOK(t)'
  <2>1. Rec(t)' = r
    BY <1>1, <1>4, <1>5 DEF Rec
  <2> HIDE DEF r
  <2>2. QED
    BY <1>3, <1>4, <1>5, <2>1 DEF PageOK
<1>7. MutexInv'
  BY <1>3, <1>4, <1>5 DEF MutexInv, PInv, Actors
<1>8. QED
  BY <1>3, <1>4, <1>6, <1>7, MoveKept

LEMMA CopyPage ==
  ASSUME PInv, NEW t \in Actors, Copy(t)
  PROVE  PageInv' /\ MutexInv' /\ CompletedSaveHolds'
<1> DEFINE r == Rec(t)
<1>1. /\ op[t].at = "copy" /\ op[t] \in Ops /\ r = Head(op[t].todo) /\ ram[r] \in AnyConfig /\ PageOK(t)
      /\ r \in Checked
  BY RecFacts DEF Copy, PInv, IInv, Shape, Busy, AnyConfig, PageInv, SaveInv, SaveOK
<1>2. PICK o : o = [op[t] EXCEPT !.at = "take", !.buf = ram[r]]
  OBVIOUS
<1>3. op' = [op EXCEPT ![t] = o] /\ UNCHANGED <<cell, ram, committed, mutex>>
  BY <1>1, <1>2 DEF Copy, PInv, IInv, Shape
<1>4. o \in Ops /\ o.at = "take" /\ o.sum = op[t].sum /\ o.buf = ram[r] /\ o.todo = op[t].todo /\ o.raced = op[t].raced
  BY <1>1, <1>2 DEF Ops, Stages
<1>5. op'[t] = o /\ \A u \in Actors \ {t} : op'[u] = op[u]
  BY <1>3, <1>4, MoveKept
<1>6. PageOK(t)'
  <2>1. Rec(t)' = r
    BY <1>1, <1>4, <1>5 DEF Rec
  <2>2. ~op[t].raced => ram[r] = op[t].sum
    BY <1>1 DEF PageOK, Busy
  <2> HIDE DEF r
  <2>3. QED
    BY <1>1, <1>3, <1>4, <1>5, <2>1, <2>2 DEF PageOK
<1>7. MutexInv'
  BY <1>3, <1>4, <1>5 DEF MutexInv, PInv, Actors
<1>8. QED
  BY <1>3, <1>4, <1>6, <1>7, MoveKept

LEMMA TakePage ==
  ASSUME PInv, NEW t \in Actors, Take(t)
  PROVE  PageInv' /\ MutexInv' /\ CompletedSaveHolds'
<1> DEFINE r == Rec(t)
<1>1. op[t].at = "take" /\ op[t] \in Ops /\ r = Head(op[t].todo) /\ PageOK(t)
  BY RecFacts DEF Take, PInv, IInv, Shape, Busy, PageInv
<1>2. PICK o : o = [op[t] EXCEPT !.at = "write", !.chunk = 0]
  OBVIOUS
<1>3. op' = [op EXCEPT ![t] = o] /\ UNCHANGED <<cell, ram, committed>>
  BY <1>1, <1>2 DEF Take, PInv, IInv, Shape
<1>4. /\ o \in Ops /\ o.at = "write" /\ o.sum = op[t].sum /\ o.buf = op[t].buf /\ o.todo = op[t].todo
      /\ o.raced = op[t].raced /\ o.chunk = 0
  BY <1>1, <1>2 DEF Ops, Stages
<1>5. op'[t] = o /\ \A u \in Actors \ {t} : op'[u] = op[u]
  BY <1>3, <1>4, MoveKept
<1>6. PageOK(t)'
  <2>1. Rec(t)' = r
    BY <1>1, <1>4, <1>5 DEF Rec
  <2>2. ~op[t].raced => IF r \in Checked THEN op[t].buf = op[t].sum ELSE ram[r] = op[t].sum
    BY <1>1 DEF PageOK, Busy
  <2>3. \A i \in Cells(r) : ~(i <= 0 * PageSize)
    BY Sizes DEF Cells
  <2> HIDE DEF r
  <2>4. QED
    BY <1>1, <1>3, <1>4, <1>5, <2>1, <2>2, <2>3 DEF PageOK
<1>7. MutexInv'
  <2>1. \A u \in Tasks : op[u].at # "write"
    BY NamesAssumption DEF Take, PInv, MutexInv, Tasks, Actors
  <2>2. t \in Tasks => mutex' = t
    BY DEF Take, Tasks
  <2>3. QED
    BY <1>5, <2>1, <2>2 DEF MutexInv, Actors
<1>8. QED
  BY <1>3, <1>4, <1>6, <1>7, MoveKept

\* An undisturbed save whose last page is written reads as what it began with.
LEMMA WholeReads ==
  ASSUME PInv, NEW t \in Actors, op[t].at = "write", ~op[t].raced,
         NEW c, \A i \in Cells(Rec(t)) : c[i] = Written(t, Rec(t), i)
  PROVE  Reads(Rec(t), c) = op[t].sum
<1> DEFINE r == Rec(t)
<1>1. r \in Records /\ op[t].sum \in Configs(r)
  BY RecFacts DEF PInv, Busy
<1>2. IF r \in Checked THEN op[t].buf = op[t].sum ELSE ram[r] = op[t].sum
  BY DEF PInv, PageInv, PageOK, Busy
<1>3. /\ Width[r] \in Nat /\ Width[r] > 0 /\ Cells(r) = 1..Length(r)
      /\ Length(r) = IF r \in Checked THEN Width[r] + 2 ELSE Width[r] + 1
  BY <1>1, Sizes DEF Length, Cells
<1>4. \A i \in Cells(r) : c[i] = Written(t, r, i)
  OBVIOUS
<1> HIDE DEF r
<1>5. \A i \in Fields(r) : c[i + 1] = op[t].sum[i]
  <2> SUFFICES ASSUME NEW i \in Fields(r)
               PROVE  c[i + 1] = op[t].sum[i]
    OBVIOUS
  <2>1. PICK j : j = i + 1
    OBVIOUS
  <2>2. j \in Cells(r) /\ j # 1 /\ (r \in Checked => j # Length(r)) /\ j - 1 = i
    BY <1>3, <2>1 DEF Fields
  <2>3. c[j] = op[t].sum[i]
    BY <1>2, <1>4, <2>2 DEF Written
  <2>4. QED
    BY <2>1, <2>3
<1>6. FieldsOf(r, c) = op[t].sum
  <2>1. op[t].sum = [i \in Fields(r) |-> op[t].sum[i]]
    BY <1>1 DEF Configs
  <2>2. [i \in Fields(r) |-> c[i + 1]] = [i \in Fields(r) |-> op[t].sum[i]]
    BY <1>5
  <2>3. QED
    BY <2>1, <2>2 DEF FieldsOf
<1>7. Accepted(r, c)
  <2>1. 1 \in Cells(r) /\ Length(r) \in Cells(r) /\ (r \in Checked => Length(r) # 1)
    BY <1>3
  <2>2. c[1] = (IF r \in Checked THEN "zero" ELSE "rev") /\ (r \in Checked => c[Length(r)] = op[t].sum)
    BY <1>4, <2>1 DEF Written
  <2>3. QED
    BY <1>6, <2>2 DEF Accepted
<1>8. QED
  BY <1>6, <1>7 DEF Reads, r

LEMMA WriteChunkPage ==
  ASSUME PInv, NEW t \in Actors, WriteChunk(t)
  PROVE  PageInv' /\ MutexInv' /\ CompletedSaveHolds'
<1> DEFINE r == Rec(t)
           k == op[t].chunk
<1>1. /\ op[t].at = "write" /\ op[t] \in Ops /\ op \in [Actors -> Ops] /\ r \in Records /\ k \in Nat
      /\ PageOK(t) /\ known' = known /\ ram' = ram /\ DOMAIN cell = Records /\ DOMAIN committed = Records
  BY RecFacts DEF WriteChunk, Busy, PInv, IInv, Shape, PageInv, Ops
<1>2. /\ cell' = [cell EXCEPT ![r] = [i \in Cells(r) |->
                     IF i \in Chunk(r, k) THEN Written(t, r, i) ELSE cell[r][i]]]
      /\ \A q \in Records \ {r} : cell'[q] = cell[q]
  BY <1>1 DEF WriteChunk
<1>3. \A u \in Actors \ {t} : op[u].at # "write" /\ PageOK(u)
  BY <1>1, OneWriter DEF PInv, PageInv
<1>4. ~op[t].raced => \A i \in Cells(r) :
        k = LastChunk(r) \/ i <= (k + 1) * PageSize => cell'[r][i] = Written(t, r, i)
  <2> SUFFICES ASSUME ~op[t].raced, NEW i \in Cells(r), k = LastChunk(r) \/ i <= (k + 1) * PageSize
               PROVE  cell'[r][i] = Written(t, r, i)
    OBVIOUS
  <2>1. cell'[r][i] = IF i \in Chunk(r, k) THEN Written(t, r, i) ELSE cell[r][i]
    BY <1>1, <1>2
  <2>2. i \notin Chunk(r, k) => i <= k * PageSize
    BY <1>1, Paging
  <2>3. i <= k * PageSize => cell[r][i] = Written(t, r, i)
    BY <1>1 DEF PageOK, Busy
  <2>4. QED
    BY <2>1, <2>2, <2>3
<1>5. CASE k = LastChunk(r)
  <2>1. Ended(t) /\ mutex' = None /\ committed' = [committed EXCEPT ![r] = IF op[t].raced THEN None ELSE op[t].sum]
    BY <1>1, <1>5 DEF WriteChunk, Ended
  <2>2. op'[t].at \in {"idle", "sum", "erase", "reset"} /\ \A u \in Actors \ {t} : op'[u] = op[u]
    BY <1>1, <2>1, EndFacts DEF PInv
  <2>3. PageInv'
    <3>1. PageOK(t)'
      BY <2>2 DEF PageOK, Busy
    <3>2. \A u \in Actors \ {t} : PageOK(u)'
      BY <1>1, <1>3, <2>2, PageKept
    <3>3. QED
      BY <3>1, <3>2 DEF PageInv
  <2>4. MutexInv'
    BY <1>3, <2>2 DEF MutexInv, Actors
  <2>5. CompletedSaveHolds'
    <3> SUFFICES ASSUME NEW q \in Records, committed'[q] # None
                 PROVE  Reads(q, cell'[q]) = committed'[q]
      BY DEF CompletedSaveHolds
    <3>1. CASE q # r
      BY <1>1, <1>2, <2>1, <3>1 DEF PInv, CompletedSaveHolds
    <3>2. CASE q = r
      <4>0. /\ op[t].raced \in BOOLEAN /\ committed'[r] # None
            /\ committed'[r] = IF op[t].raced THEN None ELSE op[t].sum
        BY <1>1, <2>1, <3>2 DEF Ops
      <4>1. ~op[t].raced /\ committed'[r] = op[t].sum
        BY <4>0
      <4>2. \A i \in Cells(r) : cell'[r][i] = Written(t, r, i)
        BY <1>4, <1>5, <4>1
      <4>3. PICK c : c = cell'[r]
        OBVIOUS
      <4>4. Reads(r, c) = op[t].sum
        <5>1. \A i \in Cells(Rec(t)) : c[i] = Written(t, Rec(t), i)
          BY <4>2, <4>3
        <5>2. Reads(Rec(t), c) = op[t].sum
          <6> HIDE DEF r, k
          <6>1. QED
            BY <1>1, <4>1, <5>1, WholeReads
        <5>3. QED
          BY <5>2
      <4>5. QED
        BY <3>2, <4>1, <4>3, <4>4
    <3>3. QED
      BY <3>1, <3>2
  <2>6. QED
    BY <2>3, <2>4, <2>5
<1>6. CASE k # LastChunk(r)
  <2>1. committed' = [committed EXCEPT ![r] = None] /\ mutex' = mutex
    BY <1>6 DEF WriteChunk
  <2>2. PICK o : o = [op[t] EXCEPT !.chunk = k + 1]
    OBVIOUS
  <2>3. op' = [op EXCEPT ![t] = o]
    BY <1>1, <1>6, <2>2 DEF WriteChunk
  <2>4. /\ op'[t].at = op[t].at /\ op'[t].todo = op[t].todo /\ op'[t].sum = op[t].sum /\ op'[t].buf = op[t].buf
        /\ op'[t].raced = op[t].raced /\ op'[t].chunk = k + 1
        /\ \A u \in Actors \ {t} : op'[u] = op[u]
    BY <1>1, <2>2, <2>3 DEF Ops
  <2>5. PageOK(t)'
    <3>1. Rec(t)' = r
      BY <2>4 DEF Rec
    <3>2. PICK q : q = r
      OBVIOUS
    <3>3. \A i : Written(t, q, i)' = Written(t, q, i)
      BY <1>1, <2>4 DEF Written
    <3>4. ~op[t].raced => IF q \in Checked THEN op[t].buf = op[t].sum ELSE ram[q] = op[t].sum
      BY <1>1, <3>2 DEF PageOK, Busy
    <3>5. ~op[t].raced => \A i \in Cells(q) : i <= (k + 1) * PageSize => cell'[q][i] = Written(t, q, i)
      BY <1>4, <3>2
    <3>6. Rec(t)' = q
      BY <3>1, <3>2
    <3> HIDE DEF r, k
    <3>7. QED
      BY <1>1, <2>4, <3>3, <3>4, <3>5, <3>6 DEF PageOK
  <2>6. PageInv'
    <3>1. \A u \in Actors \ {t} : PageOK(u)'
      BY <1>1, <1>3, <2>4, PageKept
    <3>2. QED
      BY <2>5, <3>1 DEF PageInv
  <2>7. MutexInv'
    BY <1>1, <2>1, <2>4 DEF MutexInv, PInv, Actors
  <2>8. CompletedSaveHolds'
    BY <1>1, <1>2, <2>1 DEF PInv, CompletedSaveHolds
  <2>9. QED
    BY <2>6, <2>7, <2>8
<1>7. QED
  BY <1>5, <1>6

LEMMA WriteFailsPage ==
  ASSUME PInv, NEW t \in Actors, WriteFails(t)
  PROVE  PageInv' /\ MutexInv' /\ CompletedSaveHolds'
<1>1. /\ op[t].at = "write" /\ Ended(t) /\ known' = known /\ ram' = ram
      /\ UNCHANGED <<cell, committed>>
  BY DEF WriteFails, Ended
<1>2. op'[t].at \in {"idle", "sum", "erase", "reset"} /\ \A u \in Actors \ {t} : op'[u] = op[u]
  BY <1>1, EndFacts DEF PInv
<1>3. \A u \in Actors \ {t} : op[u].at # "write" /\ PageOK(u)
  BY <1>1, OneWriter DEF PInv, PageInv
<1>4. PageOK(t)'
  BY <1>2 DEF PageOK, Busy
<1>5. \A u \in Actors \ {t} : PageOK(u)'
  BY <1>1, <1>2, <1>3, PageKept
<1>6. MutexInv'
  BY <1>2, <1>3 DEF MutexInv, Actors
<1>7. QED
  BY <1>1, <1>4, <1>5, <1>6, DoneKept DEF PInv, PageInv

\* A request leaves every save alone that is under way.
LEMMA AskPage ==
  ASSUME PInv, NEW t \in Tasks, NEW q \in Ops, op' = [op EXCEPT ![t] = Onward(q)],
         UNCHANGED <<cell, ram, mutex, committed>>
  PROVE  PageInv' /\ MutexInv' /\ CompletedSaveHolds'
<1>1. PICK o \in Ops : o = Onward(q) /\ o.at \in {"idle", "sum", "erase", "reset"}
  BY OnwardFacts
<1>2. op' = [op EXCEPT ![t] = o] /\ t \in Actors
  BY <1>1 DEF Actors
<1>3. op'[t] = o /\ \A u \in Actors \ {t} : op'[u] = op[u]
  BY <1>2, MoveKept
<1>4. PageOK(t)'
  BY <1>1, <1>3 DEF PageOK, Busy
<1>5. MutexInv'
  BY <1>1, <1>3 DEF MutexInv, PInv, Actors
<1>6. QED
  BY <1>2, <1>4, <1>5, MoveKept

LEMMA AskingPage ==
  ASSUME PInv, SaveOne \/ SystemControl \/ MenuSaveAll \/ MenuErase \/ MenuReboot
  PROVE  PageInv' /\ MutexInv' /\ CompletedSaveHolds'
<1>1. ASSUME SaveOne
      PROVE  PageInv' /\ MutexInv' /\ CompletedSaveHolds'
  <2>1. PICK r \in Records : op' = [op EXCEPT !["tcpip"] = Onward([Idle EXCEPT !.todo = <<r>>])]
    BY <1>1 DEF SaveOne
  <2>2. PICK q : q = [Idle EXCEPT !.todo = <<r>>]
    OBVIOUS
  <2>3. <<r>> \in Seq(Records)
    OBVIOUS
  <2>4. q \in Ops
    BY <2>2, <2>3, IdleFacts DEF Ops
  <2>5. QED
    BY <1>1, <2>1, <2>2, <2>4, AskPage DEF SaveOne, Tasks
<1>2. ASSUME NEW t \in Tasks, NEW save \in BOOLEAN, NEW erase \in BOOLEAN, NEW reset \in BOOLEAN,
             Request(t, save, erase, reset)
      PROVE  PageInv' /\ MutexInv' /\ CompletedSaveHolds'
  <2>1. PICK todo \in Seq(Records) : todo = IF save THEN registered ELSE <<>>
    BY EmptySeq DEF PInv, IInv, Shape
  <2>2. PICK q : q = [Idle EXCEPT !.todo = todo, !.erase = erase, !.reset = reset]
    OBVIOUS
  <2>3. q \in Ops
    BY <2>2, NewRequest
  <2>4. op' = [op EXCEPT ![t] = Onward(q)]
    BY <1>2, <2>1, <2>2 DEF Request
  <2>5. QED
    BY <1>2, <2>3, <2>4, AskPage DEF Request
<1>3. QED
  BY <1>1, <1>2 DEF SystemControl, MenuSaveAll, MenuErase, MenuReboot, Tasks

\* An edit shows on the save it disturbs.
LEMMA EditPage ==
  ASSUME PInv, Edit
  PROVE  PageInv' /\ MutexInv' /\ CompletedSaveHolds'
<1>1. PICK r \in Records : \E i \in Fields(r), v \in Values :
        /\ ram' = [ram EXCEPT ![r][i] = v]
        /\ op' = [op EXCEPT !["menu"].raced = @ \/
                     Disturbed("menu", r, IF r \in Checked THEN {"copy"} ELSE {"take", "write"})]
  BY DEF Edit
<1>2. /\ op \in [Actors -> Ops] /\ \A q \in Records \ {r} : ram'[q] = ram[q]
      /\ "menu" \in Actors /\ UNCHANGED <<cell, committed, mutex>>
      /\ op["tcpip"].at = "idle" /\ op["boot"].at = "idle"
  BY <1>1 DEF Edit, PInv, IInv, Shape, BootInv, Actors, Tasks
<1>3. PICK d : d = (op["menu"].raced \/
                    Disturbed("menu", r, IF r \in Checked THEN {"copy"} ELSE {"take", "write"}))
  OBVIOUS
<1>4. op' = [op EXCEPT !["menu"] = [op["menu"] EXCEPT !.raced = d]]
  BY <1>1, <1>3
<1>5. /\ op'["menu"].at = op["menu"].at /\ op'["menu"].todo = op["menu"].todo
      /\ op'["menu"].sum = op["menu"].sum /\ op'["menu"].buf = op["menu"].buf
      /\ op'["menu"].chunk = op["menu"].chunk /\ op'["menu"].raced = d
      /\ op'["tcpip"] = op["tcpip"] /\ op'["boot"] = op["boot"]
  BY <1>2, <1>4 DEF Ops, Actors, Tasks
<1>6. PageOK("menu")'
  <2>1. CASE op["menu"].at \in Busy \ {"sum"} /\ ~d
    <3>1. PICK q : q = Rec("menu")
      OBVIOUS
    <3>2. op["menu"].todo # <<>> /\ Rec("menu")' = q /\ q \in Records
      BY <1>2, <1>5, <2>1, <3>1, RecFacts DEF Rec, PInv, IInv, SaveInv, SaveOK
    <3>3. /\ ~op["menu"].raced
          /\ q = r => op["menu"].at \notin IF r \in Checked THEN {"copy"} ELSE {"take", "write"}
      BY <1>3, <2>1, <3>1, <3>2 DEF Disturbed
    <3>4. /\ op["menu"].at = "copy" => ram[q] = op["menu"].sum
          /\ op["menu"].at # "copy" => IF q \in Checked THEN op["menu"].buf = op["menu"].sum
                                       ELSE ram[q] = op["menu"].sum
          /\ op["menu"].at = "write" =>
               \A j \in Cells(q) : j <= op["menu"].chunk * PageSize => cell[q][j] = Written("menu", q, j)
      BY <1>2, <2>1, <3>1, <3>3 DEF PInv, PageInv, PageOK
    <3>5. op["menu"].at = "copy" => q \in Checked
      BY <1>2, <3>1 DEF PInv, IInv, SaveInv, SaveOK, Rec
    <3>6. q \notin Checked => q # r
      BY <2>1, <3>3, <3>5 DEF Busy
    <3>7. op["menu"].at = "copy" => q # r
      BY <3>3, <3>5
    <3>8. \A j : Written("menu", q, j)' = Written("menu", q, j)
      BY <1>2, <1>5, <3>2, <3>6 DEF Written
    <3>9. QED
      BY <1>2, <1>5, <3>2, <3>4, <3>6, <3>7, <3>8 DEF PageOK
  <2>2. CASE op["menu"].at \notin Busy \ {"sum"} \/ d
    BY <1>5, <2>2 DEF PageOK
  <2>3. QED
    BY <2>1, <2>2
<1>7. PageOK("tcpip")' /\ PageOK("boot")'
  BY <1>2, <1>5 DEF PageOK, Busy
<1>8. MutexInv'
  BY <1>2, <1>5 DEF MutexInv, PInv, Tasks
<1>9. QED
  BY <1>2, <1>6, <1>7, <1>8, DoneKept DEF PInv, PageInv, Actors, Tasks

\* While start-up loads, nobody saves.
LEMMA StartUpPage ==
  ASSUME PInv, StartUp
  PROVE  PageInv' /\ MutexInv' /\ CompletedSaveHolds'
<1>1. /\ \A t \in Actors : op[t].at = "idle"
      /\ UNCHANGED <<cell, committed, mutex>>
      /\ \/ op' = op
         \/ \E r \in Records : op' = [op EXCEPT !["boot"] = Onward([Idle EXCEPT !.todo = <<r>>])]
  <2>1. \A t \in Actors : op[t].at = "idle"
    BY DEF StartUp, LoadFails, Load, Loading, PInv, IInv, BootInv, Actors
  <2>2. ~Running => NextRecord \in Records
    BY OrderAssumption DEF Running, NextRecord, Records, PInv, IInv, Shape
  <2>3. QED
    BY <2>1, <2>2 DEF StartUp, LoadFails, Load, Loading
<1>2. CASE op' = op
  <2>1. PageInv' /\ MutexInv'
    BY <1>1, <1>2 DEF PageInv, PageOK, MutexInv, Busy, Actors
  <2>2. QED
    BY <1>1, <2>1, DoneKept DEF PInv
<1>3. ASSUME NEW r \in Records, op' = [op EXCEPT !["boot"] = Onward([Idle EXCEPT !.todo = <<r>>])]
      PROVE  PageInv' /\ MutexInv' /\ CompletedSaveHolds'
  <2>1. PICK q : q = [Idle EXCEPT !.todo = <<r>>]
    OBVIOUS
  <2>2. <<r>> \in Seq(Records)
    OBVIOUS
  <2>3. q \in Ops
    BY <2>1, <2>2, IdleFacts DEF Ops
  <2>4. PICK o \in Ops : o = Onward(q) /\ o.at \in {"idle", "sum", "erase", "reset"}
    BY <2>3, OnwardFacts
  <2>5. op' = [op EXCEPT !["boot"] = o] /\ op \in [Actors -> Ops] /\ "boot" \in Actors
    BY <1>3, <2>1, <2>4 DEF PInv, IInv, Shape, Actors
  <2>6. \A u \in Actors : op'[u].at \in {"idle", "sum", "erase", "reset"}
    BY <1>1, <2>4, <2>5
  <2>7. PageInv' /\ MutexInv'
    BY <2>6 DEF PageInv, PageOK, MutexInv, Busy, Actors
  <2>8. QED
    BY <1>1, <2>7, DoneKept DEF PInv
<1>4. QED
  BY <1>1, <1>2, <1>3

LEMMA RestartPage ==
  ASSUME PInv, Restart
  PROVE  PageInv' /\ MutexInv' /\ CompletedSaveHolds'
<1>1. \A t \in Actors : op'[t].at = "idle"
  BY IdleFacts DEF Restart
<1>2. PageInv' /\ MutexInv'
  BY <1>1 DEF PageInv, PageOK, MutexInv, Busy, Actors
<1>3. QED
  BY <1>2, DoneKept DEF Restart, PInv

LEMMA ErasePage ==
  ASSUME PInv, NEW t \in Tasks, EraseChunk(t)
  PROVE  PageInv' /\ MutexInv' /\ CompletedSaveHolds'
<1>1. PICK r, o :
        /\ r = AddressOrder[op[t].rec]
        /\ o = IF (op[t].chunk + 1) * PageSize < Length(r) THEN [op[t] EXCEPT !.chunk = @ + 1]
               ELSE IF op[t].rec < Len(AddressOrder) THEN [op[t] EXCEPT !.rec = @ + 1, !.chunk = 0]
               ELSE Onward([op[t] EXCEPT !.erase = FALSE])
  OBVIOUS
<1>2. /\ op[t].at = "erase" /\ op \in [Actors -> Ops] /\ t \in Actors /\ op[t] \in Ops
      /\ DOMAIN cell = Records /\ DOMAIN committed = Records /\ ram' = ram /\ mutex' = mutex
      /\ committed' = [committed EXCEPT ![r] = None]
      /\ op' = [u \in Actors |-> IF u = t THEN o
                  ELSE [op[u] EXCEPT !.raced = @ \/ Disturbed(u, r, {"write"})]]
      /\ \A q \in Records : q # r => cell'[q] = cell[q]
  BY <1>1 DEF EraseChunk, PInv, IInv, Shape, Actors
<1>3. o.at \in {"idle", "sum", "erase", "reset"}
  <2>1. PICK q : q = [op[t] EXCEPT !.erase = FALSE]
    OBVIOUS
  <2>2. q \in Ops
    BY <1>2, <2>1 DEF Ops
  <2>3. Onward(q).at \in {"idle", "sum", "erase", "reset"}
    BY <2>2, OnwardFacts
  <2>4. QED
    BY <1>1, <1>2, <2>1, <2>3 DEF Ops
<1>4. op'[t].at \in {"idle", "sum", "erase", "reset"}
  BY <1>2, <1>3
<1>5. ASSUME NEW u \in Actors \ {t}
      PROVE  /\ op'[u].at = op[u].at /\ op'[u].todo = op[u].todo /\ op'[u].sum = op[u].sum
             /\ op'[u].buf = op[u].buf /\ op'[u].chunk = op[u].chunk
             /\ op'[u].raced = (op[u].raced \/ Disturbed(u, r, {"write"}))
  BY <1>2 DEF Ops
<1>6. PageOK(t)'
  BY <1>4 DEF PageOK, Busy
<1>7. ASSUME NEW u \in Actors \ {t}
      PROVE  PageOK(u)'
  <2>1. CASE op[u].at \in Busy \ {"sum"} /\ ~op[u].raced /\ ~Disturbed(u, r, {"write"})
    <3>1. PICK q : q = Rec(u)
      OBVIOUS
    <3>2. op[u].todo # <<>> /\ Rec(u)' = q /\ q \in Records
      BY <1>5, <2>1, <3>1, RecFacts DEF Rec, PInv, IInv, SaveInv, SaveOK
    <3>3. op[u].at = "write" => cell'[q] = cell[q]
      BY <1>2, <2>1, <3>1, <3>2 DEF Disturbed
    <3>4. /\ op[u].at = "copy" => ram[q] = op[u].sum
          /\ op[u].at # "copy" => IF q \in Checked THEN op[u].buf = op[u].sum ELSE ram[q] = op[u].sum
          /\ op[u].at = "write" =>
               \A j \in Cells(q) : j <= op[u].chunk * PageSize => cell[q][j] = Written(u, q, j)
      BY <2>1, <3>1 DEF PInv, PageInv, PageOK
    <3>5. \A j : Written(u, q, j)' = Written(u, q, j)
      <4>1. op'[u].sum = op[u].sum /\ op'[u].buf = op[u].buf /\ ram' = ram
        BY <1>2, <1>5
      <4>2. QED
        BY <4>1 DEF Written
    <3>6. QED
      BY <1>2, <1>5, <3>2, <3>3, <3>4, <3>5 DEF PageOK
  <2>2. CASE op[u].at \notin Busy \ {"sum"} \/ op[u].raced \/ Disturbed(u, r, {"write"})
    BY <1>5, <2>2 DEF PageOK
  <2>3. QED
    BY <2>1, <2>2
<1>8. MutexInv'
  BY <1>2, <1>4, <1>5 DEF MutexInv, PInv, Actors
<1>9. CompletedSaveHolds'
  BY <1>2 DEF CompletedSaveHolds, PInv
<1>10. QED
  BY <1>6, <1>7, <1>8, <1>9 DEF PageInv

LEMMA StutterPage ==
  ASSUME PInv, UNCHANGED vars
  PROVE  PageInv' /\ MutexInv' /\ CompletedSaveHolds'
BY DEF vars, PInv, PageInv, PageOK, MutexInv, CompletedSaveHolds, Rec, Written

LEMMA InitPInv == Init => PInv
<1> SUFFICES ASSUME Init
             PROVE  PInv
  OBVIOUS
<1>1. \A t \in Actors : op[t].at = "idle"
  BY IdleFacts DEF Init
<1>2. PageInv /\ MutexInv
  BY <1>1 DEF PageInv, PageOK, MutexInv, Busy, Actors
<1>3. CompletedSaveHolds
  BY DEF Init, CompletedSaveHolds
<1>4. QED
  BY <1>2, <1>3, InitIInv DEF PInv

LEMMA NextPInv == PInv /\ [Next]_vars => PInv'
<1> SUFFICES ASSUME PInv, [Next]_vars
             PROVE  PInv'
  OBVIOUS
<1>1. IInv'
  BY NextIInv DEF PInv
<1>2. ASSUME NEW t \in Actors, Saving(t)
      PROVE  PageInv' /\ MutexInv' /\ CompletedSaveHolds'
  BY <1>2, SumPage, CopyPage, TakePage, WriteChunkPage, WriteFailsPage DEF Saving
<1>3. ASSUME NEW t \in Tasks, EraseChunk(t) \/ Reset(t)
      PROVE  PageInv' /\ MutexInv' /\ CompletedSaveHolds'
  BY <1>3, ErasePage, RestartPage DEF Reset
<1>4. ASSUME StartUp \/ Asking \/ PowerCut
      PROVE  PageInv' /\ MutexInv' /\ CompletedSaveHolds'
  BY <1>4, StartUpPage, EditPage, AskingPage, RestartPage DEF Asking, PowerCut
<1>5. CASE Next
  BY <1>1, <1>2, <1>3, <1>4, <1>5 DEF Next, PInv
<1>6. QED
  BY <1>1, <1>5, StutterPage DEF PInv

\* A save that nothing disturbs is what the next start loads, of a record with a CRC or
\* without, until another save or an erase of it begins (common.c: save_config,
\* cat24c256_eeprom.c: cat24c256_write).
THEOREM SavesHold == Spec => []CompletedSaveHolds
<1>1. PInv => CompletedSaveHolds
  BY DEF PInv
<1>2. QED
  BY <1>1, InitPInv, NextPInv, PTL DEF Spec

=============================================================================

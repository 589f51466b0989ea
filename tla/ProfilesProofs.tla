---------------------------- MODULE ProfilesProofs ----------------------------
(***************************************************************************)
(* Proofs about Profiles, for any profiles and thresholds: the settings of  *)
(* a profile stay in its slot, a charge begins with the settings of the     *)
(* selected profile, what a charge taught is saved, and switching learning  *)
(* on changes no threshold.                                                 *)
(*                                                                         *)
(* A request is the list of steps it has left, so what holds between two of *)
(* its steps rests on what may stand next to what in such a list.           *)
(***************************************************************************)
EXTENDS Profiles, SequenceTheorems, TLAPS

-----------------------------------------------------------------------------
(* Lists of steps. *)

ChargeSteps == {"enter", "begin", "record", "leave"}
LearnerSteps == {"reset", "on", "off"}
LoadSteps == {"select", "copy", "mark"}
StepNames == ChargeSteps \union LearnerSteps \union LoadSteps \union
  {"edit", "index", "slot", "table", "profile", "learners", "gains", "stop"}

\* Steps that only ever follow another one.
Followers == {"copy", "mark", "slot", "begin", "record"}

\* A profile is marked as loaded right after it was copied; a charge begins after charge
\* mode was entered or the profile loaded; every change of a learner is saved next.
Shape(s) ==
  /\ s \in Seq(StepNames)
  /\ \A i \in 1..Len(s) :
       /\ s[i] = "copy" => i < Len(s) /\ s[i + 1] = "mark"
       /\ s[i] \in LearnerSteps => i < Len(s) /\ s[i + 1] = "learners"
       /\ i > 1 /\ s[i] = "mark" => s[i - 1] = "copy"
       /\ i > 1 /\ s[i] = "copy" => s[i - 1] = "select"
       /\ i > 1 /\ s[i] = "slot" => s[i - 1] = "index"
       /\ i > 1 /\ s[i] = "begin" => s[i - 1] \in {"enter", "mark"}
       /\ i > 1 /\ s[i] = "record" => s[i - 1] = "begin"

\* What is left of a list after its first step has its elements, one place on.
LEMMA TailOf ==
  ASSUME NEW s \in Seq(StepNames), s # <<>>
  PROVE  /\ Len(s) \in Nat \ {0}
         /\ Tail(s) \in Seq(StepNames) /\ Len(Tail(s)) = Len(s) - 1
         /\ \A i \in 1..Len(Tail(s)) : Tail(s)[i] = s[i + 1]
         /\ Head(s) = s[1] /\ s[1] \in StepNames
         /\ Tail(s) # <<>> <=> Len(s) > 1
<1>1. Len(s) \in Nat \ {0} /\ Head(s) = s[1]  BY EmptySeq, LenProperties
<1>2. Tail(s) \in Seq(StepNames) /\ Len(Tail(s)) = Len(s) - 1
      /\ \A i \in 1..Len(Tail(s)) : Tail(s)[i] = s[i + 1]
  BY HeadTailProperties
<1>3. s[1] \in StepNames  BY <1>1, ElementOfSeq
<1>4. Tail(s) # <<>> <=> Len(s) > 1
  <2>. DEFINE t == Tail(s)
  <2>1. t \in Seq(StepNames) /\ Len(t) = Len(s) - 1  BY <1>2
  <2>. HIDE DEF t
  <2>2. t # <<>> <=> Len(s) > 1  BY <1>1, <2>1, EmptySeq
  <2>. QED  BY <2>2 DEF t
<1>. QED  BY <1>1, <1>2, <1>3, <1>4

\* What is left of a list of steps is one.
LEMMA ShapeTail ==
  ASSUME NEW s, Shape(s), s # <<>> PROVE Shape(Tail(s))
<1>. DEFINE t == Tail(s)
<1>1. s \in Seq(StepNames)  BY DEF Shape
<1>2. /\ Len(s) \in Nat \ {0} /\ t \in Seq(StepNames) /\ Len(t) = Len(s) - 1
      /\ \A i \in 1..Len(t) : t[i] = s[i + 1]
  BY <1>1, TailOf
<1>. HIDE DEF t
<1>3. ASSUME NEW i \in 1..Len(t)
      PROVE  /\ t[i] = "copy" => i < Len(t) /\ t[i + 1] = "mark"
             /\ t[i] \in LearnerSteps => i < Len(t) /\ t[i + 1] = "learners"
             /\ i > 1 /\ t[i] = "mark" => t[i - 1] = "copy"
             /\ i > 1 /\ t[i] = "copy" => t[i - 1] = "select"
             /\ i > 1 /\ t[i] = "slot" => t[i - 1] = "index"
             /\ i > 1 /\ t[i] = "begin" => t[i - 1] \in {"enter", "mark"}
             /\ i > 1 /\ t[i] = "record" => t[i - 1] = "begin"
  <2>1. i + 1 \in 1..Len(s) /\ t[i] = s[i + 1] /\ i + 1 > 1 /\ (i + 1) - 1 = i
    BY <1>2
  <2>2. i < Len(t) => i + 1 < Len(s) /\ i + 1 \in 1..Len(t) /\ t[i + 1] = s[(i + 1) + 1]
    BY <1>2
  <2>3. i > 1 => t[i - 1] = s[i]  BY <1>2
  <2>4. i + 1 < Len(s) => i < Len(t)  BY <1>2
  <2>. QED  BY <2>1, <2>2, <2>3, <2>4 DEF Shape
<1>. QED  BY <1>2, <1>3 DEF Shape, t

\* Two lists of steps make one, if the second begins with a step that may begin one.
LEMMA ShapeConcat ==
  ASSUME NEW a, NEW b, Shape(a), Shape(b), b = <<>> \/ b[1] \notin Followers
  PROVE  Shape(a \o b)
<1>. DEFINE c == a \o b
<1>1. a \in Seq(StepNames) /\ b \in Seq(StepNames)  BY DEF Shape
<1>2. /\ Len(a) \in Nat /\ Len(b) \in Nat
      /\ c \in Seq(StepNames) /\ Len(c) = Len(a) + Len(b)
      /\ \A i \in 1..Len(c) : c[i] = IF i <= Len(a) THEN a[i] ELSE b[i - Len(a)]
  BY <1>1, ConcatProperties, LenProperties
<1>3. Len(b) > 0 => b[1] \notin Followers  BY <1>1, EmptySeq
<1>. HIDE DEF c
<1>4. ASSUME NEW i \in 1..Len(c)
      PROVE  /\ c[i] = "copy" => i < Len(c) /\ c[i + 1] = "mark"
             /\ c[i] \in LearnerSteps => i < Len(c) /\ c[i + 1] = "learners"
             /\ i > 1 /\ c[i] = "mark" => c[i - 1] = "copy"
             /\ i > 1 /\ c[i] = "copy" => c[i - 1] = "select"
             /\ i > 1 /\ c[i] = "slot" => c[i - 1] = "index"
             /\ i > 1 /\ c[i] = "begin" => c[i - 1] \in {"enter", "mark"}
             /\ i > 1 /\ c[i] = "record" => c[i - 1] = "begin"
  <2>1. CASE i <= Len(a)
    <3>1. i \in 1..Len(a) /\ c[i] = a[i]  BY <1>2, <2>1
    <3>2. i < Len(a) => i < Len(c) /\ c[i + 1] = a[i + 1]  BY <1>2, <2>1
    <3>3. i > 1 => c[i - 1] = a[i - 1]  BY <1>2, <2>1
    <3>. QED  BY <3>1, <3>2, <3>3 DEF Shape
  <2>2. CASE i > Len(a)
    <3>1. i - Len(a) \in 1..Len(b) /\ c[i] = b[i - Len(a)]  BY <1>2, <2>2
    <3>2. i - Len(a) < Len(b) => i < Len(c) /\ c[i + 1] = b[(i - Len(a)) + 1]
      BY <1>2, <2>2
    <3>3. i - Len(a) > 1 => i > 1 /\ c[i - 1] = b[(i - Len(a)) - 1]  BY <1>2, <2>2
    <3>4. i - Len(a) = 1 => c[i] \notin Followers  BY <1>2, <1>3, <3>1
    <3>5. i - Len(a) > 1 \/ i - Len(a) = 1  BY <1>2, <2>2
    <3>. QED  BY <3>1, <3>2, <3>3, <3>4, <3>5 DEF Shape, Followers
  <2>. QED  BY <1>2, <2>1, <2>2
<1>. QED  BY <1>2, <1>4 DEF Shape, c

\* The elements of two lists are those of their concatenation.
Of(s, S) == \A i \in 1..Len(s) : s[i] \in S

LEMMA OfConcat ==
  ASSUME NEW a, NEW b, Shape(a), Shape(b), NEW S, Of(a, S), Of(b, S)
  PROVE  Of(a \o b, S)
<1>1. a \in Seq(StepNames) /\ b \in Seq(StepNames)  BY DEF Shape
<1>2. /\ Len(a) \in Nat /\ Len(b) \in Nat /\ Len(a \o b) = Len(a) + Len(b)
      /\ \A i \in 1..Len(a \o b) :
           (a \o b)[i] = IF i <= Len(a) THEN a[i] ELSE b[i - Len(a)]
  BY <1>1, ConcatProperties, LenProperties
<1>3. ASSUME NEW i \in 1..Len(a \o b) PROVE (a \o b)[i] \in S
  <2>1. CASE i <= Len(a)  BY <1>2, <2>1 DEF Of
  <2>2. CASE i > Len(a)
    <3>1. i - Len(a) \in 1..Len(b)  BY <1>2, <2>2
    <3>. QED  BY <1>2, <2>2, <3>1 DEF Of
  <2>. QED  BY <1>2, <2>1, <2>2
<1>. QED  BY <1>3 DEF Of

\* The concatenation of two lists begins as the first does, or the second.
LEMMA BeginsConcat ==
  ASSUME NEW a, NEW b, Shape(a), Shape(b), NEW S,
         a = <<>> \/ a[1] \notin S, b = <<>> \/ b[1] \notin S
  PROVE  a \o b = <<>> \/ (a \o b)[1] \notin S
<1>1. a \in Seq(StepNames) /\ b \in Seq(StepNames)  BY DEF Shape
<1>2. PICK c : c = a \o b  OBVIOUS
<1>3. /\ c \in Seq(StepNames) /\ Len(c) = Len(a) + Len(b)
      /\ \A i \in 1..Len(a) + Len(b) : c[i] = IF i <= Len(a) THEN a[i] ELSE b[i - Len(a)]
  BY <1>1, <1>2, ConcatProperties
<1>4. Len(a) \in Nat /\ Len(b) \in Nat  BY <1>1, LenProperties
<1>5. CASE a # <<>>
  <2>1. Len(a) > 0  BY <1>1, <1>4, <1>5, EmptySeq
  <2>2. c[1] = a[1]  BY <1>3, <1>4, <2>1
  <2>. QED  BY <1>2, <1>5, <2>2
<1>6. CASE a = <<>> /\ b # <<>>
  <2>1. Len(a) = 0 /\ Len(b) > 0  BY <1>1, <1>4, <1>6, EmptySeq
  <2>2. c[1] = b[1]  BY <1>3, <1>4, <2>1
  <2>. QED  BY <1>2, <1>6, <2>2
<1>7. CASE a = <<>> /\ b = <<>>
  <2>1. Len(c) = 0  BY <1>1, <1>3, <1>7, EmptySeq
  <2>. QED  BY <1>2, <1>3, <2>1, EmptySeq
<1>. QED  BY <1>5, <1>6, <1>7

Charging == <<"enter", "begin", "record">>

\* The lists the requests are made of.
LEMMA Lists ==
  /\ Shape(<<>>)
  /\ Shape(Selecting)
  /\ Shape(Saving)
  /\ Shape(Charging)
  /\ Shape(<<"edit">>)
  /\ Shape(<<"profile">>)
  /\ Shape(<<"learners">>)
  /\ Shape(<<"select">>)
  /\ Shape(<<"gains", "stop">>)
  /\ \A step \in LearnerSteps : Shape(<<step, "learners">>)
  /\ Shape(<<"leave">>)
  /\ Shape(<<"learners", "leave">>)
  /\ Shape(<<"begin", "record">>)
  /\ Shape(<<"copy", "mark", "begin", "record">>)
BY DEF Shape, Selecting, Saving, Charging, StepNames, ChargeSteps, LearnerSteps, LoadSteps

-----------------------------------------------------------------------------
(* The requests under way. *)

Ops == [steps : Seq(StepNames), p : Profiles \union {0}, v : Stops]

\* Steps that name a profile.
Addressed == LoadSteps \union LearnerSteps

\* What a task has left is a list of steps, with a profile if one of them needs it; only
\* the menu task charges, and enters charge mode with just a charge to come.
ScriptOK(t) ==
  /\ Shape(op[t].steps)
  /\ \A i \in 1..Len(op[t].steps) :
       /\ op[t].steps[i] \in Addressed => op[t].p \in Profiles
       /\ op[t].steps[i] \in ChargeSteps => t = "menu"
       /\ op[t].steps[i] = "enter" => i = 1 /\ op[t].steps = Charging
       /\ op[t].steps[i] = "record" => i = Len(op[t].steps)
OpInv == op \in [Tasks -> Ops] /\ \A t \in Tasks : ScriptOK(t)

\* An idle task has nothing left.
LEMMA FreeOK == Free \in Ops /\ Shape(Free.steps) /\ Len(Free.steps) = 0
<1>1. <<>> \in Seq(StepNames) /\ Len(<<>>) = 0  BY EmptySeq
<1>2. Free = [steps |-> <<>>, p |-> 0, v |-> Old]  BY DEF Free
<1>. QED  BY <1>1, <1>2 DEF Ops, Shape, Stops

\* The next step of a task.
LEMMA NextStep ==
  ASSUME OpInv, NEW t \in Tasks, op[t].steps # <<>>
  PROVE  /\ op[t] \in Ops /\ 1 \in 1..Len(op[t].steps)
         /\ Head(op[t].steps) = op[t].steps[1]
         /\ op[t].steps[1] \in Addressed => op[t].p \in Profiles
         /\ op[t].steps[1] \in ChargeSteps => t = "menu"
         /\ op[t].steps[1] = "enter" => op[t].steps = Charging
         /\ op[t].steps[1] = "record" => Len(op[t].steps) = 1
<1>1. op[t] \in Ops /\ ScriptOK(t)  BY DEF OpInv
<1>2. op[t].steps \in Seq(StepNames)  BY <1>1 DEF Ops
<1>3. Len(op[t].steps) \in Nat \ {0} /\ Head(op[t].steps) = op[t].steps[1]
  BY <1>2, TailOf
<1>4. 1 \in 1..Len(op[t].steps)  BY <1>3
<1>. QED  BY <1>1, <1>3, <1>4 DEF ScriptOK

\* A step taken off leaves a list of steps, and the other task as it was.
LEMMA DoneOps ==
  ASSUME OpInv, NEW t \in Tasks, op[t].steps # <<>>, Done(t)
  PROVE  /\ OpInv'
         /\ op'[t].steps = Tail(op[t].steps)
         /\ op'[t].steps # <<>> => op'[t].p = op[t].p /\ op'[t].v = op[t].v
         /\ \A u \in Tasks \ {t} : op'[u] = op[u]
<1>1. op[t] \in Ops /\ ScriptOK(t) /\ op \in [Tasks -> Ops]  BY DEF OpInv
<1>2. PICK s : s = op[t].steps  OBVIOUS
<1>3. s \in Seq(StepNames) /\ Shape(s) /\ s # <<>>  BY <1>1, <1>2 DEF ScriptOK, Shape
<1>4. /\ Len(s) \in Nat \ {0} /\ Tail(s) \in Seq(StepNames) /\ Len(Tail(s)) = Len(s) - 1
      /\ \A i \in 1..Len(Tail(s)) : Tail(s)[i] = s[i + 1]
      /\ Tail(s) # <<>> <=> Len(s) > 1
  BY <1>3, TailOf
<1>5. Shape(Tail(s))  BY <1>3, ShapeTail
<1>6. Rest(op[t]) \in Ops /\ Rest(op[t]).steps = Tail(s)
      /\ (Tail(s) # <<>> => Rest(op[t]).p = op[t].p /\ Rest(op[t]).v = op[t].v)
  <2>1. CASE Len(s) = 1
    <3>1. Rest(op[t]) = Free  BY <1>2, <2>1 DEF Rest
    <3>2. Tail(s) = <<>>  BY <1>4, <2>1
    <3>. QED  BY <3>1, <3>2, FreeOK DEF Free
  <2>2. CASE Len(s) # 1
    <3>1. Rest(op[t]) = [op[t] EXCEPT !.steps = Tail(s)]  BY <1>2, <2>2 DEF Rest
    <3>. QED  BY <1>1, <1>4, <3>1 DEF Ops
  <2>. QED  BY <2>1, <2>2
<1>7. op' \in [Tasks -> Ops] /\ op'[t] = Rest(op[t])
      /\ \A u \in Tasks \ {t} : op'[u] = op[u]
  BY <1>1, <1>6 DEF Done
<1>8. ScriptOK(t)'
  <2>1. op'[t].steps = Tail(s)  BY <1>6, <1>7
  <2>2. ASSUME NEW i \in 1..Len(Tail(s))
        PROVE  /\ Tail(s)[i] \in Addressed => op'[t].p \in Profiles
               /\ Tail(s)[i] \in ChargeSteps => t = "menu"
               /\ Tail(s)[i] # "enter"
               /\ Tail(s)[i] = "record" => i = Len(Tail(s))
    <3>1. i + 1 \in 1..Len(s) /\ Tail(s)[i] = s[i + 1] /\ Len(s) > 1  BY <1>4
    <3>2. op'[t].p = op[t].p  BY <1>4, <1>6, <1>7, <3>1
    <3>. QED  BY <1>1, <1>2, <1>4, <3>1, <3>2 DEF ScriptOK
  <2>. QED  BY <1>5, <2>1, <2>2 DEF ScriptOK
<1>9. ASSUME NEW u \in Tasks \ {t} PROVE ScriptOK(u)'
  BY <1>7, <1>9 DEF OpInv, ScriptOK
<1>10. OpInv'  BY <1>7, <1>8, <1>9 DEF OpInv
<1>. QED  BY <1>2, <1>6, <1>7, <1>10

\* The first steps of a charge, and of its record, stand before what the task has left.
LEMMA ThenOps ==
  ASSUME OpInv, NEW t \in Tasks, op[t].steps # <<>>, op[t].steps[1] \in ChargeSteps,
         NEW p \in Profiles \union {0}, NEW s, Shape(s),
         op' = [op EXCEPT ![t] = [steps |-> s, p |-> p, v |-> op[t].v]],
         \A i \in 1..Len(s) :
           /\ s[i] \in Addressed => p \in Profiles
           /\ s[i] # "enter"
           /\ s[i] = "record" => i = Len(s)
  PROVE  OpInv'
<1>1. op[t] \in Ops /\ op \in [Tasks -> Ops] /\ t = "menu"  BY NextStep DEF OpInv
<1>2. s \in Seq(StepNames)  BY DEF Shape
<1>3. [steps |-> s, p |-> p, v |-> op[t].v] \in Ops  BY <1>1, <1>2 DEF Ops
<1>4. op' \in [Tasks -> Ops] /\ op'[t] = [steps |-> s, p |-> p, v |-> op[t].v]
      /\ \A u \in Tasks \ {t} : op'[u] = op[u]
  BY <1>1, <1>3
<1>5. ScriptOK(t)'  BY <1>1, <1>4 DEF ScriptOK
<1>6. ASSUME NEW u \in Tasks \ {t} PROVE ScriptOK(u)'
  BY <1>4, <1>6 DEF OpInv, ScriptOK
<1>. QED  BY <1>4, <1>5, <1>6 DEF OpInv

\* A request begins with its list of steps.
LEMMA StartOps ==
  ASSUME OpInv, NEW t \in Tasks, NEW s, NEW p \in Profiles \union {0}, NEW v \in Stops,
         Start(t, s, p, v), Shape(s),
         \A i \in 1..Len(s) :
           /\ s[i] \in Addressed => p \in Profiles
           /\ s[i] \in ChargeSteps => t = "menu" /\ s = Charging
  PROVE  /\ OpInv'
         /\ op'[t].steps = s /\ op'[t].p = p
         /\ \A u \in Tasks \ {t} : op'[u] = op[u]
<1>1. op \in [Tasks -> Ops]  BY DEF OpInv
<1>2. [steps |-> s, p |-> p, v |-> v] \in Ops  BY DEF Ops, Shape
<1>3. op' \in [Tasks -> Ops] /\ op'[t] = [steps |-> s, p |-> p, v |-> v]
      /\ \A u \in Tasks \ {t} : op'[u] = op[u]
  BY <1>1, <1>2 DEF Start
<1>4. ScriptOK(t)'
  <2>1. ASSUME NEW i \in 1..Len(s), s = Charging
        PROVE  (s[i] = "enter" => i = 1) /\ (s[i] = "record" => i = Len(s))
    BY <2>1 DEF Charging
  <2>. QED  BY <1>3, <2>1 DEF ScriptOK, ChargeSteps
<1>5. ASSUME NEW u \in Tasks \ {t} PROVE ScriptOK(u)'
  BY <1>3, <1>5 DEF OpInv, ScriptOK
<1>6. OpInv'  BY <1>3, <1>4, <1>5 DEF OpInv
<1>. QED  BY <1>3, <1>6

-----------------------------------------------------------------------------
(* Types. *)

\* Where the last charge and the last fit went, and where a charge's throw will.
HistoryOK ==
  /\ charge \in [p : Profiles \union {0}, of : Profiles \union {0}, calm : BOOLEAN]
  /\ fit \in [gains : Profiles \union {0}, stop : Profiles \union {0}]
  /\ At("menu", "record") => charge.p \in Profiles
TypeInv == TypeOK /\ OpInv /\ HistoryOK

\* A task that has a step at its head has that step first in its list.
LEMMA AtFirst ==
  ASSUME OpInv, NEW t \in Tasks, NEW step, At(t, step)
  PROVE  op[t].steps # <<>> /\ op[t].steps[1] = step
BY NextStep DEF At

\* After one step of a task, the next is the second of its list.
LEMMA AtNext ==
  ASSUME OpInv, NEW t \in Tasks, op[t].steps # <<>>, Done(t),
         NEW step, At(t, step)'
  PROVE  Len(op[t].steps) > 1 /\ op[t].steps[2] = step
<1>1. OpInv' /\ op'[t].steps = Tail(op[t].steps)  BY DoneOps
<1>2. PICK s : s = op[t].steps  OBVIOUS
<1>3. Shape(s) /\ s \in Seq(StepNames) /\ s # <<>>  BY <1>2 DEF OpInv, ScriptOK, Shape
<1>4. PICK r : r = Tail(s)  OBVIOUS
<1>5. Shape(r) /\ r \in Seq(StepNames)  BY <1>1, <1>2, <1>4 DEF OpInv, ScriptOK, Shape
<1>6. r # <<>> /\ Head(r) = step  BY <1>1, <1>2, <1>4 DEF At
<1>7. Len(r) \in Nat \ {0} /\ r[1] = step  BY <1>5, <1>6, TailOf
<1>8. Len(s) \in Nat /\ Len(r) = Len(s) - 1 /\ \A i \in 1..Len(r) : r[i] = s[i + 1]
  BY <1>3, <1>4, TailOf
<1>9. Len(s) > 1 /\ s[2] = step  BY <1>7, <1>8
<1>. QED  BY <1>2, <1>9

\* What the list of a task says of the step after its first.
LEMMA Second ==
  ASSUME OpInv, NEW t \in Tasks, op[t].steps # <<>>
  PROVE  LET s == op[t].steps IN
         /\ s[1] = "copy" => Len(s) > 1 /\ s[2] = "mark"
         /\ s[1] \in LearnerSteps => Len(s) > 1 /\ s[2] = "learners"
         /\ Len(s) > 1 /\ s[2] = "mark" => s[1] = "copy"
         /\ Len(s) > 1 /\ s[2] = "copy" => s[1] = "select"
         /\ Len(s) > 1 /\ s[2] = "slot" => s[1] = "index"
         /\ Len(s) > 1 /\ s[2] = "begin" => s[1] \in {"enter", "mark"}
         /\ Len(s) > 1 /\ s[2] = "record" => s[1] = "begin"
<1>1. PICK s : s = op[t].steps  OBVIOUS
<1>2. Shape(s) /\ s \in Seq(StepNames) /\ s # <<>>  BY <1>1 DEF OpInv, ScriptOK, Shape
<1>3. Len(s) \in Nat \ {0}  BY <1>2, TailOf
<1>4. 1 \in 1..Len(s) /\ (Len(s) > 1 => 2 \in 1..Len(s))  BY <1>3
<1>5. /\ s[1] = "copy" => Len(s) > 1 /\ s[2] = "mark"
      /\ s[1] \in LearnerSteps => Len(s) > 1 /\ s[2] = "learners"
  BY <1>2, <1>4 DEF Shape
<1>6. Len(s) > 1 =>
        /\ s[2] = "mark" => s[1] = "copy"
        /\ s[2] = "copy" => s[1] = "select"
        /\ s[2] = "slot" => s[1] = "index"
        /\ s[2] = "begin" => s[1] \in {"enter", "mark"}
        /\ s[2] = "record" => s[1] = "begin"
  BY <1>2, <1>4 DEF Shape
<1>. QED  BY <1>1, <1>5, <1>6

-----------------------------------------------------------------------------
(* Lists of the requests. *)

\* The load of a profile and the charge after it are one list.
LEMMA LoadThenCharge ==
  <<"copy", "mark">> \o <<"begin", "record">> = <<"copy", "mark", "begin", "record">>
<1>. DEFINE a == <<"copy", "mark">>
            b == <<"begin", "record">>
            c == <<"copy", "mark", "begin", "record">>
<1>1. a \in Seq(StepNames) /\ b \in Seq(StepNames) /\ c \in Seq(StepNames)
  BY Lists DEF Shape, StepNames, ChargeSteps, LoadSteps
<1>2. Len(a) = 2 /\ Len(b) = 2 /\ Len(c) = 4  OBVIOUS
<1>3. c[1] = a[1] /\ c[2] = a[2] /\ c[3] = b[1] /\ c[4] = b[2]  OBVIOUS
<1>. HIDE DEF a, b, c
<1>4. PICK d : d = a \o b  OBVIOUS
<1>5. /\ d \in Seq(StepNames) /\ Len(d) = Len(a) + Len(b)
      /\ \A i \in 1..Len(a) + Len(b) : d[i] = IF i <= Len(a) THEN a[i] ELSE b[i - Len(a)]
  BY <1>1, <1>4, ConcatProperties
<1>6. /\ a \o b \in Seq(StepNames) /\ Len(a \o b) = 4
      /\ \A i \in 1..4 : (a \o b)[i] = IF i <= 2 THEN a[i] ELSE b[i - 2]
  BY <1>2, <1>4, <1>5
<1>7. \A i \in 1..4 : (a \o b)[i] = c[i]  BY <1>3, <1>6
<1>8. a \o b = c  BY <1>1, <1>2, <1>6, <1>7, SeqEqual
<1>. QED  BY <1>8 DEF a, b, c

\* What a task left after charge mode was entered: the load, if one is due, and the charge.
LEMMA EnterOps ==
  ASSUME OpInv, selected \in Profiles, NEW t \in Tasks, Enter(t)
  PROVE  /\ OpInv' /\ t = "menu"
         /\ op'[t].steps = IF selected = loaded THEN <<"begin", "record">>
                           ELSE <<"copy", "mark", "begin", "record">>
         /\ op'[t].p = selected
         /\ \A u \in Tasks \ {t} : op'[u] = op[u]
<1>1. op[t].steps # <<>> /\ op[t].steps[1] = "enter"  BY AtFirst DEF Enter
<1>2. op[t].steps = <<"enter", "begin", "record">> /\ t = "menu"
  BY <1>1, NextStep DEF Charging, ChargeSteps
<1>3. Tail(op[t].steps) = <<"begin", "record">>  BY <1>2
<1>4. PICK more : more = IF selected = loaded THEN <<>> ELSE <<"copy", "mark">>  OBVIOUS
<1>5. PICK s : s = IF selected = loaded THEN <<"begin", "record">>
                   ELSE <<"copy", "mark", "begin", "record">>
  OBVIOUS
<1>6. s = more \o Tail(op[t].steps)
  <2>1. CASE selected = loaded  BY <1>3, <1>4, <1>5, <2>1
  <2>2. CASE selected # loaded
    <3>1. more = <<"copy", "mark">> /\ s = <<"copy", "mark", "begin", "record">>
      BY <1>4, <1>5, <2>2
    <3>. QED  BY <1>3, <3>1, LoadThenCharge
  <2>. QED  BY <2>1, <2>2
<1>7. Shape(s)  BY <1>5, Lists
<1>8. PICK p \in Profiles : p = selected  OBVIOUS
<1>9. \A i \in 1..Len(s) : /\ s[i] \in Addressed => p \in Profiles
                           /\ s[i] # "enter"
                           /\ s[i] = "record" => i = Len(s)
  BY <1>5
<1>10. op' = [op EXCEPT ![t] = [steps |-> s, p |-> p, v |-> op[t].v]]
  BY <1>4, <1>6, <1>8 DEF Enter, DoneThen
<1>11. op[t].steps[1] \in ChargeSteps  BY <1>1 DEF ChargeSteps
<1>12. p \in Profiles \union {0}  OBVIOUS
<1>13. OpInv'  BY <1>1, <1>7, <1>9, <1>11, <1>12, <1>10, ThenOps, Zenon
<1>14. op \in [Tasks -> Ops]  BY DEF OpInv
<1>15. op'[t].steps = s /\ op'[t].p = p /\ \A u \in Tasks \ {t} : op'[u] = op[u]
  BY <1>10, <1>14
<1>. QED  BY <1>2, <1>5, <1>8, <1>13, <1>15

\* What a task left after the charge was recorded.
LEMMA RecordOps ==
  ASSUME OpInv, NEW t \in Tasks, Record(t)
  PROVE  /\ OpInv' /\ t = "menu"
         /\ op'[t].p = op[t].p
         /\ \A u \in Tasks \ {t} : op'[u] = op[u]
         /\ \/ op'[t].steps = <<"learners", "leave">>
            \/ op'[t].steps = <<"leave">> /\ UNCHANGED learner
<1>1. op[t].steps # <<>> /\ op[t].steps[1] = "record"  BY AtFirst DEF Record
<1>2. t = "menu" /\ Len(op[t].steps) = 1 /\ op[t] \in Ops
  BY <1>1, NextStep DEF ChargeSteps
<1>3. Tail(op[t].steps) = <<>>
  <2>1. op[t].steps \in Seq(StepNames)  BY <1>2 DEF Ops
  <2>2. PICK r : r = Tail(op[t].steps)  OBVIOUS
  <2>3. r \in Seq(StepNames) /\ Len(r) = 0  BY <1>1, <1>2, <2>1, <2>2, TailOf
  <2>. QED  BY <2>2, <2>3, EmptySeq
<1>4. PICK p \in Profiles \union {0} : p = op[t].p  BY <1>2 DEF Ops
<1>5. PICK more : /\ op' = [op EXCEPT ![t] =
                            [steps |-> more \o Tail(op[t].steps), p |-> p, v |-> op[t].v]]
                  /\ \/ more = <<"learners", "leave">>
                     \/ more = <<"leave">> /\ UNCHANGED learner
  BY <1>4 DEF Record, DoneThen
<1>6. more = more \o Tail(op[t].steps)
  <2>1. CASE more = <<"learners", "leave">>
    <3>1. <<"learners", "leave">> \o <<>> = <<"learners", "leave">>  OBVIOUS
    <3>. QED  BY <1>3, <2>1, <3>1
  <2>2. CASE more = <<"leave">>
    <3>1. <<"leave">> \o <<>> = <<"leave">>  OBVIOUS
    <3>. QED  BY <1>3, <2>2, <3>1
  <2>. QED  BY <1>5, <2>1, <2>2
<1>7. op' = [op EXCEPT ![t] = [steps |-> more, p |-> p, v |-> op[t].v]]
  BY <1>5, <1>6
<1>8. Shape(more)  BY <1>5, Lists
<1>9. \A i \in 1..Len(more) : /\ more[i] \in Addressed => p \in Profiles
                              /\ more[i] # "enter"
                              /\ more[i] = "record" => i = Len(more)
  BY <1>5 DEF Addressed, LoadSteps, LearnerSteps
<1>10. op[t].steps[1] \in ChargeSteps
  BY <1>1, <1>2 DEF Ops, ChargeSteps
<1>11. OpInv'  BY <1>1, <1>8, <1>9, <1>10, <1>4, <1>7, ThenOps, Zenon
<1>12. op \in [Tasks -> Ops]  BY DEF OpInv
<1>13. op'[t].steps = more /\ op'[t].p = p /\ \A u \in Tasks \ {t} : op'[u] = op[u]
  BY <1>7, <1>12
<1>. QED  BY <1>2, <1>5, <1>4, <1>11, <1>13

\* A request: t had nothing left, and has a list now that begins with a step that may begin one.
Asked(t) ==
  /\ op[t].steps = <<>>
  /\ op'[t].steps = <<>> \/ op'[t].steps[1] \notin Followers \union {"leave"}
  /\ \A u \in Tasks \ {t} : op'[u] = op[u]
  /\ charge' = IF t = "tcpip" THEN [charge EXCEPT !.calm = FALSE] ELSE charge
  /\ UNCHANGED <<selected, working, loaded, table, learner, saved, slot, fit, clash>>
  /\ requests < MaxRequests /\ requests' = requests + 1

MayAsk(t, s, p) ==
  /\ Shape(s) /\ (s = <<>> \/ s[1] \notin Followers)
  /\ \A i \in 1..Len(s) :
       /\ s[i] \in Addressed => p \in Profiles
       /\ s[i] \in ChargeSteps => t = "menu" /\ s = Charging

\* A list that may be asked for is a request once it is started.
LEMMA StartAsks ==
  ASSUME OpInv, NEW t \in Tasks, NEW s, NEW p \in Profiles \union {0}, NEW v \in Stops,
         Start(t, s, p, v), MayAsk(t, s, p)
  PROVE  OpInv' /\ Asked(t)
<1>1. Shape(s) /\ (s = <<>> \/ s[1] \notin Followers)  BY DEF MayAsk
<1>2. s \in Seq(StepNames)  BY <1>1 DEF Shape
<1>3. s # <<>> => 1 \in 1..Len(s)  BY <1>2, TailOf
<1>4. s = <<>> \/ s[1] # "leave"
  <2>1. CASE s = Charging  BY <2>1 DEF Charging
  <2>2. CASE s # Charging  BY <1>3, <2>2 DEF MayAsk, ChargeSteps
  <2>. QED  BY <2>1, <2>2
<1>5. /\ OpInv' /\ op'[t].steps = s
      /\ \A u \in Tasks \ {t} : op'[u] = op[u]
  BY <1>1, StartOps DEF MayAsk
<1>. QED  BY <1>1, <1>4, <1>5 DEF Start, Asked

\* Every request is one.
LEMMA RestConfigAsks ==
  ASSUME OpInv, RestConfig PROVE OpInv' /\ Asked("tcpip")
<1>1. PICK p \in Profiles, select \in BOOLEAN, edit \in BOOLEAN, ee \in BOOLEAN, v \in Edits :
        Start("tcpip",
              (IF select THEN Selecting ELSE <<>>) \o (IF edit THEN <<"edit">> ELSE <<>>)
                         \o (IF ee THEN Saving ELSE <<>>), p, v)
  BY DEF RestConfig
<1>2. PICK a : a = IF select THEN Selecting ELSE <<>>  OBVIOUS
<1>3. PICK b : b = IF edit THEN <<"edit">> ELSE <<>>  OBVIOUS
<1>4. PICK c : c = IF ee THEN Saving ELSE <<>>  OBVIOUS
<1>5. PICK s : s = a \o b \o c  OBVIOUS
<1>6. Start("tcpip", s, p, v)  BY <1>1, <1>2, <1>3, <1>4, <1>5
<1>. DEFINE S == StepNames \ ChargeSteps
            Begins(l) == l = <<>> \/ l[1] \notin Followers
<1>7. Shape(a) /\ Of(a, S) /\ Begins(a)
  BY <1>2, Lists DEF Of, Selecting, StepNames, ChargeSteps, LoadSteps, Followers
<1>8. Shape(b) /\ Of(b, S) /\ Begins(b)
  BY <1>3, Lists DEF Of, StepNames, ChargeSteps, Followers
<1>9. Shape(c) /\ Of(c, S) /\ Begins(c)
  BY <1>4, Lists DEF Of, Saving, StepNames, ChargeSteps, Followers
<1>10. Shape(a \o b) /\ Of(a \o b, S)  BY <1>7, <1>8, ShapeConcat, OfConcat
<1>11. Begins(a \o b)  BY <1>7, <1>8, BeginsConcat
<1>12. Shape(s) /\ Of(s, S)  BY <1>5, <1>9, <1>10, ShapeConcat, OfConcat
<1>13. Begins(s)  BY <1>5, <1>9, <1>10, <1>11, BeginsConcat
<1>14. "tcpip" \in Tasks /\ v \in Stops /\ p \in Profiles \union {0}  BY DEF Tasks, Stops
<1>15. MayAsk("tcpip", s, p)  BY <1>12, <1>13 DEF MayAsk, Of
<1>. QED  BY <1>6, <1>14, <1>15, StartAsks

\* Its list is the selection and the save of the profile record.
LEMMA RestProfileAsks ==
  ASSUME OpInv, RestProfile PROVE OpInv' /\ Asked("tcpip")
<1>1. PICK p \in Profiles : Start("tcpip", Selecting \o <<"profile">>, p, Old)
  BY DEF RestProfile
<1>2. PICK a : a = Selecting  OBVIOUS
<1>3. PICK b : b = <<"profile">>  OBVIOUS
<1>4. PICK s : s = a \o b  OBVIOUS
<1>. DEFINE S == StepNames \ ChargeSteps
            Begins(l) == l = <<>> \/ l[1] \notin Followers
<1>5. Shape(a) /\ Of(a, S) /\ Begins(a)
  BY <1>2, Lists DEF Of, Selecting, StepNames, ChargeSteps, LoadSteps, Followers
<1>6. Shape(b) /\ Of(b, S) /\ Begins(b)
  BY <1>3, Lists DEF Of, StepNames, ChargeSteps, Followers
<1>7. Shape(s) /\ Of(s, S)  BY <1>4, <1>5, <1>6, ShapeConcat, OfConcat
<1>8. Begins(s)  BY <1>4, <1>5, <1>6, BeginsConcat
<1>9. MayAsk("tcpip", s, p)  BY <1>7, <1>8 DEF MayAsk, Of
<1>10. Start("tcpip", s, p, Old)  BY <1>1, <1>2, <1>3, <1>4
<1>11. "tcpip" \in Tasks /\ Old \in Stops /\ p \in Profiles \union {0}  BY DEF Tasks, Stops
<1>. QED  BY <1>9, <1>10, <1>11, StartAsks

LEMMA RestLearnerAsks ==
  ASSUME OpInv, RestLearner PROVE OpInv' /\ Asked("tcpip")
<1>1. PICK p \in Profiles, step \in LearnerSteps : Start("tcpip", <<step, "learners">>, p, Old)
  BY DEF RestLearner, LearnerSteps
<1>2. PICK s : s = <<step, "learners">>  OBVIOUS
<1>3. Shape(s)  BY <1>2, Lists
<1>4. s[1] \notin Followers /\ \A i \in 1..Len(s) : s[i] \notin ChargeSteps
  BY <1>2 DEF Followers, ChargeSteps, LearnerSteps
<1>5. MayAsk("tcpip", s, p)  BY <1>3, <1>4 DEF MayAsk
<1>6. "tcpip" \in Tasks /\ Old \in Stops /\ p \in Profiles \union {0}  BY DEF Tasks, Stops
<1>. QED  BY <1>1, <1>2, <1>5, <1>6, StartAsks

LEMMA RestFitAsks ==
  ASSUME OpInv, RestFit PROVE OpInv' /\ Asked("tcpip")
<1>1. PICK save \in BOOLEAN :
        Start("tcpip", <<"gains", "stop">> \o IF save THEN <<"profile">> \o Saving ELSE <<>>,
              0, Old)
  BY DEF RestFit
<1>2. PICK a : a = <<"gains", "stop">>  OBVIOUS
<1>3. PICK b : b = <<"profile">>  OBVIOUS
<1>4. PICK c : c = Saving  OBVIOUS
<1>5. PICK d : d = b \o c  OBVIOUS
<1>6. PICK e : e = IF save THEN d ELSE <<>>  OBVIOUS
<1>7. PICK s : s = a \o e  OBVIOUS
<1>. DEFINE S == StepNames \ (ChargeSteps \union Addressed)
            Begins(l) == l = <<>> \/ l[1] \notin Followers
<1>8. Shape(a) /\ Of(a, S) /\ Begins(a)
  BY <1>2, Lists
  DEF Of, StepNames, ChargeSteps, Followers, Addressed, LoadSteps, LearnerSteps
<1>9. Shape(b) /\ Of(b, S) /\ Begins(b)
  BY <1>3, Lists
  DEF Of, StepNames, ChargeSteps, Followers, Addressed, LoadSteps, LearnerSteps
<1>10. Shape(c) /\ Of(c, S) /\ Begins(c)
  BY <1>4, Lists
  DEF Of, Saving, StepNames, ChargeSteps, Followers, Addressed, LoadSteps, LearnerSteps
<1>11. Shape(d) /\ Of(d, S)  BY <1>5, <1>9, <1>10, ShapeConcat, OfConcat
<1>12. Begins(d)  BY <1>5, <1>9, <1>10, BeginsConcat
<1>13. Shape(e) /\ Of(e, S) /\ Begins(e)
  <2>1. Shape(<<>>) /\ Of(<<>>, S)  BY Lists DEF Of
  <2>. QED  BY <1>6, <1>11, <1>12, <2>1
<1>14. Shape(s) /\ Of(s, S)  BY <1>7, <1>8, <1>13, ShapeConcat, OfConcat
<1>15. Begins(s)  BY <1>7, <1>8, <1>13, BeginsConcat
<1>16. MayAsk("tcpip", s, 0)  BY <1>14, <1>15 DEF MayAsk, Of
<1>17. Start("tcpip", s, 0, Old)  BY <1>1, <1>2, <1>3, <1>4, <1>5, <1>6, <1>7
<1>18. "tcpip" \in Tasks /\ Old \in Stops /\ 0 \in Profiles \union {0}  BY DEF Tasks, Stops
<1>. QED  BY <1>16, <1>17, <1>18, StartAsks

LEMMA MenuListAsks ==
  ASSUME OpInv, MenuList PROVE OpInv' /\ Asked("menu")
<1>1. PICK p \in Profiles : Start("menu", <<"select">>, p, Old)  BY DEF MenuList
<1>2. PICK s : s = <<"select">>  OBVIOUS
<1>3. Shape(s)  BY <1>2, Lists
<1>4. s[1] \notin Followers /\ \A i \in 1..Len(s) : s[i] \notin ChargeSteps
  BY <1>2 DEF Followers, ChargeSteps
<1>5. MayAsk("menu", s, p)  BY <1>3, <1>4 DEF MayAsk
<1>6. "menu" \in Tasks /\ Old \in Stops /\ p \in Profiles \union {0}  BY DEF Tasks, Stops
<1>. QED  BY <1>1, <1>2, <1>5, <1>6, StartAsks

LEMMA MenuChargeAsks ==
  ASSUME OpInv, MenuCharge PROVE OpInv' /\ Asked("menu")
<1>1. Start("menu", <<"enter", "begin", "record">>, 0, Old)  BY DEF MenuCharge
<1>2. PICK s : s = <<"enter", "begin", "record">>  OBVIOUS
<1>3. Shape(s) /\ s = Charging  BY <1>2, Lists DEF Charging
<1>4. s[1] \notin Followers /\ \A i \in 1..Len(s) : s[i] \notin Addressed
  BY <1>2 DEF Followers, Addressed, LoadSteps, LearnerSteps
<1>5. MayAsk("menu", s, 0)  BY <1>3, <1>4 DEF MayAsk
<1>6. "menu" \in Tasks /\ Old \in Stops /\ 0 \in Profiles \union {0}  BY DEF Tasks, Stops
<1>. QED  BY <1>1, <1>2, <1>5, <1>6, StartAsks

LEMMA MenuAutotuneAsks ==
  ASSUME OpInv, MenuAutotune PROVE OpInv' /\ Asked("menu")
<1>1. PICK ok \in BOOLEAN : Start("menu", IF ok THEN <<"gains", "stop">> ELSE <<>>, 0, Old)
  BY DEF MenuAutotune
<1>2. PICK s : s = IF ok THEN <<"gains", "stop">> ELSE <<>>  OBVIOUS
<1>3. Shape(s)  BY <1>2, Lists
<1>4. /\ s = <<>> \/ s[1] \notin Followers
      /\ \A i \in 1..Len(s) : s[i] \notin Addressed \union ChargeSteps
  BY <1>2 DEF Followers, Addressed, LoadSteps, LearnerSteps, ChargeSteps
<1>5. MayAsk("menu", s, 0)  BY <1>3, <1>4 DEF MayAsk
<1>6. "menu" \in Tasks /\ Old \in Stops /\ 0 \in Profiles \union {0}  BY DEF Tasks, Stops
<1>. QED  BY <1>1, <1>2, <1>5, <1>6, StartAsks

LEMMA MenuSaveAllAsks ==
  ASSUME OpInv, MenuSaveAll PROVE OpInv' /\ Asked("menu")
<1>1. Start("menu", <<"learners">> \o Saving \o <<"profile">>, 0, Old)  BY DEF MenuSaveAll
<1>2. PICK a : a = <<"learners">>  OBVIOUS
<1>3. PICK b : b = Saving  OBVIOUS
<1>4. PICK c : c = <<"profile">>  OBVIOUS
<1>5. PICK d : d = a \o b  OBVIOUS
<1>6. PICK s : s = d \o c  OBVIOUS
<1>. DEFINE S == StepNames \ (ChargeSteps \union Addressed)
            Begins(l) == l = <<>> \/ l[1] \notin Followers
<1>7. Shape(a) /\ Of(a, S) /\ Begins(a)
  BY <1>2, Lists
  DEF Of, StepNames, ChargeSteps, Followers, Addressed, LoadSteps, LearnerSteps
<1>8. Shape(b) /\ Of(b, S) /\ Begins(b)
  BY <1>3, Lists
  DEF Of, Saving, StepNames, ChargeSteps, Followers, Addressed, LoadSteps, LearnerSteps
<1>9. Shape(c) /\ Of(c, S) /\ Begins(c)
  BY <1>4, Lists
  DEF Of, StepNames, ChargeSteps, Followers, Addressed, LoadSteps, LearnerSteps
<1>10. Shape(d) /\ Of(d, S)  BY <1>5, <1>7, <1>8, ShapeConcat, OfConcat
<1>11. Begins(d)  BY <1>5, <1>7, <1>8, BeginsConcat
<1>12. Shape(s) /\ Of(s, S)  BY <1>6, <1>9, <1>10, ShapeConcat, OfConcat
<1>13. Begins(s)  BY <1>6, <1>9, <1>10, <1>11, BeginsConcat
<1>14. MayAsk("menu", s, 0)  BY <1>12, <1>13 DEF MayAsk, Of
<1>15. Start("menu", s, 0, Old)  BY <1>1, <1>2, <1>3, <1>4, <1>5, <1>6
<1>16. "menu" \in Tasks /\ Old \in Stops /\ 0 \in Profiles \union {0}  BY DEF Tasks, Stops
<1>. QED  BY <1>14, <1>15, <1>16, StartAsks

\* Every request starts a list that may be asked for.
LEMMA RequestAsks ==
  ASSUME OpInv, Request
  PROVE  OpInv' /\ (\E t \in Tasks : Asked(t)) /\ (UNCHANGED result \/ result' = FALSE)
<1>1. OpInv' /\ \E t \in Tasks : Asked(t)
  BY RestConfigAsks, RestProfileAsks, RestLearnerAsks, RestFitAsks, MenuListAsks,
     MenuChargeAsks, MenuAutotuneAsks, MenuSaveAllAsks
  DEF Request, Tasks
<1>2. UNCHANGED result \/ result' = FALSE
  BY DEF Request, RestConfig, RestProfile, RestLearner, RestFit, MenuList, MenuCharge,
         MenuAutotune, MenuSaveAll
<1>. QED  BY <1>1, <1>2

-----------------------------------------------------------------------------
(* Type correctness. *)

\* A task carries a request on: the step at the head of its list is done.
StepDone(t) ==
  \/ Select(t) \/ Copy(t) \/ Mark(t) \/ Edit(t) \/ Index(t) \/ Slot(t) \/ Write(t) \/ Learner(t)
  \/ Begin(t) \/ Leave(t) \/ FitGains(t) \/ FitStop(t)

LEMMA StepCases ==
  ASSUME NEW t \in Tasks, Step(t)
  PROVE  StepDone(t) \/ Enter(t) \/ Record(t)
BY DEF Step, StepDone

\* It leaves the rest of its list, and the list of the other task.
LEMMA StepDoneOps ==
  ASSUME OpInv, NEW t \in Tasks, StepDone(t)
  PROVE  /\ op[t].steps # <<>> /\ Done(t) /\ OpInv'
         /\ \A u \in Tasks \ {t} : op'[u] = op[u]
<1>1. op[t].steps # <<>> /\ Done(t)
  BY DEF StepDone, Select, Copy, Mark, Edit, Index, Slot, Write, Learner, Begin, Leave,
        FitGains,
         FitStop, At
<1>. QED  BY <1>1, DoneOps

\* A restart leaves the tasks nothing.
LEMMA RestartOps ==
  ASSUME Restart PROVE OpInv' /\ \A t \in Tasks : op'[t].steps = <<>>
<1>1. op' = [t \in Tasks |-> Free]  BY DEF Restart
<1>2. \A t \in Tasks : op'[t] \in Ops /\ Shape(op'[t].steps) /\ op'[t].steps = <<>>
  BY <1>1, FreeOK DEF Free
<1>3. Len(<<>>) = 0  OBVIOUS
<1>4. \A t \in Tasks : ScriptOK(t)'  BY <1>2, <1>3 DEF ScriptOK
<1>. QED  BY <1>1, <1>2, <1>4 DEF OpInv

LEMMA InitOps == Init => OpInv /\ \A t \in Tasks : op[t].steps = <<>>
<1>. SUFFICES ASSUME Init PROVE OpInv /\ \A t \in Tasks : op[t].steps = <<>>  OBVIOUS
<1>1. op = [t \in Tasks |-> Free]  BY DEF Init
<1>2. \A t \in Tasks : op[t] \in Ops /\ Shape(op[t].steps) /\ op[t].steps = <<>>
  BY <1>1, FreeOK DEF Free
<1>3. Len(<<>>) = 0  OBVIOUS
<1>4. \A t \in Tasks : ScriptOK(t)  BY <1>2, <1>3 DEF ScriptOK
<1>. QED  BY <1>1, <1>2, <1>4 DEF OpInv

\* Whatever is done, the tasks' lists stay in order.
LEMMA OpStep ==
  ASSUME OpInv, selected \in Profiles, [Next]_vars PROVE OpInv'
<1>1. ASSUME NEW t \in Tasks, Step(t) PROVE OpInv'
  BY <1>1, StepCases, StepDoneOps, EnterOps, RecordOps
<1>2. CASE Request  BY <1>2, RequestAsks
<1>3. CASE Restart  BY <1>3, RestartOps
<1>4. CASE UNCHANGED vars  BY <1>4 DEF vars, OpInv, ScriptOK
<1>. QED  BY <1>1, <1>2, <1>3, <1>4 DEF Next

LEMMA TypeInit == Init => TypeInv
<1>. SUFFICES ASSUME Init PROVE TypeInv  OBVIOUS
<1>1. TypeOK
  <2>1. Old \in Stops /\ Old \in Stops \ Wide  BY StopsAssumption DEF Stops
  <2>2. \A p \in Profiles : [of |-> p, stop |-> Old] \in Settings  BY <2>1 DEF Settings
  <2>3. table \in [Profiles -> Settings]  BY <2>2 DEF Init
  <2>4. [on |-> FALSE, stop |-> Old, charged |-> FALSE] \in Learners  BY <2>1 DEF Learners
  <2>5. learner \in [Profiles -> Learners]  BY <2>4 DEF Init
  <2>6. working \in Settings /\ selected \in Profiles /\ loaded \in Profiles
    BY <2>3 DEF Init
  <2>7. saved \in [selected : Profiles, table : [Profiles -> Settings],
                  learner : [Profiles -> Learners]]
    BY <2>3, <2>5 DEF Init
  <2>8. requests \in 0..MaxRequests  BY BoundAssumption DEF Init
  <2>. QED  BY <2>3, <2>5, <2>6, <2>7, <2>8 DEF Init, TypeOK
<1>2. HistoryOK  BY InitOps DEF Init, HistoryOK, Nobody, NoFit, At, Tasks
<1>. QED  BY <1>1, <1>2, InitOps DEF TypeInv

\* What a learner starts from is in its range.
LEMMA SeedType ==
  ASSUME TypeOK, NEW p \in Profiles PROVE Seed(p) \in Learners
<1>1. Clamped(SetTo(p)) \in Stops \ Wide
  BY StopsAssumption DEF TypeOK, Clamped, SetTo, Settings, Stops
<1>2. learner[p] \in Learners  BY DEF TypeOK
<1>. QED  BY <1>1, <1>2 DEF Seed, Learners

\* Such a step keeps the types.
LEMMA TypeStepDone ==
  ASSUME TypeInv, NEW t \in Tasks, StepDone(t) PROVE TypeOK'
<1>. USE DEF TypeInv
<1>1. /\ At(t, op[t].steps[1]) /\ op[t] \in Ops
      /\ op[t].steps[1] \in Addressed => op[t].p \in Profiles
  BY StepDoneOps, NextStep DEF At
<1>2. CASE Select(t)
  <2>1. op[t].p \in Profiles  BY <1>1, <1>2 DEF Select, At, Addressed, LoadSteps
  <2>. QED  BY <1>2, <2>1 DEF Select, TypeOK
<1>3. CASE Copy(t)
  <2>1. op[t].p \in Profiles  BY <1>1, <1>3 DEF Copy, At, Addressed, LoadSteps
  <2>. QED  BY <1>3, <2>1 DEF Copy, TypeOK
<1>4. CASE Mark(t)
  <2>1. op[t].p \in Profiles  BY <1>1, <1>4 DEF Mark, At, Addressed, LoadSteps
  <2>. QED  BY <1>4, <2>1 DEF Mark, TypeOK
<1>5. CASE Edit(t)  BY <1>1, <1>5 DEF Edit, TypeOK, Settings, Ops
<1>6. CASE Index(t) \/ Slot(t)  BY <1>6 DEF Index, Slot, TypeOK
<1>7. CASE Write(t)  BY <1>7 DEF Write, TypeOK
<1>8. CASE Learner(t)
  <2>1. PICK step \in {"reset", "on", "off"} :
          /\ At(t, step)
          /\ LET p == op[t].p
                 first == step = "on" /\ ~learner[p].on /\ ~learner[p].charged
                 l == IF step = "reset" \/ first THEN Seed(p) ELSE learner[p] IN
             learner' = [learner EXCEPT ![p] =
                           [l EXCEPT !.on = IF step = "reset" THEN l.on ELSE step = "on"]]
    BY <1>8 DEF Learner
  <2>2. op[t].p \in Profiles  BY <1>1, <2>1 DEF At, Addressed, LearnerSteps
  <2>3. Seed(op[t].p) \in Learners /\ learner[op[t].p] \in Learners
    BY <2>2, SeedType DEF TypeOK
  <2>4. learner' \in [Profiles -> Learners]
    <3>1. ASSUME NEW l \in Learners, NEW b \in BOOLEAN
          PROVE  [l EXCEPT !.on = b] \in Learners /\ l.on \in BOOLEAN
      BY DEF Learners
    <3>2. PICK l \in Learners :
            learner' = [learner EXCEPT ![op[t].p] =
                          [l EXCEPT !.on = IF step = "reset" THEN l.on ELSE step = "on"]]
      BY <2>1, <2>3
    <3>3. (IF step = "reset" THEN l.on ELSE step = "on") \in BOOLEAN  BY <3>1
    <3>4. PICK m \in Learners : learner' = [learner EXCEPT ![op[t].p] = m]
      BY <3>1, <3>2, <3>3
    <3>. QED  BY <2>2, <3>4 DEF TypeOK
  <2>. QED  BY <1>8, <2>4 DEF Learner, TypeOK
<1>9. CASE Begin(t)  BY <1>9 DEF Begin, TypeOK
<1>10. CASE Leave(t)  BY <1>10 DEF Leave, TypeOK
<1>11. CASE FitGains(t)  BY <1>11 DEF FitGains, TypeOK
<1>12. CASE FitStop(t)  BY <1>12 DEF FitStop, TypeOK, Settings, Stops
<1>. QED
  BY <1>2, <1>3, <1>4, <1>5, <1>6, <1>7, <1>8, <1>9, <1>10, <1>11, <1>12 DEF StepDone

LEMMA TypeOKStep ==
  ASSUME TypeInv, [Next]_vars PROVE TypeOK'
<1>. USE DEF TypeInv
<1>1. ASSUME NEW t \in Tasks, Enter(t) PROVE TypeOK'  BY <1>1 DEF Enter, TypeOK
<1>2. ASSUME NEW t \in Tasks, Record(t) PROVE TypeOK'
  <2>1. charge.p \in Profiles
    <3>1. At("menu", "record")  BY <1>2, RecordOps DEF Record
    <3>. QED  BY <3>1 DEF HistoryOK
  <2>2. Learned \in Stops \ Wide  BY StopsAssumption DEF Stops
  <2>3. learner' \in [Profiles -> Learners]
    <3>1. CASE UNCHANGED learner  BY <3>1 DEF TypeOK
    <3>2. CASE learner' = [learner EXCEPT ![charge.p].stop = Learned,
          ![charge.p].charged = TRUE]
      BY <2>1, <2>2, <3>2 DEF TypeOK, Learners
    <3>. QED  BY <1>2, <3>1, <3>2 DEF Record
  <2>. QED  BY <1>2, <2>3 DEF Record, TypeOK
<1>3. CASE Request
  <2>1. PICK t \in Tasks : Asked(t)  BY <1>3, RequestAsks
  <2>2. result' \in BOOLEAN  BY <1>3, RequestAsks DEF TypeOK
  <2>. QED  BY <2>1, <2>2, BoundAssumption DEF Asked, TypeOK
<1>4. CASE Restart  BY <1>4 DEF Restart, TypeOK
<1>5. CASE UNCHANGED vars  BY <1>5 DEF vars, TypeOK
<1>. QED  BY <1>1, <1>2, <1>3, <1>4, <1>5, StepCases, TypeStepDone DEF Next

\* A request does not begin with a step that follows another.
LEMMA AskedNot ==
  ASSUME OpInv', NEW t \in Tasks, Asked(t), NEW step \in Followers \union {"leave"}
  PROVE  ~At(t, step)'
<1>1. op'[t].steps = <<>> \/ op'[t].steps[1] # step  BY DEF Asked
<1>2. op'[t].steps \in Seq(StepNames)  BY DEF OpInv, ScriptOK, Shape
<1>3. op'[t].steps # <<>> => Head(op'[t].steps) = op'[t].steps[1]  BY <1>2, TailOf
<1>. QED  BY <1>1, <1>3 DEF At

\* Only Begin puts a record at the head of the menu task's list.
LEMMA RecordAfterBegin ==
  ASSUME OpInv, NEW t \in Tasks, StepDone(t), t = "menu", At("menu", "record")'
  PROVE  Begin("menu")
<1>1. op[t].steps # <<>> /\ Done(t)  BY StepDoneOps
<1>2. Len(op[t].steps) > 1 /\ op[t].steps[2] = "record"  BY <1>1, AtNext
<1>3. op[t].steps[1] = "begin"  BY <1>1, <1>2, Second
<1>4. At(t, "begin")  BY <1>1, <1>3, NextStep DEF At
<1>. QED
  BY <1>4 DEF StepDone, Select, Copy, Mark, Edit, Index, Slot, Write, Learner, Leave, FitGains,
              FitStop, At

\* A record has the profile of its charge, which the step before it took.
LEMMA HistoryStep ==
  ASSUME TypeInv, [Next]_vars PROVE HistoryOK'
<1>. USE DEF TypeInv
<1>. DEFINE C == [p : Profiles \union {0}, of : Profiles \union {0}, calm : BOOLEAN]
            F == [gains : Profiles \union {0}, stop : Profiles \union {0}]
<1>1. charge \in C /\ fit \in F  BY DEF HistoryOK
<1>2. ASSUME NEW t \in Tasks, StepDone(t) PROVE HistoryOK'
  <2>1. charge' \in C /\ fit' \in F
    <3>1. CASE Begin(t)  BY <1>1, <3>1 DEF Begin, TypeOK, Settings
    <3>2. CASE Leave(t)  BY <1>1, <3>2 DEF Leave, Nobody
    <3>3. CASE FitGains(t)  BY <1>1, <3>3 DEF FitGains, TypeOK
    <3>4. CASE FitStop(t)
      <4>1. working.of \in Profiles \union {0}  BY DEF TypeOK, Settings
      <4>2. fit' = [fit EXCEPT !.stop = working.of] /\ UNCHANGED charge  BY <3>4 DEF FitStop
      <4>. QED  BY <1>1, <4>1, <4>2
    <3>. QED
      BY <1>1, <1>2, <3>1, <3>2, <3>3, <3>4
      DEF StepDone, Select, Copy, Mark, Edit, Index, Slot, Write, Learner
  <2>2. At("menu", "record")' => charge'.p \in Profiles
    <3>1. CASE t = "menu"
      <4>1. At("menu", "record")' => Begin("menu")  BY <1>2, <3>1, RecordAfterBegin
      <4>. QED  BY <4>1 DEF Begin, TypeOK
    <3>2. CASE t # "menu"
      <4>1. op'["menu"] = op["menu"]  BY <1>2, <3>2, StepDoneOps DEF Tasks
      <4>2. op[t].steps[1] \notin ChargeSteps  BY <1>2, <3>2, StepDoneOps, NextStep
      <4>3. ~Begin(t) /\ ~Leave(t)
        BY <1>2, <4>2, AtFirst DEF Begin, Leave, ChargeSteps
      <4>4. UNCHANGED charge
        BY <1>2, <4>3
        DEF StepDone, Select, Copy, Mark, Edit, Index, Slot, Write, Learner, FitGains, FitStop
      <4>. QED  BY <4>1, <4>4 DEF HistoryOK, At
    <3>. QED  BY <3>1, <3>2
  <2>. QED  BY <2>1, <2>2 DEF HistoryOK
<1>3. ASSUME NEW t \in Tasks, Enter(t) PROVE HistoryOK'
  <2>1. t = "menu" /\ ~At("menu", "record")'
    BY <1>3, EnterOps DEF At, TypeOK
  <2>2. charge' \in C /\ fit' \in F  BY <1>1, <1>3 DEF Enter, Nobody, Quiet
  <2>. QED  BY <2>1, <2>2 DEF HistoryOK
<1>4. ASSUME NEW t \in Tasks, Record(t) PROVE HistoryOK'
  <2>1. ~At("menu", "record")'  BY <1>4, RecordOps DEF At
  <2>. QED  BY <1>1, <1>4, <2>1 DEF Record, HistoryOK
<1>5. CASE Request
  <2>1. PICK t \in Tasks : Asked(t)  BY <1>5, RequestAsks
  <2>2. charge' \in C /\ fit' \in F /\ charge'.p = charge.p  BY <1>1, <2>1 DEF Asked
  <2>3. At("menu", "record")' => At("menu", "record")
    <3>1. CASE t = "menu"
      <4>1. ~At("menu", "record")'  BY <1>5, <2>1, <3>1, RequestAsks, AskedNot DEF Followers
      <4>. QED  BY <4>1
    <3>2. CASE t # "menu"  BY <2>1, <3>2 DEF Asked, At, Tasks
    <3>. QED  BY <3>1, <3>2
  <2>. QED  BY <2>2, <2>3 DEF HistoryOK
<1>6. CASE Restart
  <2>1. ~At("menu", "record")'  BY <1>6, RestartOps DEF At, Tasks
  <2>. QED  BY <1>6, <2>1 DEF Restart, Nobody, NoFit, HistoryOK
<1>7. CASE UNCHANGED vars  BY <1>7 DEF vars, HistoryOK, At
<1>. QED  BY <1>2, <1>3, <1>4, <1>5, <1>6, <1>7, StepCases DEF Next

LEMMA TypeStep == TypeInv /\ [Next]_vars => TypeInv'
<1>. SUFFICES ASSUME TypeInv, [Next]_vars PROVE TypeInv'  OBVIOUS
<1>1. OpInv'  BY OpStep DEF TypeInv, TypeOK
<1>. QED  BY <1>1, TypeOKStep, HistoryStep DEF TypeInv

\* Every variable holds a value the code can give it, and what a task has left of a request
\* is one of the lists of steps the handlers are made of (profile.c, charge_mode.cpp,
\* learn_from_throws.c, pid_autotune.cpp).
THEOREM TypeCorrect == Spec => []TypeOK
<1>1. Spec => []TypeInv  BY TypeInit, TypeStep, PTL DEF Spec
<1>2. TypeInv => TypeOK  BY DEF TypeInv
<1>. QED  BY <1>1, <1>2, PTL

-----------------------------------------------------------------------------
(* The slots of the profiles. *)

\* While no load runs into another one or into a save, the table and its saved copy have
\* every profile's settings in its slot; the working copy is the one of the profile that is
\* marked as loaded, or about to be; and a save that knows its slot knows the right one.
SlotInv ==
  ~clash =>
    /\ SlotsKeepOwner
    /\ \A t \in Tasks : At(t, "mark") => op[t].p = working.of
    /\ (\A t \in Tasks : ~At(t, "mark")) => working.of = loaded
    /\ \A t \in Tasks :
         At(t, "slot") => slot[t] = loaded /\ \A u \in Tasks : ~At(u, "mark")

\* Only Copy puts a mark at the head of a list, and it always does.
LEMMA MarkAfterCopy ==
  ASSUME OpInv, NEW t \in Tasks, StepDone(t)
  PROVE  /\ At(t, "mark")' <=> Copy(t)
         /\ Copy(t) => op'[t].p = op[t].p
<1>1. op[t].steps # <<>> /\ Done(t) /\ OpInv'  BY StepDoneOps
<1>2. ASSUME At(t, "mark")' PROVE Copy(t)
  <2>1. Len(op[t].steps) > 1 /\ op[t].steps[2] = "mark"  BY <1>1, <1>2, AtNext
  <2>2. op[t].steps[1] = "copy"  BY <1>1, <2>1, Second
  <2>3. At(t, "copy")  BY <1>1, <2>2, NextStep DEF At
  <2>. QED
    BY <2>3 DEF StepDone, Select, Mark, Edit, Index, Slot, Write, Learner, Begin, Leave,
          FitGains,
                FitStop, At
<1>3. ASSUME Copy(t) PROVE At(t, "mark")' /\ op'[t].p = op[t].p
  <2>1. op[t].steps[1] = "copy"  BY <1>3, AtFirst DEF Copy
  <2>2. Len(op[t].steps) > 1 /\ op[t].steps[2] = "mark"  BY <1>1, <2>1, Second
  <2>3. op'[t].steps # <<>> /\ op'[t].steps[1] = "mark"
    <3>1. PICK s : s = op[t].steps  OBVIOUS
    <3>2. PICK r : r = Tail(s)  OBVIOUS
    <3>3. s \in Seq(StepNames) /\ s # <<>>  BY <1>1, <3>1 DEF OpInv, ScriptOK, Shape
    <3>4. Len(s) \in Nat /\ Len(r) = Len(s) - 1 /\ (\A i \in 1..Len(r) : r[i] = s[i + 1])
          /\ (r # <<>> <=> Len(s) > 1)
      BY <3>2, <3>3, TailOf
    <3>5. Len(s) > 1 /\ s[2] = "mark"  BY <2>2, <3>1
    <3>6. r # <<>> /\ r[1] = "mark"  BY <3>4, <3>5
    <3>7. op'[t].steps = r  BY <1>1, <3>1, <3>2, DoneOps
    <3>. QED  BY <3>6, <3>7
  <2>4. op'[t].steps \in Seq(StepNames)  BY <1>1 DEF OpInv, ScriptOK, Shape
  <2>5. At(t, "mark")'  BY <2>3, <2>4, TailOf DEF At
  <2>6. op'[t].p = op[t].p  BY <1>1, <2>3, DoneOps
  <2>. QED  BY <2>5, <2>6
<1>. QED  BY <1>2, <1>3

\* Only Index puts the write of a slot at the head of a list.
LEMMA SlotAfterIndex ==
  ASSUME OpInv, NEW t \in Tasks, StepDone(t), At(t, "slot")' PROVE Index(t)
<1>1. op[t].steps # <<>> /\ Done(t)  BY StepDoneOps
<1>2. Len(op[t].steps) > 1 /\ op[t].steps[2] = "slot"  BY <1>1, AtNext
<1>3. op[t].steps[1] = "index"  BY <1>1, <1>2, Second
<1>4. At(t, "index")  BY <1>1, <1>3, NextStep DEF At
<1>. QED
  BY <1>4 DEF StepDone, Select, Copy, Mark, Edit, Slot, Write, Learner, Begin, Leave, FitGains,
              FitStop, At

LEMMA SlotInit == Init => SlotInv
<1>. SUFFICES ASSUME Init PROVE SlotInv  OBVIOUS
<1>1. \A t \in Tasks : ~At(t, "mark") /\ ~At(t, "slot")  BY InitOps DEF At
<1>2. \A p \in Profiles : table[p].of = p /\ saved.table[p].of = p  BY DEF Init
<1>3. working.of = loaded  BY DEF Init
<1>. QED  BY <1>1, <1>2, <1>3 DEF SlotInv, SlotsKeepOwner

\* Such a step keeps the slots: only Copy, Mark, Index and Slot have to do with them.
LEMMA SlotStepDone ==
  ASSUME TypeInv, SlotInv, NEW t \in Tasks, StepDone(t) PROVE SlotInv'
<1>. SUFFICES ASSUME ~clash' PROVE SlotInv'  BY DEF SlotInv
<1>. USE DEF TypeInv
<1>1. ~clash
  BY DEF StepDone, Select, Copy, Mark, Edit, Index, Slot, Write, Learner, Begin, Leave,
         FitGains, FitStop
<1>2. /\ \A p \in Profiles : table[p].of = p /\ saved.table[p].of = p
      /\ \A u \in Tasks : At(u, "mark") => op[u].p = working.of
      /\ (\A u \in Tasks : ~At(u, "mark")) => working.of = loaded
      /\ \A u \in Tasks : At(u, "slot") => slot[u] = loaded /\ \A w \in Tasks : ~At(w, "mark")
  BY <1>1 DEF SlotInv, SlotsKeepOwner
<1>3. /\ \A u \in Tasks \ {t} :
           op'[u] = op[u] /\ (At(u, "mark")' <=> At(u, "mark"))
             /\ (At(u, "slot")' <=> At(u, "slot"))
      /\ At(t, "mark")' <=> Copy(t)
      /\ Copy(t) => op'[t].p = op[t].p
      /\ At(t, "slot")' => Index(t)
  BY StepDoneOps, MarkAfterCopy, SlotAfterIndex DEF At
<1>. DEFINE Slots == \A u \in Tasks : At(u, "slot") => slot[u] = loaded
                                                     /\ \A w \in Tasks : ~At(w, "mark")
<1>4. CASE Copy(t)
  <2>1. op[t].p \in Profiles
    BY <1>4, StepDoneOps, AtFirst, NextStep DEF Copy, Addressed, LoadSteps
  <2>2. working'.of = op[t].p /\ UNCHANGED <<table, saved>>  BY <1>2, <1>4, <2>1 DEF Copy
  <2>3. \A u \in Tasks \ {t} : ~At(u, "mark") /\ ~At(u, "slot")  BY <1>4 DEF Copy, Torn, Storing
  <2>4. \A u \in Tasks : At(u, "mark")' => op'[u].p = working'.of
    BY <1>3, <1>4, <2>2, <2>3
  <2>5. ~Index(t)  BY <1>4 DEF Copy, Index, At
  <2>6. Slots'  BY <1>3, <2>3, <2>5
  <2>. QED  BY <1>2, <1>3, <1>4, <2>2, <2>4, <2>6 DEF SlotInv, SlotsKeepOwner
<1>5. CASE Mark(t)
  <2>1. ~Copy(t) /\ ~Index(t) /\ At(t, "mark")  BY <1>5 DEF Mark, Copy, Index, At
  <2>2. \A u \in Tasks : ~At(u, "mark")'  BY <1>3, <1>5, <2>1 DEF Mark, Torn
  <2>3. working'.of = loaded' /\ UNCHANGED <<table, saved>>  BY <1>2, <1>5, <2>1 DEF Mark
  <2>4. Slots'  BY <1>2, <1>3, <2>1
  <2>. QED  BY <1>2, <2>2, <2>3, <2>4 DEF SlotInv, SlotsKeepOwner
<1>6. CASE Index(t)
  <2>1. \A u \in Tasks : ~At(u, "mark")  BY <1>6 DEF Index, Torn, At
  <2>2. ~Copy(t)  BY <1>6 DEF Index, Copy, At
  <2>3. \A u \in Tasks : ~At(u, "mark")'  BY <1>3, <2>1, <2>2
  <2>4. UNCHANGED <<working, loaded, table, saved>>  BY <1>6 DEF Index
  <2>5. slot'[t] = loaded /\ \A u \in Tasks \ {t} : slot'[u] = slot[u]
    BY <1>6 DEF Index, TypeOK
  <2>6. Slots'  BY <1>2, <1>3, <2>3, <2>4, <2>5
  <2>. QED  BY <1>2, <2>1, <2>3, <2>4, <2>6 DEF SlotInv, SlotsKeepOwner
<1>7. CASE Slot(t)
  <2>1. slot[t] = loaded /\ \A u \in Tasks : ~At(u, "mark")  BY <1>2, <1>7 DEF Slot
  <2>2. ~Copy(t) /\ ~Index(t)  BY <1>7 DEF Slot, Copy, Index, At
  <2>3. \A u \in Tasks : ~At(u, "mark")'  BY <1>3, <2>1, <2>2
  <2>4. \A p \in Profiles : table'[p].of = p  BY <1>2, <1>7, <2>1 DEF Slot, TypeOK
  <2>5. UNCHANGED <<working, loaded, saved>>  BY <1>7 DEF Slot
  <2>6. \A u \in Tasks \ {t} : slot'[u] = slot[u]  BY <1>7 DEF Slot, TypeOK
  <2>7. Slots'  BY <1>2, <1>3, <2>2, <2>3, <2>5, <2>6
  <2>. QED  BY <1>2, <2>1, <2>3, <2>4, <2>5, <2>7 DEF SlotInv, SlotsKeepOwner
<1>8. CASE ~Copy(t) /\ ~Mark(t) /\ ~Index(t) /\ ~Slot(t)
  <2>1. working'.of = working.of /\ UNCHANGED <<table, loaded, slot>>
    BY <1>8 DEF StepDone, Select, Edit, Write, Learner, Begin, Leave, FitGains, FitStop,
                TypeOK, Settings
  <2>2. saved'.table \in {saved.table, table}
    BY <1>8 DEF StepDone, Select, Edit, Write, Learner, Begin, Leave, FitGains, FitStop, TypeOK
  <2>3. \A p \in Profiles : table'[p].of = p /\ saved'.table[p].of = p
    BY <1>2, <2>1, <2>2
  <2>4. ~At(t, "mark")' /\ ~At(t, "slot")'  BY <1>3, <1>8
  <2>5. ~At(t, "mark")
    BY <1>8 DEF StepDone, Select, Edit, Write, Learner, Begin, Leave, FitGains, FitStop, At
  <2>6. /\ \A u \in Tasks : At(u, "mark")' => op'[u].p = working'.of
        /\ (\A u \in Tasks : ~At(u, "mark")') => working'.of = loaded'
    BY <1>2, <1>3, <2>1, <2>4, <2>5
  <2>7. Slots'  BY <1>2, <1>3, <2>1, <2>4, <2>5
  <2>. QED  BY <2>3, <2>6, <2>7 DEF SlotInv, SlotsKeepOwner
<1>. QED  BY <1>4, <1>5, <1>6, <1>7, <1>8

LEMMA SlotStep == TypeInv /\ SlotInv /\ [Next]_vars => SlotInv'
<1>. SUFFICES ASSUME TypeInv, SlotInv, [Next]_vars, ~clash' PROVE SlotInv'  BY DEF SlotInv
<1>. USE DEF TypeInv
<1>. DEFINE Slots == \A p \in Profiles : table[p].of = p /\ saved.table[p].of = p
            Marks == \A u \in Tasks : At(u, "mark") => op[u].p = working.of
            Loads == (\A u \in Tasks : ~At(u, "mark")) => working.of = loaded
            Saves == \A u \in Tasks : At(u, "slot") => slot[u] = loaded
                                                     /\ \A w \in Tasks : ~At(w, "mark")
<1>1. ~clash => Slots /\ Marks /\ Loads /\ Saves  BY DEF SlotInv, SlotsKeepOwner
<1>2. Slots' /\ Marks' /\ Loads' /\ Saves' => SlotInv'  BY DEF SlotInv, SlotsKeepOwner
<1>3. ASSUME NEW t \in Tasks, Enter(t) \/ Record(t) PROVE SlotInv'
  <2>1. ~clash /\ UNCHANGED <<table, saved, working, loaded, slot>>
    <3>1. CASE Enter(t)  BY <3>1 DEF Enter
    <3>2. CASE Record(t)  BY <3>2 DEF Record
    <3>. QED  BY <1>3, <3>1, <3>2
  <2>2. \A u \in Tasks \ {t} : op'[u] = op[u]  BY <1>3, EnterOps, RecordOps DEF TypeOK
  <2>3. ~At(t, "mark")  BY <1>3 DEF Enter, Record, At
  <2>4. ~At(t, "mark")' /\ ~At(t, "slot")'  BY <1>3, EnterOps, RecordOps DEF At, TypeOK
  <2>5. \A u \in Tasks : At(u, "mark")' <=> At(u, "mark")  BY <2>2, <2>3, <2>4 DEF At
  <2>6. \A u \in Tasks : At(u, "mark")' => op'[u] = op[u]  BY <2>2, <2>4
  <2>7. \A u \in Tasks : At(u, "slot")' => At(u, "slot")  BY <2>2, <2>4 DEF At
  <2>. QED  BY <1>1, <1>2, <2>1, <2>5, <2>6, <2>7
<1>4. CASE Request
  <2>1. PICK t \in Tasks : Asked(t)  BY <1>4, RequestAsks
  <2>2. ~clash /\ UNCHANGED <<table, saved, working, loaded, slot>>  BY <2>1 DEF Asked
  <2>3. \A u \in Tasks \ {t} : op'[u] = op[u]  BY <2>1 DEF Asked
  <2>4. ~At(t, "mark")  BY <2>1 DEF Asked, At
  <2>5. ~At(t, "mark")' /\ ~At(t, "slot")'  BY <1>4, <2>1, RequestAsks, AskedNot DEF Followers
  <2>6. \A u \in Tasks : At(u, "mark")' <=> At(u, "mark")  BY <2>3, <2>4, <2>5 DEF At
  <2>7. \A u \in Tasks : At(u, "mark")' => op'[u] = op[u]  BY <2>3, <2>5
  <2>8. \A u \in Tasks : At(u, "slot")' => At(u, "slot")  BY <2>3, <2>5 DEF At
  <2>. QED  BY <1>1, <1>2, <2>2, <2>6, <2>7, <2>8
<1>5. CASE Restart
  <2>1. ~clash  BY <1>5 DEF Restart
  <2>2. \A u \in Tasks : ~At(u, "mark")' /\ ~At(u, "slot")'  BY <1>5, RestartOps DEF At
  <2>3. Slots'  BY <1>1, <1>5, <2>1 DEF Restart
  <2>4. working'.of = loaded'  BY <1>1, <1>5, <2>1 DEF Restart, TypeOK
  <2>. QED  BY <1>2, <2>2, <2>3, <2>4
<1>6. CASE UNCHANGED vars  BY <1>1, <1>2, <1>6 DEF vars, At
<1>7. ASSUME NEW t \in Tasks, StepDone(t) PROVE SlotInv'  BY <1>7, SlotStepDone
<1>. QED  BY <1>3, <1>4, <1>5, <1>6, <1>7, StepCases DEF Next

\* For any profiles and thresholds, and however the steps of both tasks interleave: the
\* settings of a profile stay in its slot of the table and of the EEPROM, unless a load ran
\* into a load or a save of the other task (charge_mode_config_save writes the working copy
\* to the slot it came from, not to that of the selected profile).
THEOREM SlotsKept == Spec => []SlotsKeepOwner
<1>1. Spec => [](TypeInv /\ SlotInv)
  BY TypeInit, TypeStep, SlotInit, SlotStep, PTL DEF Spec
<1>2. SlotInv => SlotsKeepOwner  BY DEF SlotInv, SlotsKeepOwner
<1>. QED  BY <1>1, <1>2, PTL

-----------------------------------------------------------------------------
(* The settings a charge begins with. *)

Loading == <<"copy", "mark", "begin", "record">>
Loaded == <<"mark", "begin", "record">>
Beginning == <<"begin", "record">>
Over == <<"learners", "leave">>
CalmScripts == {Loading, Loaded, Beginning, <<"record">>, Over, <<"leave">>}

\* While a charge is calm, no request runs, and the menu task is in the charge; what is
\* loaded last, before it begins, is the selected profile.
CalmInv ==
  charge.calm =>
    /\ Quiet
    /\ op["menu"].steps \in CalmScripts
    /\ ~clash =>
         /\ op["menu"].steps = Loading => op["menu"].p = selected
         /\ op["menu"].steps = Loaded => op["menu"].p = selected /\ working.of = selected
         /\ op["menu"].steps = Beginning => working.of = selected
         /\ charge.of = charge.p

\* What is left of a charge after its first step.
LEMMA CalmTails ==
  /\ Tail(Loading) = Loaded /\ Head(Loading) = "copy"
  /\ Tail(Loaded) = Beginning /\ Head(Loaded) = "mark"
  /\ Tail(Beginning) = <<"record">> /\ Head(Beginning) = "begin"
  /\ Tail(Over) = <<"leave">> /\ Head(Over) = "learners"
  /\ Head(<<"record">>) = "record" /\ Head(<<"leave">>) = "leave"
BY DEF Loading, Loaded, Beginning, Over

\* The lists of a charge are told apart.
LEMMA CalmDiffer ==
  /\ Loading # Loaded /\ Loading # Beginning /\ Loaded # Beginning
  /\ \A s \in {<<"record">>, Over, <<"leave">>} :
       s \notin {Loading, Loaded, Beginning}
BY DEF Loading, Loaded, Beginning, Over

\* A step of a calm charge leads from one of its lists to the next.
LEMMA CalmStepDone ==
  ASSUME TypeInv, SlotInv, CalmInv, NEW t \in Tasks, StepDone(t) PROVE CalmInv'
<1>. SUFFICES ASSUME charge'.calm PROVE CalmInv'  BY DEF CalmInv
<1>. USE DEF TypeInv
<1>1. charge.calm
  BY DEF StepDone, Select, Copy, Mark, Edit, Index, Slot, Write, Learner, Begin, Leave,
        FitGains,
         FitStop, Nobody
<1>2. Quiet /\ op["menu"].steps \in CalmScripts  BY <1>1 DEF CalmInv
<1>3. op[t].steps # <<>> /\ Done(t) /\ \A u \in Tasks \ {t} : op'[u] = op[u]
  BY StepDoneOps
<1>4. t = "menu"  BY <1>2, <1>3 DEF Quiet, Tasks
<1>5. Quiet'  BY <1>2, <1>3, <1>4 DEF Quiet, Tasks
<1>6. /\ op'["menu"].steps = Tail(op["menu"].steps)
      /\ op'["menu"].steps # <<>> => op'["menu"].p = op["menu"].p
  BY <1>3, <1>4, DoneOps
<1>7. CASE op["menu"].steps = Loading
  <2>1. Copy("menu")
    <3>1. At("menu", "copy")  BY <1>3, <1>4, <1>7, CalmTails DEF At
    <3>. QED
      BY <1>4, <3>1 DEF StepDone, Select, Mark, Edit, Index, Slot, Write, Learner, Begin, Leave,
                        FitGains, FitStop, At
  <2>2. op'["menu"].steps = Loaded /\ op'["menu"].p = op["menu"].p
    BY <1>6, <1>7, CalmTails DEF Loaded
  <2>3. UNCHANGED <<selected, charge>>  BY <2>1 DEF Copy
  <2>4. ASSUME ~clash' PROVE op'["menu"].p = selected' /\ working'.of = selected'
    <3>1. ~clash  BY <2>1, <2>4 DEF Copy
    <3>2. op["menu"].p = selected  BY <1>1, <1>7, <3>1 DEF CalmInv
    <3>3. table[selected].of = selected
      BY <3>1 DEF SlotInv, SlotsKeepOwner, TypeOK
    <3>. QED  BY <2>1, <2>2, <2>3, <3>2, <3>3 DEF Copy
  <2>5. ~clash' => charge'.of = charge'.p
    <3>1. ~clash' => ~clash  BY <2>1 DEF Copy
    <3>. QED  BY <1>1, <2>3, <3>1 DEF CalmInv
  <2>. QED  BY <1>5, <2>2, <2>4, <2>5, CalmDiffer DEF CalmInv, CalmScripts
<1>8. CASE op["menu"].steps = Loaded
  <2>1. Mark("menu")
    <3>1. At("menu", "mark")  BY <1>3, <1>4, <1>8, CalmTails DEF At
    <3>. QED
      BY <1>4, <3>1 DEF StepDone, Select, Copy, Edit, Index, Slot, Write, Learner, Begin, Leave,
                        FitGains, FitStop, At
  <2>2. op'["menu"].steps = Beginning  BY <1>6, <1>8, CalmTails
  <2>3. UNCHANGED <<selected, charge, working>> /\ (~clash' => ~clash)  BY <2>1 DEF Mark
  <2>4. ~clash' => working'.of = selected' /\ charge'.of = charge'.p
    BY <1>1, <1>8, <2>3 DEF CalmInv
  <2>. QED  BY <1>5, <2>2, <2>4, CalmDiffer DEF CalmInv, CalmScripts
<1>9. CASE op["menu"].steps = Beginning
  <2>1. Begin("menu")
    <3>1. At("menu", "begin")  BY <1>3, <1>4, <1>9, CalmTails DEF At
    <3>. QED
      BY <1>4, <3>1 DEF StepDone, Select, Copy, Mark, Edit, Index, Slot, Write, Learner, Leave,
                        FitGains, FitStop, At
  <2>2. op'["menu"].steps = <<"record">>  BY <1>6, <1>9, CalmTails
  <2>3. charge' = [p |-> selected, of |-> working.of, calm |-> charge.calm] /\ clash' = clash
    BY <2>1 DEF Begin
  <2>4. ~clash' => charge'.of = charge'.p  BY <1>1, <1>9, <2>3 DEF CalmInv
  <2>. QED  BY <1>5, <2>2, <2>4, CalmDiffer DEF CalmInv, CalmScripts
<1>10. CASE op["menu"].steps = Over
  <2>1. Write("menu")
    <3>1. At("menu", "learners")  BY <1>3, <1>4, <1>10, CalmTails DEF At
    <3>. QED
      BY <1>4, <3>1 DEF StepDone, Select, Copy, Mark, Edit, Index, Slot, Learner, Begin, Leave,
                        FitGains, FitStop, At
  <2>2. op'["menu"].steps = <<"leave">>  BY <1>6, <1>10, CalmTails
  <2>3. UNCHANGED charge /\ (~clash' => ~clash)  BY <2>1 DEF Write
  <2>4. ~clash' => charge'.of = charge'.p  BY <1>1, <2>3 DEF CalmInv
  <2>. QED  BY <1>5, <2>2, <2>4, CalmDiffer DEF CalmInv, CalmScripts
<1>11. CASE op["menu"].steps = <<"record">>
  <2>1. At("menu", "record")  BY <1>3, <1>4, <1>11, CalmTails DEF At
  <2>. QED
    BY <1>4, <2>1 DEF StepDone, Select, Copy, Mark, Edit, Index, Slot, Write, Learner, Begin,
          Leave,
                      FitGains, FitStop, At
<1>12. CASE op["menu"].steps = <<"leave">>
  <2>1. At("menu", "leave")  BY <1>3, <1>4, <1>12, CalmTails DEF At
  <2>2. Leave("menu")
    BY <1>4, <2>1 DEF StepDone, Select, Copy, Mark, Edit, Index, Slot, Write, Learner, Begin,
                      FitGains, FitStop, At
  <2>. QED  BY <2>2 DEF Leave, Nobody
<1>. QED  BY <1>2, <1>7, <1>8, <1>9, <1>10, <1>11, <1>12 DEF CalmScripts

LEMMA CalmStep == TypeInv /\ SlotInv /\ CalmInv /\ [Next]_vars => CalmInv'
<1>. SUFFICES ASSUME TypeInv, SlotInv, CalmInv, [Next]_vars, charge'.calm PROVE CalmInv'
  BY DEF CalmInv
<1>. USE DEF TypeInv
<1>1. ASSUME NEW t \in Tasks, Enter(t) PROVE CalmInv'
  <2>1. /\ t = "menu" /\ op'["tcpip"] = op["tcpip"]
        /\ op'["menu"].steps = IF selected = loaded THEN Beginning ELSE Loading
        /\ op'["menu"].p = selected /\ UNCHANGED <<selected, working>>
    <3>1. selected \in Profiles /\ UNCHANGED <<selected, working>>  BY <1>1 DEF TypeOK, Enter
    <3>. QED  BY <1>1, <3>1, EnterOps DEF Tasks, Beginning, Loading
  <2>2. charge' = [Nobody EXCEPT !.calm = Quiet] /\ (~clash' => ~clash)  BY <1>1 DEF Enter
  <2>3. Quiet /\ Quiet'  BY <2>1, <2>2 DEF Nobody, Quiet
  <2>4. ~clash' /\ selected = loaded => working'.of = selected'
    <3>1. \A u \in Tasks : ~At(u, "mark")
      <4>1. ~At("menu", "mark")  BY <1>1, <2>1 DEF Enter, At
      <4>2. ~At("tcpip", "mark")  BY <2>3 DEF Quiet, At
      <4>. QED  BY <4>1, <4>2 DEF Tasks
    <3>. QED  BY <2>1, <2>2, <3>1 DEF SlotInv
  <2>5. charge'.of = charge'.p  BY <2>2 DEF Nobody
  <2>. QED  BY <2>1, <2>3, <2>4, <2>5, CalmDiffer DEF CalmInv, CalmScripts
<1>2. ASSUME NEW t \in Tasks, Record(t) PROVE CalmInv'
  <2>1. /\ t = "menu" /\ op'["tcpip"] = op["tcpip"]
        /\ op'["menu"].steps \in {Over, <<"leave">>}
    BY <1>2, RecordOps DEF Tasks, Over
  <2>2. UNCHANGED <<charge, clash>>  BY <1>2 DEF Record
  <2>3. Quiet' /\ (~clash' => charge'.of = charge'.p)  BY <2>1, <2>2 DEF CalmInv, Quiet
  <2>. QED  BY <2>1, <2>3, CalmDiffer DEF CalmInv, CalmScripts
<1>3. CASE Request
  <2>1. PICK t \in Tasks : Asked(t)  BY <1>3, RequestAsks
  <2>2. t = "menu" /\ charge' = charge
    BY <2>1 DEF Asked, Tasks, HistoryOK
  <2>3. op["menu"].steps = <<>> /\ op["menu"].steps \in CalmScripts
    BY <2>1, <2>2 DEF Asked, CalmInv
  <2>4. <<>> \notin CalmScripts  BY DEF CalmScripts, Loading, Loaded, Beginning, Over
  <2>. QED  BY <2>3, <2>4
<1>4. CASE Restart  BY <1>4 DEF Restart, Nobody
<1>5. CASE UNCHANGED vars  BY <1>5 DEF vars, CalmInv, Quiet
<1>6. ASSUME NEW t \in Tasks, StepDone(t) PROVE CalmInv'  BY <1>6, CalmStepDone
<1>. QED  BY <1>1, <1>2, <1>3, <1>4, <1>5, <1>6, StepCases DEF Next

\* For any profiles and thresholds: a charge begins with the settings of the profile that is
\* selected, if no request was under way and no load was torn since the menu selected it
\* (charge_mode_menu loads the selected profile when another one is loaded).
THEOREM ChargeUsesItsProfile == Spec => []ChargeUsesSelected
<1>1. Init => CalmInv  BY DEF Init, CalmInv, Nobody
<1>2. Spec => [](TypeInv /\ SlotInv /\ CalmInv)
  BY <1>1, TypeInit, TypeStep, SlotInit, SlotStep, CalmStep, PTL DEF Spec
<1>3. CalmInv => ChargeUsesSelected  BY DEF CalmInv, ChargeUsesSelected
<1>. QED  BY <1>2, <1>3, PTL

-----------------------------------------------------------------------------
(* What is learned is saved. *)

\* A task has a save of the learners to come.
Saves(t) == \E i \in 1..Len(op[t].steps) : op[t].steps[i] = "learners"

\* LearnedIsSaved, in terms of the saves to come.
LEMMA SavesAre ==
  ASSUME OpInv
  PROVE  LearnedIsSaved <=> ((\A t \in Tasks : ~Saves(t)) => saved.learner = learner)
<1>1. \A t \in Tasks : op[t].steps \in Seq(StepNames)  BY DEF OpInv, ScriptOK, Shape
<1>2. \A t \in Tasks : DOMAIN op[t].steps = 1..Len(op[t].steps)  BY <1>1, LenProperties
<1>. QED  BY <1>2 DEF LearnedIsSaved, Saves

\* A step taken off leaves the save of the learners to come, unless it is that save.
LEMMA SavesLeft ==
  ASSUME OpInv, NEW t \in Tasks, StepDone(t)
  PROVE  /\ Saves(t) => Saves(t)' \/ At(t, "learners")
         /\ (\E step \in LearnerSteps : At(t, step)) => Saves(t)'
<1>1. op[t].steps # <<>> /\ Done(t) /\ OpInv'  BY StepDoneOps
<1>2. PICK s : s = op[t].steps  OBVIOUS
<1>3. PICK r : r = Tail(s)  OBVIOUS
<1>4. s \in Seq(StepNames) /\ s # <<>>  BY <1>1, <1>2 DEF OpInv, ScriptOK, Shape
<1>5. /\ Len(s) \in Nat \ {0} /\ Len(r) = Len(s) - 1 /\ Head(s) = s[1]
      /\ \A i \in 1..Len(r) : r[i] = s[i + 1]
  BY <1>3, <1>4, TailOf
<1>6. op'[t].steps = r  BY <1>1, <1>2, <1>3, DoneOps
<1>7. ASSUME NEW i \in 1..Len(s), s[i] = "learners", i # 1 PROVE Saves(t)'
  <2>1. i - 1 \in 1..Len(r) /\ r[i - 1] = s[(i - 1) + 1] /\ (i - 1) + 1 = i  BY <1>5, <1>7
  <2>. QED  BY <1>6, <1>7, <2>1 DEF Saves
<1>8. ASSUME Saves(t), ~At(t, "learners") PROVE Saves(t)'
  <2>1. PICK i \in 1..Len(s) : s[i] = "learners"  BY <1>2, <1>8 DEF Saves
  <2>2. i # 1  BY <1>2, <1>4, <1>5, <1>8, <2>1 DEF At
  <2>. QED  BY <1>7, <2>1, <2>2
<1>9. ASSUME NEW step \in LearnerSteps, At(t, step) PROVE Saves(t)'
  <2>1. s[1] \in LearnerSteps  BY <1>2, <1>5, <1>9 DEF At
  <2>2. Len(s) > 1 /\ s[2] = "learners"  BY <1>1, <1>2, <2>1, Second
  <2>. QED  BY <1>5, <1>7, <2>2
<1>. QED  BY <1>8, <1>9

\* Whatever changes a learner has a save to come.
LEMMA SavedStep == TypeInv /\ LearnedIsSaved /\ [Next]_vars => LearnedIsSaved'
<1>. DEFINE S == (\A t \in Tasks : ~Saves(t)) => saved.learner = learner
<1>. SUFFICES ASSUME TypeInv, S, [Next]_vars PROVE S'
  <2>1. ASSUME TypeInv, [Next]_vars PROVE (LearnedIsSaved <=> S)'
    BY <2>1, TypeStep, SavesAre, PTL DEF TypeInv
  <2>. QED  BY <2>1, SavesAre DEF TypeInv
<1>. SUFFICES ASSUME \A t \in Tasks : ~Saves(t)' PROVE saved'.learner = learner'  OBVIOUS
<1>. USE DEF TypeInv
<1>1. ASSUME NEW t \in Tasks, StepDone(t) PROVE saved'.learner = learner'
  <2>1. CASE Learner(t)
    <3>1. \E step \in LearnerSteps : At(t, step)  BY <2>1 DEF Learner, LearnerSteps
    <3>. QED  BY <1>1, <3>1, SavesLeft
  <2>2. CASE At(t, "learners")
    <3>1. Write(t)
      BY <1>1, <2>2 DEF StepDone, Select, Copy, Mark, Edit, Index, Slot, Learner, Begin, Leave,
                        FitGains, FitStop, At
    <3>2. saved' = [saved EXCEPT !.learner = learner] /\ UNCHANGED learner
      BY <2>2, <3>1 DEF Write, At
    <3>. QED  BY <3>2 DEF TypeOK
  <2>3. CASE ~Learner(t) /\ ~At(t, "learners")
    <3>1. \A u \in Tasks : Saves(u) => Saves(u)'
      BY <1>1, <2>3, SavesLeft, StepDoneOps DEF Saves
    <3>2. UNCHANGED learner
      BY <1>1, <2>3 DEF StepDone, Select, Copy, Mark, Edit, Index, Slot, Write, Begin, Leave,
                        FitGains, FitStop
    <3>3. saved'.learner = saved.learner
      BY <1>1, <2>3 DEF StepDone, Select, Copy, Mark, Edit, Index, Slot, Write, Begin, Leave,
                        FitGains, FitStop, TypeOK
    <3>. QED  BY <3>1, <3>2, <3>3
  <2>. QED  BY <2>1, <2>2, <2>3
<1>2. ASSUME NEW t \in Tasks, Enter(t) PROVE saved'.learner = learner'
  <2>1. op[t].steps = Charging  BY <1>2, AtFirst, NextStep DEF Enter
  <2>2. ~Saves(t)  BY <2>1 DEF Saves, Charging
  <2>3. \A u \in Tasks \ {t} : Saves(u) => Saves(u)'
    BY <1>2, EnterOps DEF Saves, TypeOK
  <2>4. UNCHANGED <<saved, learner>>  BY <1>2 DEF Enter
  <2>. QED  BY <2>2, <2>3, <2>4
<1>3. ASSUME NEW t \in Tasks, Record(t) PROVE saved'.learner = learner'
  <2>1. CASE op'[t].steps = <<"learners", "leave">>
    <3>1. Saves(t)'  BY <2>1 DEF Saves
    <3>. QED  BY <3>1
  <2>2. CASE op'[t].steps = <<"leave">> /\ UNCHANGED learner
    <3>1. ~Saves(t)
      <4>1. op[t].steps[1] = "record" /\ Len(op[t].steps) = 1
        BY <1>3, AtFirst, NextStep DEF Record
      <4>. QED  BY <4>1 DEF Saves
    <3>2. \A u \in Tasks \ {t} : Saves(u) => Saves(u)'  BY <1>3, RecordOps DEF Saves
    <3>3. UNCHANGED saved  BY <1>3 DEF Record
    <3>. QED  BY <2>2, <3>1, <3>2, <3>3
  <2>. QED  BY <1>3, <2>1, <2>2, RecordOps
<1>4. CASE Request
  <2>1. PICK t \in Tasks : Asked(t)  BY <1>4, RequestAsks
  <2>2. ~Saves(t)
    <3>1. op[t].steps = <<>> /\ Len(<<>>) = 0  BY <2>1 DEF Asked
    <3>. QED  BY <3>1 DEF Saves
  <2>3. \A u \in Tasks \ {t} : Saves(u) => Saves(u)'  BY <2>1 DEF Asked, Saves
  <2>4. UNCHANGED <<saved, learner>>  BY <2>1 DEF Asked
  <2>. QED  BY <2>2, <2>3, <2>4
<1>5. CASE Restart  BY <1>5 DEF Restart
<1>6. CASE UNCHANGED vars  BY <1>6 DEF vars, Saves
<1>. QED  BY <1>1, <1>2, <1>3, <1>4, <1>5, <1>6, StepCases DEF Next

\* For any profiles and thresholds: when no save of the learners is to come, the EEPROM has
\* what the learners have, however charges, switches, resets and restarts interleave
\* (learn_from_throws_record saves what it learned straight away).
THEOREM LearnedSaved == Spec => []LearnedIsSaved
<1>1. Init => LearnedIsSaved  BY DEF Init, LearnedIsSaved
<1>. QED  BY <1>1, TypeInit, TypeStep, SavedStep, PTL DEF Spec

-----------------------------------------------------------------------------
(* Switching learning on. *)

\* For any profiles and thresholds: switching learning on for a profile that has learned
\* nothing yet leaves what its next charge stops at as it was, if the learner can take it
\* (ltl_seed reads the working copy of a loaded profile, the table for another one).
THEOREM SwitchOnKeeps == Spec => SwitchOnKeepsStop
<1>. DEFINE K == \A p \in Profiles :
       (At("tcpip", "on") /\ At("tcpip", "learners")' /\ ~learner[p].on /\ learner'[p].on
          /\ ~learner[p].charged /\ SetTo(p) \notin Wide)
         => StopsAt(p)' = StopsAt(p)
<1>1. TypeInv /\ [Next]_vars => [K]_vars
  <2>. SUFFICES ASSUME TypeInv, Next,
                       NEW p \in Profiles, At("tcpip", "on"), At("tcpip", "learners")',
                       ~learner[p].on, learner'[p].on, ~learner[p].charged,
                       SetTo(p) \notin Wide
                PROVE  StopsAt(p)' = StopsAt(p)
    OBVIOUS
  <2>. USE DEF TypeInv
  <2>1. ASSUME NEW t \in Tasks, Learner(t) PROVE StopsAt(p)' = StopsAt(p)
    <3>1. PICK step \in {"reset", "on", "off"} :
          /\ At(t, step)
          /\ LET q == op[t].p
                 first == step = "on" /\ ~learner[q].on /\ ~learner[q].charged
                 l == IF step = "reset" \/ first THEN Seed(q) ELSE learner[q] IN
             learner' = [learner EXCEPT ![q] =
                           [l EXCEPT !.on = IF step = "reset" THEN l.on ELSE step = "on"]]
      BY <2>1 DEF Learner
    <3>2. op[t].p = p
      BY <3>1 DEF TypeOK
    <3>3. Seed(p) \in Learners /\ learner \in [Profiles -> Learners]  BY SeedType DEF TypeOK
    <3>4. Seed(p).on = learner[p].on /\ Seed(p).stop = SetTo(p)
      BY <3>3 DEF Seed, Clamped, Learners
    <3>5. step = "on"
      BY <3>1, <3>2, <3>3, <3>4 DEF Learners
    <3>6. learner'[p].stop = SetTo(p)
      BY <3>1, <3>2, <3>3, <3>4, <3>5 DEF Learners
    <3>. QED  BY <3>6 DEF StopsAt
  <2>2. UNCHANGED learner \/ \E t \in Tasks : Learner(t)
    <3>1. ASSUME NEW t \in Tasks, Step(t)
          PROVE  UNCHANGED learner \/ Learner(t)
      <4>1. ~Record(t)
        <5>1. ASSUME Record(t) PROVE FALSE
          <6>1. op'["tcpip"] = op["tcpip"]  BY <5>1, RecordOps DEF Tasks
          <6>2. At("tcpip", "learners")  BY <6>1 DEF At
          <6>. QED  BY <6>2 DEF At
        <5>. QED  BY <5>1
      <4>. QED
        BY <3>1, <4>1 DEF Step, Select, Copy, Mark, Edit, Index, Slot, Write, Enter, Begin,
              Leave,
                          FitGains, FitStop
    <3>2. CASE Request
      <4>1. \E t \in Tasks : Asked(t)  BY <3>2, RequestAsks
      <4>. QED  BY <4>1 DEF Asked
    <3>3. ~Restart
      <4>1. Restart => ~At("tcpip", "learners")'  BY RestartOps DEF At, Tasks
      <4>. QED  BY <4>1
    <3>. QED  BY <3>1, <3>2, <3>3 DEF Next
  <2>. QED  BY <2>1, <2>2
<1>2. Spec => []TypeInv  BY TypeInit, TypeStep, PTL DEF Spec
<1>3. SwitchOnKeepsStop <=> [][K]_vars  BY DEF SwitchOnKeepsStop
<1>. QED  BY <1>1, <1>2, <1>3, PTL DEF Spec

=============================================================================

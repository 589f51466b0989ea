---------------------------- MODULE HttpServerProofs ----------------------------
(***************************************************************************)
(* Theorems about HttpServer, for any number of connections, endpoints that *)
(* share buffers in any way, and answers of any length.                      *)
(***************************************************************************)
EXTENDS HttpServer, SequenceTheorems, TLAPS

Pieces == Nat \X Nat

TypeInv ==
  /\ pcb \in [Conns -> {"none", "open", "closing", "retry"}]
  /\ hs \in [Conns -> States \union {None}]
  /\ content \in [Buffers -> Nat]
  /\ sent \in [Conns -> Seq(Pieces)]
  /\ acked \in [Conns -> Nat]
  /\ runs \in Nat
  /\ answer \in [Conns -> Answers \union {None}]
  /\ handled \in [Conns -> Nat]
  /\ ended \in [Conns -> {"no", "eof", "cut"}]
  /\ overrun \in [Conns -> BOOLEAN]

\* Nobody writes a page.
FlashInv == \A b \in Flash : content[b] = 0

\* The part of AnswerIsWhole about one connection, and that it acts on one request.
Whole(c) ==
  /\ sent[c] # <<>> => answer[c] # None
  /\ \A i \in DOMAIN sent[c] :
       /\ sent[c][i][2] = i
       /\ ~overrun[c] => sent[c][i][1] = answer[c].run
  /\ ended[c] = "eof" => answer[c] # None /\ Len(sent[c]) = answer[c].length
  /\ handled[c] <= 1

\* A connection that waits for its request.
Waiting(c) == answer[c] = None /\ sent[c] = <<>> /\ handled[c] = 0

\* A connection whose answer is under way: what lies in its buffer is the rest of it.
Answering(c) ==
  /\ answer[c] # None
  /\ hs[c].pos = Len(sent[c])
  /\ hs[c].pos + hs[c].left = answer[c].length
  /\ ~overrun[c] => content[hs[c].buffer] = answer[c].run

ConnInv(c) ==
  /\ Whole(c)
  /\ hs[c] # None => /\ ended[c] = "no"
                     /\ IF hs[c].buffer = None THEN Waiting(c) ELSE Answering(c)

IInv == TypeInv /\ FlashInv /\ \A c \in Conns : ConnInv(c)

-----------------------------------------------------------------------------
(* What http_write appends. *)

Added(s, n, a) == s \o [i \in 1..n |-> <<a, Len(s) + i>>]

LEMMA Appended ==
  ASSUME NEW s \in Seq(Pieces), NEW n \in Nat, NEW a \in Nat
  PROVE  /\ Added(s, n, a) \in Seq(Pieces)
         /\ Len(Added(s, n, a)) = Len(s) + n
         /\ \A i \in DOMAIN Added(s, n, a) :
              /\ i <= Len(s) => Added(s, n, a)[i] = s[i]
              /\ ~(i <= Len(s)) => Added(s, n, a)[i] = <<a, i>>
<1>1. Len(s) \in Nat /\ DOMAIN s = 1..Len(s)
  BY LenProperties
<1>2. PICK t : t = [i \in 1..n |-> <<a, Len(s) + i>>]
  OBVIOUS
<1>3. t \in Seq(Pieces) /\ Len(t) = n
  <2>1. \A i \in 1..n : <<a, Len(s) + i>> \in Pieces
    BY <1>1 DEF Pieces
  <2>2. t \in Seq(Pieces) /\ DOMAIN t = 1..n
    <3>1. t \in [1..n -> Pieces]
      BY <1>2, <2>1
    <3> QED
      BY <3>1
  <2>3. \A m \in Nat : 1..m = 1..n => m = n
    <3> SUFFICES ASSUME NEW m \in Nat, 1..m = 1..n
                 PROVE  m <= n /\ n <= m
      OBVIOUS
    <3>1. (m = 0 \/ m \in 1..n) /\ (n = 0 \/ n \in 1..m)
      OBVIOUS
    <3> QED
      BY <3>1
  <2> QED
    BY <2>2, <2>3, LenProperties
<1>4. PICK r : r = s \o t
  OBVIOUS
<1>5. /\ r \in Seq(Pieces)
      /\ Len(r) = Len(s) + n
      /\ \A i \in 1..Len(s) + n : r[i] = IF i <= Len(s) THEN s[i] ELSE t[i - Len(s)]
  BY <1>3, <1>4, ConcatProperties
<1>6. DOMAIN r = 1..Len(s) + n
  BY <1>5, LenProperties
<1>7. ASSUME NEW i \in 1..Len(s) + n, ~(i <= Len(s))
      PROVE  t[i - Len(s)] = <<a, i>>
  <2>1. i - Len(s) \in 1..n /\ Len(s) + (i - Len(s)) = i
    BY <1>1, <1>7
  <2> QED
    BY <1>2, <2>1
<1>8. \A i \in DOMAIN r :
        /\ i <= Len(s) => r[i] = s[i]
        /\ ~(i <= Len(s)) => r[i] = <<a, i>>
  BY <1>5, <1>6, <1>7
<1>9. r = Added(s, n, a)
  BY <1>2, <1>4 DEF Added
<1> QED
  BY <1>5, <1>8, <1>9

\* http_send takes a connection from an answer under way to one that is under way or
\* whole.  h is http_state as the caller of http_send leaves it.
LEMMA SendKeeps ==
  ASSUME TypeInv, NEW c \in Conns, NEW h \in States, NEW source \in [Buffers -> Nat],
         h.buffer \in Buffers, h.pos = Len(sent[c]),
         answer'[c] \in Answers, h.pos + h.left = answer'[c].length,
         \A i \in DOMAIN sent[c] :
           /\ sent[c][i][2] = i
           /\ ~overrun'[c] => sent[c][i][1] = answer'[c].run,
         ~overrun'[c] => source[h.buffer] = answer'[c].run,
         content' = source, handled'[c] <= 1, ended[c] = "no",
         HttpSend(c, h, source)
  PROVE  /\ ConnInv(c)'
         /\ pcb' \in [Conns -> {"none", "open", "closing", "retry"}]
         /\ hs' \in [Conns -> States \union {None}]
         /\ sent' \in [Conns -> Seq(Pieces)]
         /\ ended' \in [Conns -> {"no", "eof", "cut"}]
         /\ \A d \in Conns \ {c} : hs'[d] = hs[d] /\ sent'[d] = sent[d] /\ ended'[d] = ended[d]
<1> USE NamesAssumption
<1>1. PICK n \in 0..h.left :
        /\ sent' = [sent EXCEPT ![c] = @ \o [i \in 1..n |-> <<source[h.buffer], h.pos + i>>]]
        /\ IF n = h.left
           THEN CloseConn(c, "eof")
           ELSE /\ hs' = [hs EXCEPT ![c] = [h EXCEPT !.pos = @ + n, !.left = @ - n]]
                /\ UNCHANGED <<pcb, ended>>
  BY DEF HttpSend
<1>2. PICK a \in Nat : a = source[h.buffer]
  OBVIOUS
<1>3. PICK s \in Seq(Pieces) : s = sent[c]
  BY DEF TypeInv
<1>5. n \in Nat /\ h.left \in Nat /\ h.pos \in Nat /\ n <= h.left
  BY DEF States
<1>4. PICK r : r = Added(s, n, a)
  OBVIOUS
<1>6. /\ r \in Seq(Pieces)
      /\ Len(r) = Len(s) + n
      /\ \A i \in DOMAIN r :
           /\ i <= Len(s) => r[i] = s[i]
           /\ ~(i <= Len(s)) => r[i] = <<a, i>>
  <2>1. n \in Nat /\ a \in Nat /\ s \in Seq(Pieces)
    BY <1>5
  <2>2. Added(s, n, a) \in Seq(Pieces)
    BY <2>1, Appended
  <2>3. Len(Added(s, n, a)) = Len(s) + n
    BY <2>1, Appended
  <2>4. \A i \in DOMAIN Added(s, n, a) :
           /\ i <= Len(s) => Added(s, n, a)[i] = s[i]
           /\ ~(i <= Len(s)) => Added(s, n, a)[i] = <<a, i>>
    BY <2>1, Appended
  <2> QED
    BY <1>4, <2>2, <2>3, <2>4
<1>7. sent' = [sent EXCEPT ![c] = r]
  BY <1>1, <1>2, <1>3, <1>4 DEF Added
<1>8. sent' \in [Conns -> Seq(Pieces)] /\ sent'[c] = r /\ \A d \in Conns \ {c} : sent'[d] = sent[d]
  BY <1>6, <1>7 DEF TypeInv
<1>9. \A i \in DOMAIN r :
        /\ r[i][2] = i
        /\ ~overrun'[c] => r[i][1] = answer'[c].run
  <2> SUFFICES ASSUME NEW i \in DOMAIN r
               PROVE  /\ r[i][2] = i
                      /\ ~overrun'[c] => r[i][1] = answer'[c].run
    OBVIOUS
  <2>1. DOMAIN r = 1..Len(r) /\ DOMAIN s = 1..Len(s) /\ Len(s) \in Nat
    BY <1>3, <1>6, LenProperties
  <2>2. CASE i <= Len(s)
    <3>1. i \in DOMAIN s /\ r[i] = s[i]
      BY <1>5, <1>6, <2>1, <2>2
    <3> QED
      BY <1>3, <3>1
  <2>3. CASE ~(i <= Len(s))
    <3>1. r[i] = <<a, i>>
      BY <1>6, <2>3
    <3> QED
      BY <1>2, <3>1
  <2> QED
    BY <2>2, <2>3
<1>10. answer'[c] # None
  OBVIOUS
<1>11. CASE n = h.left
  <2>1. PICK p \in {"closing", "retry"} : pcb' = [pcb EXCEPT ![c] = p]
    BY <1>1, <1>11 DEF CloseConn
  <2>2. hs' = [hs EXCEPT ![c] = None] /\ ended' = [ended EXCEPT ![c] = "eof"]
    BY <1>1, <1>11 DEF CloseConn
  <2>3. /\ hs' \in [Conns -> States \union {None}] /\ hs'[c] = None
        /\ ended' \in [Conns -> {"no", "eof", "cut"}]
        /\ pcb' \in [Conns -> {"none", "open", "closing", "retry"}]
        /\ \A d \in Conns \ {c} : hs'[d] = hs[d] /\ ended'[d] = ended[d]
    BY <2>1, <2>2 DEF TypeInv
  <2>4. Len(r) = answer'[c].length
    BY <1>3, <1>6, <1>11
  <2>5. Whole(c)'
    BY <1>8, <1>9, <1>10, <2>4 DEF Whole
  <2> QED
    BY <1>8, <2>3, <2>5 DEF ConnInv
<1>12. CASE n # h.left
  <2>0. PICK g : g = [h EXCEPT !.pos = @ + n, !.left = @ - n]
    OBVIOUS
  <2>1. g \in States /\ g.buffer = h.buffer /\ g.pos = h.pos + n /\ g.left = h.left - n
    <3>1. h.left - n \in Nat /\ h.pos + n \in Nat
      BY <1>5
    <3> QED
      BY <2>0, <3>1 DEF States
  <2>2. hs' = [hs EXCEPT ![c] = g] /\ pcb' = pcb /\ ended' = ended
    BY <1>1, <1>12, <2>0
  <2>3. /\ hs' \in [Conns -> States \union {None}] /\ hs'[c] = g
        /\ ended' \in [Conns -> {"no", "eof", "cut"}]
        /\ pcb' \in [Conns -> {"none", "open", "closing", "retry"}]
        /\ \A d \in Conns \ {c} : hs'[d] = hs[d] /\ ended'[d] = ended[d]
    BY <2>1, <2>2 DEF TypeInv
  <2>4. ended'[c] = "no"
    BY <2>2
  <2>5. Whole(c)'
    BY <1>8, <1>9, <1>10, <2>4 DEF Whole
  <2>6. Answering(c)'
    <3>1. g.pos = Len(r)
      BY <1>3, <1>6, <2>1
    <3>2. g.pos + g.left = answer'[c].length
      BY <1>5, <2>1
    <3>3. ~overrun'[c] => content'[g.buffer] = answer'[c].run
      BY <2>1
    <3> QED
      BY <1>8, <1>10, <2>3, <3>1, <3>2, <3>3 DEF Answering
  <2>7. hs'[c] # None /\ hs'[c].buffer # None
    BY <2>1, <2>3
  <2>8. ConnInv(c)'
    BY <2>4, <2>5, <2>6, <2>7 DEF ConnInv
  <2> QED
    BY <1>8, <2>3, <2>8
<1> QED
  BY <1>11, <1>12

-----------------------------------------------------------------------------
(* The invariant. *)

LEMMA InitInv == Init => IInv
<1> SUFFICES ASSUME Init PROVE IInv
  OBVIOUS
<1> USE NamesAssumption
<1>1. Fresh \in States /\ Fresh.buffer = None
  BY DEF Fresh, States
<1>2. TypeInv
  BY <1>1, EmptySeq DEF Init, TypeInv
<1>3. FlashInv
  BY SizesAssumption DEF Init, FlashInv
<1>4. ASSUME NEW c \in Conns
      PROVE  ConnInv(c)
  BY EmptySeq DEF Init, ConnInv, Whole
<1> QED
  BY <1>2, <1>3, <1>4 DEF IInv

\* What a connection keeps when nothing of it is touched.
LEMMA Untouched ==
  ASSUME NEW c \in Conns, ConnInv(c),
         hs'[c] = hs[c], sent'[c] = sent[c], answer'[c] = answer[c],
         handled'[c] = handled[c], ended'[c] = ended[c],
         overrun[c] => overrun'[c],
         hs[c] # None /\ hs[c].buffer # None /\ ~overrun'[c]
           => content'[hs[c].buffer] = content[hs[c].buffer]
  PROVE  ConnInv(c)'
<1>1. Whole(c)'
  BY DEF ConnInv, Whole
<1>2. hs[c] # None /\ hs[c].buffer = None => Waiting(c)'
  BY DEF ConnInv, Waiting
<1>3. hs[c] # None /\ hs[c].buffer # None => Answering(c)'
  BY DEF ConnInv, Answering
<1> QED
  BY <1>1, <1>2, <1>3 DEF ConnInv

\* A connection that was ended before its time.
LEMMA CutKeeps ==
  ASSUME TypeInv, NEW c \in Conns, ConnInv(c), hs'[c] = None,
         sent'[c] = sent[c], answer'[c] = answer[c], handled'[c] = handled[c],
         ended'[c] \in {"cut", ended[c]}, overrun'[c] = overrun[c]
  PROVE  ConnInv(c)'
BY DEF ConnInv, Whole

-----------------------------------------------------------------------------
(* The actions. *)

LEMMA AcceptKeeps ==
  ASSUME IInv, NEW c \in Conns, Accept(c)
  PROVE  IInv'
<1> USE NamesAssumption DEF IInv
<1>1. Fresh \in States /\ Fresh.buffer = None
  BY DEF Fresh, States
<1>2. TypeInv'
  BY <1>1, EmptySeq DEF Accept, TypeInv
<1>3. FlashInv'
  BY DEF Accept, FlashInv
<1>4. ConnInv(c)'
  <2>1. /\ hs'[c] = Fresh /\ sent'[c] = <<>> /\ answer'[c] = None
        /\ handled'[c] = 0 /\ ended'[c] = "no"
    BY DEF Accept, TypeInv
  <2> QED
    BY <1>1, <2>1, EmptySeq DEF ConnInv, Whole, Waiting
<1>5. ASSUME NEW d \in Conns, d # c
      PROVE  ConnInv(d)'
  <2>1. /\ hs'[d] = hs[d] /\ sent'[d] = sent[d] /\ answer'[d] = answer[d]
        /\ handled'[d] = handled[d] /\ ended'[d] = ended[d] /\ overrun'[d] = overrun[d]
        /\ content' = content
    BY <1>5 DEF Accept, TypeInv
  <2> QED
    BY <2>1, Untouched
<1> QED
  BY <1>2, <1>3, <1>4, <1>5

\* BadRequest, ClientCloses, Fails and the last poll: http_state goes, the rest stays.
LEMMA CutsKeep ==
  ASSUME IInv, NEW c \in Conns,
         hs' = [hs EXCEPT ![c] = None],
         pcb' \in [Conns -> {"none", "open", "closing", "retry"}],
         \E how \in {"cut", ended[c]} : ended' = [ended EXCEPT ![c] = how],
         UNCHANGED <<content, sent, acked, runs, answer, handled, overrun>>
  PROVE  IInv'
<1> USE NamesAssumption DEF IInv
<1>1. TypeInv'
  BY DEF TypeInv
<1>2. FlashInv'
  BY DEF FlashInv
<1>3. ConnInv(c)'
  <2>1. hs'[c] = None /\ ended'[c] \in {"cut", ended[c]}
    BY DEF TypeInv
  <2> QED
    BY <2>1, CutKeeps
<1>4. ASSUME NEW d \in Conns, d # c
      PROVE  ConnInv(d)'
  <2>1. hs'[d] = hs[d] /\ ended'[d] = ended[d]
    BY <1>4 DEF TypeInv
  <2> QED
    BY <2>1, Untouched
<1> QED
  BY <1>1, <1>2, <1>3, <1>4

LEMMA CloseConnCuts ==
  ASSUME IInv, NEW c \in Conns, CloseConn(c, "cut"),
         UNCHANGED <<content, sent, acked, runs, answer, handled, overrun>>
  PROVE  IInv'
<1>1. pcb' \in [Conns -> {"none", "open", "closing", "retry"}]
  BY DEF CloseConn, IInv, TypeInv
<1> QED
  BY <1>1, CutsKeep DEF CloseConn

LEMMA FailsKeeps ==
  ASSUME IInv, NEW c \in Conns, Fails(c)
  PROVE  IInv'
<1>1. pcb' \in [Conns -> {"none", "open", "closing", "retry"}]
  BY DEF Fails, IInv, TypeInv
<1>2. \E how \in {"cut", ended[c]} : ended' = [ended EXCEPT ![c] = how]
  BY DEF Fails
<1> QED
  BY <1>1, <1>2, CutsKeep DEF Fails

\* A step that changes no answer and no buffer: pcb, or what http_state counts.
LEMMA CountsKeep ==
  ASSUME IInv, NEW c \in Conns,
         pcb' \in [Conns -> {"none", "open", "closing", "retry"}],
         hs' = hs \/ \E h \in States : /\ hs[c] # None /\ hs' = [hs EXCEPT ![c] = h]
                                       /\ h.buffer = hs[c].buffer
                                       /\ h.pos = hs[c].pos /\ h.left = hs[c].left,
         acked' \in [Conns -> Nat],
         UNCHANGED <<content, sent, runs, history>>
  PROVE  IInv'
<1> USE NamesAssumption DEF IInv, history
<1>1. TypeInv'
  BY DEF TypeInv
<1>2. FlashInv'
  BY DEF FlashInv
<1>3. ASSUME NEW d \in Conns
      PROVE  ConnInv(d)'
  <2>1. CASE hs'[d] = hs[d]
    BY <2>1, Untouched
  <2>2. CASE hs'[d] # hs[d]
    <3>1. /\ hs[d] # None /\ hs'[d] # None /\ hs'[d].buffer = hs[d].buffer
          /\ hs'[d].pos = hs[d].pos /\ hs'[d].left = hs[d].left
      BY <2>2 DEF TypeInv
    <3> QED
      BY <3>1 DEF ConnInv, Whole, Waiting, Answering
  <2> QED
    BY <2>1, <2>2
<1> QED
  BY <1>1, <1>2, <1>3

LEMMA RequestPartKeeps ==
  ASSUME IInv, NEW c \in Conns, RequestPart(c)
  PROVE  IInv'
<1>1. PICK h : h = [hs[c] EXCEPT !.request = @ + 1]
  OBVIOUS
<1>2. hs[c] \in States /\ hs[c] # None
  BY DEF RequestPart, Parsing, IInv, TypeInv
<1>3. /\ h \in States /\ h.buffer = hs[c].buffer
      /\ h.pos = hs[c].pos /\ h.left = hs[c].left
  BY <1>1, <1>2 DEF States
<1>4. hs' = [hs EXCEPT ![c] = h]
  BY <1>1 DEF RequestPart
<1>5. /\ pcb' \in [Conns -> {"none", "open", "closing", "retry"}]
      /\ acked' \in [Conns -> Nat]
  BY DEF RequestPart, IInv, TypeInv
<1> QED
  BY <1>2, <1>3, <1>4, <1>5, CountsKeep DEF RequestPart

LEMMA ClosedKeeps ==
  ASSUME IInv, NEW c \in Conns, Closed(c)
  PROVE  IInv'
<1>1. /\ pcb' \in [Conns -> {"none", "open", "closing", "retry"}]
      /\ acked' \in [Conns -> Nat]
  BY DEF Closed, IInv, TypeInv
<1> QED
  BY <1>1, CountsKeep DEF Closed

\* An answer that goes on.
LEMMA SendsKeep ==
  ASSUME IInv, NEW c \in Conns, NEW h \in States,
         hs[c] # None, hs[c].buffer # None,
         h.buffer = hs[c].buffer, h.pos = hs[c].pos, h.left = hs[c].left,
         HttpSend(c, h, content),
         acked' \in [Conns -> Nat],
         UNCHANGED <<content, runs, answer, handled, overrun>>
  PROVE  IInv'
<1> USE NamesAssumption DEF IInv
<1>1. ConnInv(c) /\ ended[c] = "no" /\ Answering(c) /\ Whole(c)
  BY DEF ConnInv
<1>2. h.buffer \in Buffers
  BY DEF States
<1>3. answer[c] \in Answers
  BY <1>1 DEF Answering, TypeInv
<1>4. content \in [Buffers -> Nat]
  BY DEF TypeInv
<1>5. /\ ConnInv(c)'
      /\ pcb' \in [Conns -> {"none", "open", "closing", "retry"}]
      /\ hs' \in [Conns -> States \union {None}]
      /\ sent' \in [Conns -> Seq(Pieces)]
      /\ ended' \in [Conns -> {"no", "eof", "cut"}]
      /\ \A d \in Conns \ {c} : hs'[d] = hs[d] /\ sent'[d] = sent[d] /\ ended'[d] = ended[d]
  <2>1. h.pos = Len(sent[c]) /\ h.pos + h.left = answer[c].length
    BY <1>1 DEF Answering
  <2>2. ~overrun[c] => content[h.buffer] = answer[c].run
    BY <1>1 DEF Answering
  <2>3. \A i \in DOMAIN sent[c] :
          /\ sent[c][i][2] = i
          /\ ~overrun[c] => sent[c][i][1] = answer[c].run
    BY <1>1 DEF Whole
  <2>4. handled[c] <= 1
    BY <1>1 DEF Whole
  <2> QED
    BY <1>1, <1>2, <1>3, <1>4, <2>1, <2>2, <2>3, <2>4, SendKeeps
<1>6. TypeInv'
  BY <1>5 DEF TypeInv
<1>7. FlashInv'
  BY DEF FlashInv
<1>8. ASSUME NEW d \in Conns, d # c
      PROVE  ConnInv(d)'
  BY <1>5, <1>8, Untouched
<1> QED
  BY <1>5, <1>6, <1>7, <1>8

LEMMA AcknowledgeKeeps ==
  ASSUME IInv, NEW c \in Conns, Acknowledge(c)
  PROVE  IInv'
<1>1. PICK n \in 1..(Len(sent[c]) - acked[c]) : acked' = [acked EXCEPT ![c] = @ + n]
  BY DEF Acknowledge
<1>2. acked[c] \in Nat /\ Len(sent[c]) \in Nat /\ acked \in [Conns -> Nat]
  BY LenProperties DEF IInv, TypeInv
<1>3. acked' \in [Conns -> Nat] /\ Len(sent[c]) # 0
  BY <1>1, <1>2
<1>4. CASE hs[c] = None
  <2>1. pcb' \in [Conns -> {"none", "open", "closing", "retry"}]
    BY <1>4 DEF Acknowledge, IInv, TypeInv
  <2> QED
    BY <1>3, <1>4, <2>1, CountsKeep DEF Acknowledge, history
<1>5. CASE hs[c] # None
  <2>1. hs[c].buffer # None
    BY <1>3, <1>5, EmptySeq DEF IInv, ConnInv, Waiting
  <2>2. hs[c] \in States
    BY <1>5 DEF IInv, TypeInv
  <2>3. PICK h : h = [hs[c] EXCEPT !.retries = 0]
    OBVIOUS
  <2>4. h \in States /\ h.buffer = hs[c].buffer /\ h.pos = hs[c].pos /\ h.left = hs[c].left
    BY <2>2, <2>3 DEF States
  <2>5. HttpSend(c, h, content) /\ UNCHANGED <<content, runs, answer, handled, overrun>>
    BY <1>5, <2>3 DEF Acknowledge
  <2> QED
    BY <1>3, <1>5, <2>1, <2>4, <2>5, SendsKeep
<1> QED
  BY <1>4, <1>5

LEMMA PollKeeps ==
  ASSUME IInv, NEW c \in Conns, Poll(c)
  PROVE  IInv'
<1>1. /\ acked' = acked /\ acked' \in [Conns -> Nat]
      /\ pcb \in [Conns -> {"none", "open", "closing", "retry"}]
  BY DEF Poll, IInv, TypeInv
<1>2. UNCHANGED <<content, runs, answer, handled, overrun>>
  BY DEF Poll
<1>3. CASE /\ \E s \in {"closing", "retry"} : pcb' = [pcb EXCEPT ![c] = s]
           /\ UNCHANGED <<hs, sent, ended>>
  <2>1. pcb' \in [Conns -> {"none", "open", "closing", "retry"}]
    BY <1>1, <1>3
  <2> QED
    BY <1>1, <1>2, <1>3, <2>1, CountsKeep DEF history
<1>4. CASE CloseConn(c, "cut") /\ UNCHANGED sent
  BY <1>1, <1>2, <1>4, CloseConnCuts
<1>5. CASE /\ hs[c] # None
           /\ LET h == [hs[c] EXCEPT !.retries = @ + 1] IN
              IF h.buffer # None THEN HttpSend(c, h, content)
              ELSE hs' = [hs EXCEPT ![c] = h] /\ UNCHANGED <<pcb, sent, ended>>
  <2>1. PICK h : h = [hs[c] EXCEPT !.retries = @ + 1]
    OBVIOUS
  <2>2. hs[c] \in States
    BY <1>5 DEF IInv, TypeInv
  <2>3. h \in States /\ h.buffer = hs[c].buffer /\ h.pos = hs[c].pos /\ h.left = hs[c].left
    BY <2>1, <2>2 DEF States
  <2>4. IF h.buffer # None THEN HttpSend(c, h, content)
        ELSE hs' = [hs EXCEPT ![c] = h] /\ UNCHANGED <<pcb, sent, ended>>
    BY <1>5, <2>1
  <2>5. CASE h.buffer # None
    BY <1>1, <1>2, <1>5, <2>3, <2>4, <2>5, SendsKeep
  <2>6. CASE h.buffer = None
    <3>1. /\ hs' = [hs EXCEPT ![c] = h] /\ UNCHANGED <<sent, ended>>
          /\ pcb' \in [Conns -> {"none", "open", "closing", "retry"}]
      BY <1>1, <2>4, <2>6
    <3> QED
      BY <1>1, <1>2, <1>5, <2>3, <3>1, CountsKeep DEF history
  <2> QED
    BY <2>5, <2>6
<1> QED
  BY <1>3, <1>4, <1>5 DEF Poll

LEMMA WholeRequestKeeps ==
  ASSUME IInv, NEW c \in Conns, WholeRequest(c)
  PROVE  IInv'
<1> USE NamesAssumption DEF IInv
<1>1. /\ hs[c] # None /\ hs[c].buffer = None /\ runs' = runs + 1 /\ acked' = acked
      /\ ConnInv(c) /\ Waiting(c) /\ ended[c] = "no"
  BY DEF WholeRequest, Parsing, ConnInv
<1>2. PICK e \in Endpoints, n \in 1..MaxLength :
        LET b == BufferOf[e]
            run == IF b \in Flash THEN 0 ELSE runs' IN
        /\ content' = [content EXCEPT ![b] = run]
        /\ overrun' = [d \in Conns |-> overrun[d] \/
                         (d # c /\ b \notin Flash /\ hs[d] # None /\ hs[d].buffer = b)]
        /\ answer' = [answer EXCEPT ![c] = [run |-> run, length |-> n]]
        /\ handled' = [handled EXCEPT ![c] = @ + 1]
        /\ acked' = acked
        /\ HttpSend(c, [Fresh EXCEPT !.buffer = b, !.left = n], content')
  BY DEF WholeRequest
<1>3. PICK b \in Buffers : b = BufferOf[e]
  BY DEF Buffers
<1>4. PICK run \in Nat : run = (IF b \in Flash THEN 0 ELSE runs')
  BY <1>1 DEF TypeInv
<1>5. PICK h : h = [Fresh EXCEPT !.buffer = b, !.left = n]
  OBVIOUS
<1>6. n \in Nat
  BY SizesAssumption
<1>7. h \in States /\ h.buffer = b /\ h.pos = 0 /\ h.left = n
  BY <1>3, <1>5, <1>6 DEF Fresh, States
<1>8. /\ content' = [content EXCEPT ![b] = run]
      /\ overrun' = [d \in Conns |-> overrun[d] \/
                         (d # c /\ b \notin Flash /\ hs[d] # None /\ hs[d].buffer = b)]
      /\ answer' = [answer EXCEPT ![c] = [run |-> run, length |-> n]]
      /\ handled' = [handled EXCEPT ![c] = @ + 1]
      /\ HttpSend(c, h, content')
  BY <1>2, <1>3, <1>4, <1>5
<1>9. PICK source \in [Buffers -> Nat] : source = content'
  BY <1>8 DEF TypeInv
<1>10. /\ [run |-> run, length |-> n] \in Answers
       /\ answer'[c] = [run |-> run, length |-> n]
       /\ answer'[c].run = run /\ answer'[c].length = n
       /\ source[b] = run /\ handled'[c] = 1
       /\ sent[c] = <<>> /\ Len(sent[c]) = 0 /\ DOMAIN sent[c] = {}
  BY <1>1, <1>6, <1>8, <1>9, EmptySeq DEF Answers, TypeInv, Waiting
<1>11. /\ ConnInv(c)'
       /\ pcb' \in [Conns -> {"none", "open", "closing", "retry"}]
       /\ hs' \in [Conns -> States \union {None}]
       /\ sent' \in [Conns -> Seq(Pieces)]
       /\ ended' \in [Conns -> {"no", "eof", "cut"}]
       /\ \A d \in Conns \ {c} : hs'[d] = hs[d] /\ sent'[d] = sent[d] /\ ended'[d] = ended[d]
  <2>1. h.pos + h.left = answer'[c].length /\ h.pos = Len(sent[c]) /\ h.buffer \in Buffers
    BY <1>6, <1>7, <1>10
  <2>2. answer'[c] \in Answers /\ source[h.buffer] = answer'[c].run /\ handled'[c] <= 1
    BY <1>7, <1>10
  <2>3. HttpSend(c, h, source)
    BY <1>8, <1>9
  <2> QED
    BY <1>1, <1>7, <1>9, <1>10, <2>1, <2>2, <2>3, SendKeeps
<1>12. TypeInv'
  <2>1. /\ content' \in [Buffers -> Nat] /\ acked' \in [Conns -> Nat] /\ runs' \in Nat
        /\ answer' \in [Conns -> Answers \union {None}] /\ handled' \in [Conns -> Nat]
        /\ overrun' \in [Conns -> BOOLEAN]
    BY <1>1, <1>8, <1>10 DEF TypeInv
  <2> QED
    BY <1>11, <2>1 DEF TypeInv
<1>13. FlashInv'
  BY <1>4, <1>8, SizesAssumption DEF FlashInv, TypeInv
<1>14. ASSUME NEW d \in Conns, d # c
       PROVE  ConnInv(d)'
  <2>1. /\ hs'[d] = hs[d] /\ sent'[d] = sent[d] /\ ended'[d] = ended[d]
        /\ answer'[d] = answer[d] /\ handled'[d] = handled[d]
        /\ overrun[d] => overrun'[d]
    BY <1>8, <1>11, <1>14 DEF TypeInv
  <2>2. ASSUME hs[d] # None, hs[d].buffer # None, ~overrun'[d]
        PROVE  content'[hs[d].buffer] = content[hs[d].buffer]
    <3>1. hs[d].buffer # b \/ b \in Flash
      BY <1>8, <1>14, <2>2
    <3>2. hs[d].buffer \in Buffers
      BY <2>2 DEF TypeInv, States
    <3>3. CASE hs[d].buffer # b
      BY <1>8, <3>2, <3>3 DEF TypeInv
    <3>4. CASE b \in Flash /\ hs[d].buffer = b
      BY <1>4, <1>8, <3>4 DEF FlashInv, TypeInv
    <3> QED
      BY <3>1, <3>3, <3>4
  <2> QED
    BY <2>1, <2>2, Untouched
<1> QED
  BY <1>11, <1>12, <1>13, <1>14

-----------------------------------------------------------------------------
(* The theorems. *)

LEMMA StepInv ==
  ASSUME IInv, [Next]_vars
  PROVE  IInv'
<1>1. CASE UNCHANGED vars
  BY <1>1 DEF vars, history, IInv, TypeInv, FlashInv, ConnInv, Whole, Waiting, Answering
<1>2. CASE Next
  <2>1. PICK c \in Conns : \/ Accept(c) \/ Receive(c) \/ Acknowledge(c) \/ Poll(c)
                           \/ ClientCloses(c) \/ Fails(c) \/ Closed(c)
    BY <1>2 DEF Next
  <2>2. BadRequest(c) => IInv'
    BY CloseConnCuts DEF BadRequest
  <2>3. ClientCloses(c) => IInv'
    BY CloseConnCuts DEF ClientCloses
  <2> QED
    BY <2>1, <2>2, <2>3, AcceptKeeps, RequestPartKeeps, WholeRequestKeeps, AcknowledgeKeeps,
       PollKeeps, FailsKeeps, ClosedKeeps DEF Receive
<1> QED
  BY <1>1, <1>2

LEMMA Invariance == Spec => []IInv
<1>1. IInv /\ [Next]_vars => IInv'
  BY StepInv
<1> QED
  BY <1>1, InitInv, PTL DEF Spec

\* A client gets the pieces of the answer to its own request in their order, and all of
\* them when the server ends the connection itself.
THEOREM AnswersWhole == Spec => []AnswerIsWhole
<1>1. IInv => AnswerIsWhole
  BY DEF IInv, ConnInv, Whole, AnswerIsWhole
<1> QED
  BY <1>1, Invariance, PTL

\* No connection has two requests acted on.
THEOREM ActsOnce == Spec => []ActedOnOnce
<1>1. IInv => ActedOnOnce
  BY DEF IInv, ConnInv, Whole, ActedOnOnce
<1> QED
  BY <1>1, Invariance, PTL

=============================================================================

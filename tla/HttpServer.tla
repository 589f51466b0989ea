------------------------------- MODULE HttpServer -------------------------------
(***************************************************************************)
(* The HTTP server: connections, requests, handlers and answers.            *)
(* Source: http_rest.c, and what the REST handlers leave in a file.          *)
(*                                                                         *)
(* lwIP calls back one function at a time, under its core lock, and each is  *)
(* one action.  An answer is a buffer and a length: pages lie in flash, JSON *)
(* answers in static buffers of their endpoints, and several endpoints may    *)
(* share one (rest_ai_tuning.c).  What http_write hands to TCP is copied      *)
(* there (LWIP_NETIF_TX_SINGLE_PBUF); the rest stays in the buffer.  Lengths  *)
(* are counted in pieces.                                                    *)
(***************************************************************************)
EXTENDS Naturals, Sequences

CONSTANTS
  Conns,         \* as many connections as lwIP has room for
  Endpoints,
  BufferOf,      \* BufferOf[e]: where its answer lies
  Flash,         \* the buffers nobody writes
  MaxLength,     \* of an answer
  SendBuffer,    \* TCP_SND_BUF
  MaxWrite,      \* HTTPD_MAX_WRITE_LEN
  MaxRetries,    \* HTTPD_MAX_RETRIES
  MaxRequest,    \* LWIP_HTTPD_REQ_QUEUELEN, in segments
  MaxRuns,       \* bound on the requests answered
  None

Buffers == {BufferOf[e] : e \in Endpoints}

ASSUME SizesAssumption ==
  /\ {MaxLength, SendBuffer, MaxWrite, MaxRetries, MaxRequest, MaxRuns} \subseteq Nat \ {0}
  /\ Flash \subseteq Buffers

\* http_state; left and pos of the file, the segments of a request that has not ended.
States == [buffer : Buffers \union {None}, pos : Nat, left : Nat, retries : Nat, request : Nat]
Answers == [run : Nat, length : Nat]

ASSUME NamesAssumption ==
  None \notin Buffers /\ None \notin States /\ None \notin Answers

VARIABLES
  pcb,       \* "none", "open", "closing", or "retry": closed by us, refused by TCP
  hs,        \* http_state, or None
  content,   \* content[b]: the handler run that wrote the buffer
  sent,      \* sent[c]: the pieces TCP has taken
  acked,     \* how many of them the client has
  runs,      \* handlers run, counted against the bound
  \* History.
  answer,    \* answer[c]: the run and the length of its answer
  handled,   \* how many requests of the connection were acted on
  ended,     \* how http_state ended: "no", "eof" or "cut"
  overrun    \* the buffer was written again before TCP had all of it

history == <<answer, handled, ended, overrun>>
vars == <<pcb, hs, content, sent, acked, runs, history>>

Fresh == [buffer |-> None, pos |-> 0, left |-> 0, retries |-> 0, request |-> 0]

Init ==
  /\ pcb = [c \in Conns |-> "none"]
  /\ hs = [c \in Conns |-> None]
  /\ content = [b \in Buffers |-> 0]
  /\ sent = [c \in Conns |-> <<>>]
  /\ acked = [c \in Conns |-> 0]
  /\ runs = 0
  /\ answer = [c \in Conns |-> None]
  /\ handled = [c \in Conns |-> 0]
  /\ ended = [c \in Conns |-> "no"]
  /\ overrun = [c \in Conns |-> FALSE]

\* http_accept, when there is memory for the state; without, TCP drops the connection.
Accept(c) ==
  /\ pcb[c] = "none"
  /\ pcb' = [pcb EXCEPT ![c] = "open"]
  /\ hs' = [hs EXCEPT ![c] = Fresh]
  /\ sent' = [sent EXCEPT ![c] = <<>>]
  /\ acked' = [acked EXCEPT ![c] = 0]
  /\ answer' = [answer EXCEPT ![c] = None]
  /\ handled' = [handled EXCEPT ![c] = 0]
  /\ ended' = [ended EXCEPT ![c] = "no"]
  /\ overrun' = [overrun EXCEPT ![c] = FALSE]
  /\ UNCHANGED <<content, runs>>

\* http_close_conn: the state is freed; TCP sends what it has and then the end, or has no
\* memory for the end.
CloseConn(c, how) ==
  /\ hs' = [hs EXCEPT ![c] = None]
  /\ ended' = [ended EXCEPT ![c] = how]
  /\ \E s \in {"closing", "retry"} : pcb' = [pcb EXCEPT ![c] = s]

Room(c) == SendBuffer - (Len(sent[c]) - acked'[c])

\* http_write takes what fits, or nothing when the heap is short.
Fits(c, n) == n <= MaxWrite /\ n <= Room(c)

HttpSendAgain(c, h, source) ==          \* mutant: the position stays where it was
  \E n \in 0..h.left :
    /\ Fits(c, n)
    /\ sent' = [sent EXCEPT ![c] = @ \o [i \in 1..n |-> <<source[h.buffer], h.pos + i>>]]
    /\ IF n = h.left
       THEN CloseConn(c, "eof")
       ELSE /\ hs' = [hs EXCEPT ![c] = [h EXCEPT !.left = @ - n]]
            /\ UNCHANGED <<pcb, ended>>

HttpSend(c, h, source) ==
  \E n \in 0..h.left :
    /\ Fits(c, n)
    /\ sent' = [sent EXCEPT ![c] = @ \o [i \in 1..n |-> <<source[h.buffer], h.pos + i>>]]
    /\ IF n = h.left
       THEN CloseConn(c, "eof")
       ELSE /\ hs' = [hs EXCEPT ![c] = [h EXCEPT !.pos = @ + n, !.left = @ - n]]
            /\ UNCHANGED <<pcb, ended>>

-----------------------------------------------------------------------------
(* http_recv and http_parse_request. *)

ParsingAlways(c) == hs[c] # None        \* mutant: the next request is not dropped

\* What comes while an answer is under way is dropped.
Parsing(c) == hs[c] # None /\ hs[c].buffer = None

RequestPart(c) ==
  /\ Parsing(c)
  /\ hs[c].request < MaxRequest
  /\ hs' = [hs EXCEPT ![c].request = @ + 1]
  /\ UNCHANGED <<pcb, content, sent, acked, runs, history>>

\* Not a GET, no URI, or no end of the headers in sight.
BadRequest(c) ==
  /\ Parsing(c)
  /\ CloseConn(c, "cut")
  /\ UNCHANGED <<content, sent, acked, runs, answer, handled, overrun>>

\* http_find_file, http_init_file: the handler runs and its answer begins.
WholeRequest(c) ==
  /\ Parsing(c)
  /\ runs < MaxRuns
  /\ runs' = runs + 1
  /\ \E e \in Endpoints, n \in 1..MaxLength :
       LET b == BufferOf[e]
           run == IF b \in Flash THEN 0 ELSE runs' IN
       /\ content' = [content EXCEPT ![b] = run]
       /\ overrun' = [d \in Conns |-> overrun[d] \/
                        (d # c /\ b \notin Flash /\ hs[d] # None /\ hs[d].buffer = b)]
       /\ answer' = [answer EXCEPT ![c] = [run |-> run, length |-> n]]
       /\ handled' = [handled EXCEPT ![c] = @ + 1]
       /\ acked' = acked
       /\ HttpSend(c, [Fresh EXCEPT !.buffer = b, !.left = n], content')

-----------------------------------------------------------------------------
(* The other callbacks, and TCP. *)

\* The client has some more: http_sent, unless the callbacks are gone.
Acknowledge(c) ==
  /\ pcb[c] # "none"
  /\ \E n \in 1..(Len(sent[c]) - acked[c]) : acked' = [acked EXCEPT ![c] = @ + n]
  /\ IF hs[c] # None
     THEN HttpSend(c, [hs[c] EXCEPT !.retries = 0], content)
     ELSE UNCHANGED <<pcb, hs, sent, ended>>
  /\ UNCHANGED <<content, runs, answer, handled, overrun>>

PollUncounted(c) ==                     \* mutant: a poll that sends does not count
  /\ acked' = acked
  /\ \/ /\ pcb[c] = "retry"
        /\ \E s \in {"closing", "retry"} : pcb' = [pcb EXCEPT ![c] = s]
        /\ UNCHANGED <<hs, sent, ended>>
     \/ /\ hs[c] # None
        /\ IF hs[c].buffer # None THEN HttpSend(c, hs[c], content)
           ELSE UNCHANGED <<hs, pcb, sent, ended>>
  /\ UNCHANGED <<content, runs, answer, handled, overrun>>

\* http_poll, every two seconds.
Poll(c) ==
  /\ acked' = acked
  /\ \/ /\ pcb[c] = "retry"
        /\ \E s \in {"closing", "retry"} : pcb' = [pcb EXCEPT ![c] = s]
        /\ UNCHANGED <<hs, sent, ended>>
     \/ /\ hs[c] # None /\ hs[c].retries + 1 = MaxRetries
        /\ CloseConn(c, "cut")
        /\ UNCHANGED sent
     \/ /\ hs[c] # None /\ hs[c].retries + 1 # MaxRetries
        /\ LET h == [hs[c] EXCEPT !.retries = @ + 1] IN
           IF h.buffer # None THEN HttpSend(c, h, content)
           ELSE hs' = [hs EXCEPT ![c] = h] /\ UNCHANGED <<pcb, sent, ended>>
  /\ UNCHANGED <<content, runs, answer, handled, overrun>>

\* The client closes its side: http_recv without data closes ours.
ClientCloses(c) ==
  /\ hs[c] # None
  /\ CloseConn(c, "cut")
  /\ UNCHANGED <<content, sent, acked, runs, answer, handled, overrun>>

\* A reset, or TCP gives up: http_err, if it is still there.
Fails(c) ==
  /\ pcb[c] # "none"
  /\ pcb' = [pcb EXCEPT ![c] = "none"]
  /\ hs' = [hs EXCEPT ![c] = None]
  /\ ended' = [ended EXCEPT ![c] = IF hs[c] # None THEN "cut" ELSE @]
  /\ UNCHANGED <<content, sent, acked, runs, answer, handled, overrun>>

\* TCP has sent everything and the end.
Closed(c) ==
  /\ pcb[c] = "closing" /\ acked[c] = Len(sent[c])
  /\ pcb' = [pcb EXCEPT ![c] = "none"]
  /\ UNCHANGED <<hs, content, sent, acked, runs, history>>

-----------------------------------------------------------------------------

Receive(c) == RequestPart(c) \/ BadRequest(c) \/ WholeRequest(c)

Next ==
  \E c \in Conns :
    Accept(c) \/ Receive(c) \/ Acknowledge(c) \/ Poll(c) \/ ClientCloses(c) \/ Fails(c) \/ Closed(c)

Spec == Init /\ [][Next]_vars
\* TCP's slow timer polls every connection.
FairSpec == Spec /\ \A c \in Conns : WF_vars(Poll(c))

-----------------------------------------------------------------------------
(* Properties. *)

\* What a client gets is the answer to its request, piece after piece, and all of it
\* when the server ends the connection itself; from one run of the handler unless a
\* request for the same buffer came in between (rest_ai_tuning.c:22).
AnswerIsWhole ==
  \A c \in Conns :
    /\ sent[c] # <<>> => answer[c] # None
    /\ \A i \in DOMAIN sent[c] :
         /\ sent[c][i][2] = i
         /\ ~overrun[c] => sent[c][i][1] = answer[c].run
    /\ ended[c] = "eof" => Len(sent[c]) = answer[c].length

\* One connection, one request: what the client sends beside it is not acted on.
ActedOnOnce == \A c \in Conns : handled[c] <= 1

\* No connection stays for ever, whatever the client does not send or acknowledge.
ConnectionEnds == \A c \in Conns : hs[c] # None ~> hs[c] = None

\* Without the exception of AnswerIsWhole; this does not hold.
AnswerOfOneRun ==
  \A c \in Conns : \A i \in DOMAIN sent[c] : sent[c][i][1] = answer[c].run

=============================================================================

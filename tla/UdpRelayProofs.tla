--------------------------- MODULE UdpRelayProofs ---------------------------
(***************************************************************************)
(* The safety of UdpRelay for any requests, sizes, ports, answers and      *)
(* buffers the assumptions allow.                                          *)
(***************************************************************************)
EXTENDS UdpRelay, TLAPS

-----------------------------------------------------------------------------
(* The inductive invariant.                                                *)

Started == Stages \ {"none"}

\* What a request and its worker are at each stage: nothing was sent to the client
\* before the end, and a port belongs to those who have sent.
Staged ==
  \A r \in Requests :
    /\ r \in inbox => At(r, "none")
    /\ ~At(r, "ended") => heard[r] = << >>
    /\ worker[r].pc \in {"none", "socket", "frame", "send"} => worker[r].port = NoPort
    /\ r \in Holders => worker[r].port \in Ports

\* How far the buffer is filled.
Sized ==
  \A r \in Requests :
    /\ worker[r].pc \in {"none", "socket", "frame"} => worker[r].used <= ReadSize
    /\ worker[r].used <= BufferSize

\* What is on the way belongs to the port its worker was given.
Addressed == \A m \in asks \cup answers : worker[m.about].port = m.port

\* Whoever else had a worker's port had it before.
Turns ==
  \A r \in Holders, q \in Requests : worker[q].port = worker[r].port => q \in {r} \cup before[r]

\* The answer a worker has in hand is one it may have.
InHand == \A r \in Requests : At(r, "answer") => worker[r].about \in {r} \cup before[r]

IInv == /\ TypeOK /\ Staged /\ Sized /\ Addressed /\ Turns /\ InHand
        /\ AnswerToItsRequest

-----------------------------------------------------------------------------
(* Sizes.                                                                  *)

LEMMA Sizes ==
  /\ ReadSize \in Nat /\ BufferSize \in Nat /\ MethodSize \in Nat /\ Overhead \in Nat
  /\ ReadSize + MethodSize + Overhead + 5 <= BufferSize
  /\ \A r \in Requests : SizeOf[r] \in Nat
  BY BuffersAssumption, SizesAssumption

LEMMA LesserType ==
  ASSUME NEW a \in Nat, NEW b \in Nat
  PROVE  Lesser(a, b) \in Nat /\ Lesser(a, b) <= a /\ Lesser(a, b) <= b
  BY DEF Lesser

-----------------------------------------------------------------------------
(* The proof of inductiveness, an action at a time.                        *)

LEMMA InitIInv == Init => IInv
<1> SUFFICES ASSUME Init PROVE IInv
  OBVIOUS
<1>1. /\ inbox = Requests /\ asks = {} /\ answers = {}
      /\ \A r \in Requests : /\ worker[r] = [pc |-> "none", port |-> NoPort, used |-> 0,
                                             about |-> NoRequest]
                             /\ heard[r] = << >>
  BY DEF Init
<1>2. TypeOK
  BY DEF Init, TypeOK, Stages
<1>3. Staged /\ Sized
  BY <1>1, Sizes DEF Staged, Sized, At, Holders
<1>4. Addressed /\ Turns /\ InHand /\ AnswerToItsRequest
  BY <1>1 DEF Addressed, Turns, InHand, AnswerToItsRequest, At, Holders
<1>5. QED
  BY <1>2, <1>3, <1>4 DEF IInv

\* One worker goes on without touching ports, messages, clients or the history, to
\* a stage the invariant allows.
LEMMA WorkerStep ==
  ASSUME IInv, NEW r \in Requests,
         NEW w \in [pc : Started, port : Ports \cup {NoPort}, used : Nat,
                    about : Requests \cup {NoRequest}],
         worker' = [worker EXCEPT ![r] = w],
         listening' \in BOOLEAN, inbox' \subseteq inbox, r \notin inbox',
         UNCHANGED << asks, heard, before >>, answers' \subseteq answers,
         w.port = worker[r].port, w.used <= BufferSize,
         w.pc \in {"socket", "frame"} => w.used <= ReadSize,
         w.pc = "ended" \/ ~At(r, "ended"),
         w.pc \in {"socket", "frame", "send"} => worker[r].port = NoPort,
         w.pc \in {"wait", "answer"} => r \in Holders,
         w.pc = "answer" => w.about \in {r} \cup before[r]
  PROVE  IInv'
<1> USE DEF IInv
<1>1. /\ worker'[r] = w
      /\ \A q \in Requests \ {r} : worker'[q] = worker[q]
      /\ \A q \in Requests : worker'[q].port = worker[q].port
  BY DEF TypeOK
<1>2. TypeOK'
  BY DEF TypeOK, Started, Stages
<1>3. Holders' \subseteq Holders
  BY <1>1 DEF Holders
<1>4. Staged'
  <2> SUFFICES ASSUME NEW q \in Requests
               PROVE  /\ q \in inbox' => At(q, "none")'
                      /\ ~At(q, "ended")' => heard[q] = << >>
                      /\ worker'[q].pc \in {"none", "socket", "frame", "send"}
                           => worker'[q].port = NoPort
                      /\ q \in Holders' => worker'[q].port \in Ports
    BY DEF Staged
  <2>1. CASE q = r
    BY <1>1, <1>3, <2>1 DEF Staged, At, Started, Stages
  <2>2. CASE q # r
    BY <1>1, <1>3, <2>2 DEF Staged, At
  <2>3. QED
    BY <2>1, <2>2
<1>5. Sized'
  BY <1>1 DEF Sized, Started, Stages
<1>6. Addressed'
  BY <1>1 DEF Addressed, TypeOK, Datagram
<1>7. Turns'
  BY <1>1, <1>3 DEF Turns
<1>8. InHand'
  BY <1>1 DEF InHand, At
<1>9. AnswerToItsRequest'
  BY DEF AnswerToItsRequest
<1>10. QED
  BY <1>2, <1>4, <1>5, <1>6, <1>7, <1>8, <1>9

\* Nothing moves but messages, and new ones go where their request's worker was.
LEMMA NetworkStep ==
  ASSUME IInv, TypeOK', UNCHANGED << worker, heard, before >>, inbox' = inbox,
         \A m \in asks' \cup answers' : worker[m.about].port = m.port
  PROVE  IInv'
<1>1. Addressed'
  BY DEF Addressed
<1>2. /\ Staged' /\ Sized' /\ Turns' /\ InHand' /\ AnswerToItsRequest'
  BY DEF IInv, Staged, Sized, Turns, InHand, AnswerToItsRequest, At, Holders
<1>3. QED
  BY <1>1, <1>2 DEF IInv

LEMMA WorkerType ==
  ASSUME TypeOK, NEW r \in Requests
  PROVE  worker[r] \in [pc : Stages, port : Ports \cup {NoPort}, used : Nat,
                        about : Requests \cup {NoRequest}]
  BY DEF TypeOK

LEMMA ReceivePreserves ==
  ASSUME IInv, NEW r \in Requests, Receive(r)
  PROVE  IInv'
<1> DEFINE n == Lesser(SizeOf[r], ReadSize)
<1>1. n \in Nat /\ n <= ReadSize /\ n <= BufferSize
  <2>1. n \in Nat /\ n <= ReadSize
    BY Sizes, LesserType
  <2> HIDE DEF n
  <2>2. QED
    BY <2>1, Sizes
<1>2. At(r, "none") /\ worker[r].port = NoPort
  BY DEF IInv, Staged, Receive, At
<1>3. CASE n < 1
  <2>1. worker' = worker /\ inbox' \subseteq inbox /\ UNCHANGED << listening, asks, answers, heard, before >>
    BY <1>3 DEF Receive
  <2>2. TypeOK'
    BY <2>1 DEF IInv, TypeOK
  <2>3. Staged'
    BY <2>1 DEF IInv, Staged, At, Holders
  <2>4. /\ Sized' /\ Addressed' /\ Turns' /\ InHand' /\ AnswerToItsRequest'
    BY <2>1 DEF IInv, Sized, Addressed, Turns, InHand, AnswerToItsRequest, At,
                Holders
  <2>5. QED
    BY <2>2, <2>3, <2>4 DEF IInv
<1>4. CASE ~(n < 1)
  <2> DEFINE w == [worker[r] EXCEPT !.pc = "socket", !.used = n]
  <2>1. /\ w \in [pc : Started, port : Ports \cup {NoPort}, used : Nat,
                  about : Requests \cup {NoRequest}]
        /\ w.pc = "socket" /\ w.used = n /\ w.port = worker[r].port
    BY <1>1, WorkerType DEF IInv, Started, Stages
  <2>2. worker' = [worker EXCEPT ![r] = w]
    BY <1>4 DEF Receive
  <2>3. /\ inbox' \subseteq inbox /\ r \notin inbox' /\ listening' \in BOOLEAN
        /\ UNCHANGED << asks, heard, before >> /\ answers' \subseteq answers
    BY DEF Receive, IInv, TypeOK
  <2> HIDE DEF w
  <2>4. QED
    BY <1>1, <1>2, <2>1, <2>2, <2>3, WorkerStep DEF At
<1>5. QED
  BY <1>3, <1>4

LEMMA OpenSocketPreserves ==
  ASSUME IInv, NEW r \in Requests, OpenSocket(r)
  PROVE  IInv'
<1> DEFINE w == [worker[r] EXCEPT !.pc = "frame"]
<1>1. /\ w \in [pc : Started, port : Ports \cup {NoPort}, used : Nat,
                about : Requests \cup {NoRequest}]
      /\ w.pc = "frame" /\ w.used = worker[r].used /\ w.port = worker[r].port
  BY WorkerType DEF IInv, Started, Stages
<1>2. worker' = [worker EXCEPT ![r] = w]
  BY DEF OpenSocket
<1>3. /\ inbox' \subseteq inbox /\ r \notin inbox' /\ listening' \in BOOLEAN
      /\ UNCHANGED << asks, heard, before >> /\ answers' \subseteq answers
  BY DEF OpenSocket, IInv, TypeOK, Staged, At
<1>4. /\ worker[r].port = NoPort /\ ~At(r, "ended")
      /\ worker[r].used <= ReadSize /\ worker[r].used <= BufferSize
  BY DEF OpenSocket, IInv, Staged, Sized, At
<1> HIDE DEF w
<1>5. QED
  BY <1>1, <1>2, <1>3, <1>4, WorkerStep

LEMMA BuildFramePreserves ==
  ASSUME IInv, NEW r \in Requests, BuildFrame(r)
  PROVE  IInv'
<1> DEFINE size == 4 + 1 + MethodSize + worker[r].used + Overhead
           w    == [worker[r] EXCEPT !.pc = "send", !.used = size]
<1>1. /\ worker[r].port = NoPort /\ ~At(r, "ended") /\ r \notin inbox
      /\ worker[r].used \in Nat /\ worker[r].used <= ReadSize
  BY WorkerType DEF BuildFrame, IInv, Staged, Sized, At
<1>2. size \in Nat /\ size <= BufferSize
  BY <1>1, Sizes
<1>3. /\ w \in [pc : Started, port : Ports \cup {NoPort}, used : Nat,
                about : Requests \cup {NoRequest}]
      /\ w.pc = "send" /\ w.used = size /\ w.port = worker[r].port
  BY <1>2, WorkerType DEF IInv, Started, Stages
<1>4. worker' = [worker EXCEPT ![r] = w]
  BY DEF BuildFrame
<1>5. /\ inbox' \subseteq inbox /\ r \notin inbox' /\ listening' \in BOOLEAN
      /\ UNCHANGED << asks, heard, before >> /\ answers' \subseteq answers
  BY <1>1 DEF BuildFrame, IInv, TypeOK
<1> HIDE DEF w, size
<1>6. QED
  BY <1>1, <1>2, <1>3, <1>4, <1>5, WorkerStep

LEMMA GiveUpPreserves ==
  ASSUME IInv, NEW r \in Requests, GiveUp(r)
  PROVE  IInv'
<1> DEFINE w == [worker[r] EXCEPT !.pc = "ended"]
<1>1. /\ w \in [pc : Started, port : Ports \cup {NoPort}, used : Nat,
                about : Requests \cup {NoRequest}]
      /\ w.pc = "ended" /\ w.used = worker[r].used /\ w.port = worker[r].port
  BY WorkerType DEF IInv, Started, Stages
<1>2. worker' = [worker EXCEPT ![r] = w]
  BY DEF GiveUp, Ended
<1>3. /\ inbox' \subseteq inbox /\ r \notin inbox' /\ listening' \in BOOLEAN
      /\ UNCHANGED << asks, heard, before >> /\ answers' \subseteq answers
  BY DEF GiveUp, IInv, TypeOK, Staged, At
<1>4. worker[r].used <= BufferSize
  BY DEF IInv, Sized
<1> HIDE DEF w
<1>5. QED
  BY <1>1, <1>2, <1>3, <1>4, WorkerStep

LEMMA ReceiveAnswerPreserves ==
  ASSUME IInv, NEW r \in Requests, ReceiveAnswer(r)
  PROVE  IInv'
<1>1. PICK a \in answers :
        /\ a.port = worker[r].port
        /\ answers' \in {answers, answers \ {a}}
        /\ \/ worker' = Ended(r)
           \/ worker' = [worker EXCEPT ![r].pc = "crashed"]
           \/ worker' = [worker EXCEPT ![r].pc = "answer",
                                       ![r].used = Lesser(a.reply.size, ReadSize),
                                       ![r].about = a.about]
  BY DEF ReceiveAnswer
<1>2. a.about \in Requests /\ a.reply \in Replies
  BY DEF IInv, TypeOK
<1>3. /\ inbox' \subseteq inbox /\ r \notin inbox' /\ listening' \in BOOLEAN
      /\ UNCHANGED << asks, heard, before >> /\ answers' \subseteq answers
      /\ ~At(r, "ended") /\ r \in Holders /\ worker[r].used <= BufferSize
  BY <1>1 DEF ReceiveAnswer, IInv, TypeOK, Staged, Sized, At, Holders
<1>4. a.about \in {r} \cup before[r]
  BY <1>1, <1>2, <1>3 DEF IInv, Addressed, Turns
<1>5. CASE worker' = [worker EXCEPT ![r].pc = "answer",
                                    ![r].used = Lesser(a.reply.size, ReadSize),
                                    ![r].about = a.about]
  <2> DEFINE n == Lesser(a.reply.size, ReadSize)
             w == [worker[r] EXCEPT !.pc = "answer", !.used = n, !.about = a.about]
  <2>1. n \in Nat /\ n <= BufferSize
    <3>1. a.reply.size \in Nat
      BY <1>2, RepliesAssumption
    <3>2. n \in Nat /\ n <= ReadSize
      BY <3>1, Sizes, LesserType
    <3> HIDE DEF n
    <3>3. QED
      BY <3>2, Sizes
  <2>2. /\ w \in [pc : Started, port : Ports \cup {NoPort}, used : Nat,
                  about : Requests \cup {NoRequest}]
        /\ w.pc = "answer" /\ w.used = n /\ w.port = worker[r].port
        /\ w.about = a.about
    BY <1>2, <2>1, WorkerType DEF IInv, Started, Stages
  <2>3. worker' = [worker EXCEPT ![r] = w]
    BY <1>5
  <2> HIDE DEF w, n
  <2>4. QED
    BY <1>3, <1>4, <2>1, <2>2, <2>3, WorkerStep
<1>6. ASSUME NEW pc \in {"ended", "crashed"}, worker' = [worker EXCEPT ![r].pc = pc]
      PROVE  IInv'
  <2> DEFINE w == [worker[r] EXCEPT !.pc = pc]
  <2>1. /\ w \in [pc : Started, port : Ports \cup {NoPort}, used : Nat,
                  about : Requests \cup {NoRequest}]
        /\ w.pc = pc /\ w.used = worker[r].used /\ w.port = worker[r].port
    BY WorkerType DEF IInv, Started, Stages
  <2>2. worker' = [worker EXCEPT ![r] = w]
    BY <1>6
  <2> HIDE DEF w
  <2>3. QED
    BY <1>3, <2>1, <2>2, WorkerStep
<1>7. QED
  BY <1>1, <1>5, <1>6 DEF Ended

\* The port that is bound is held by no other worker, so whoever had it has ended.
LEMMA SendFramePreserves ==
  ASSUME IInv, NEW r \in Requests, SendFrame(r)
  PROVE  IInv'
<1>1. PICK p \in Ports \ {worker[q].port : q \in Holders} :
        /\ worker' = [worker EXCEPT ![r].pc = "wait", ![r].port = p]
        /\ asks' = asks \cup {[port |-> p, about |-> r]}
        /\ before' = [before EXCEPT ![r] = {q \in Requests \ Holders : worker[q].port = p}]
  BY DEF SendFrame
<1>2. /\ At(r, "send") /\ r \notin inbox /\ heard[r] = << >>
      /\ worker[r].port = NoPort /\ p # NoPort
      /\ UNCHANGED << listening, inbox, answers, heard >>
  BY <1>1, NamesAssumption DEF SendFrame, IInv, Staged, At
<1>3. /\ worker'[r].pc = "wait" /\ worker'[r].port = p
      /\ worker'[r].used = worker[r].used
      /\ \A q \in Requests \ {r} : worker'[q] = worker[q] /\ before'[q] = before[q]
      /\ before'[r] = {q \in Requests \ Holders : worker[q].port = p}
  BY <1>1 DEF IInv, TypeOK
<1>4. TypeOK'
  BY <1>1, <1>2 DEF IInv, TypeOK, Datagram
<1>5. Holders' = Holders \cup {r}
  BY <1>3 DEF Holders
<1>6. Staged'
  BY <1>1, <1>2, <1>3, <1>5, ZenonT(90) DEF IInv, Staged, At
<1>7. Sized'
  BY <1>3 DEF IInv, Sized
<1>8. Addressed'
  <2> SUFFICES ASSUME NEW m \in asks' \cup answers'
               PROVE  worker'[m.about].port = m.port
    BY DEF Addressed
  <2>1. CASE m = [port |-> p, about |-> r]
    BY <1>3, <2>1
  <2>2. CASE m \in asks \cup answers
    <3>1. m.about \in Requests /\ m.port \in Ports /\ worker[m.about].port = m.port
      BY <2>2 DEF IInv, Addressed, TypeOK, Datagram
    <3>2. m.about # r
      BY <1>2, <3>1, NamesAssumption
    <3>3. QED
      BY <1>3, <3>1, <3>2
  <2>3. QED
    BY <1>1, <1>2, <2>1, <2>2
<1>9. Turns'
  <2> SUFFICES ASSUME NEW h \in Holders', NEW q \in Requests,
                      worker'[q].port = worker'[h].port
               PROVE  q \in {h} \cup before'[h]
    BY DEF Turns
  <2>1. CASE h = r
    BY <1>1, <1>3, <2>1
  <2>2. CASE h # r
    <3>1. h \in Holders /\ h \in Requests /\ worker[h].port # p
      BY <1>1, <1>5, <2>2 DEF Holders
    <3>2. q # r
      BY <1>3, <2>2, <3>1
    <3>3. QED
      BY <1>3, <2>2, <3>1, <3>2 DEF IInv, Turns
  <2>3. QED
    BY <2>1, <2>2
<1>10. InHand'
  BY <1>3 DEF IInv, InHand, At
<1>11. AnswerToItsRequest'
  BY <1>2, <1>3 DEF IInv, AnswerToItsRequest
<1>12. QED
  BY <1>4, <1>6, <1>7, <1>8, <1>9, <1>10, <1>11 DEF IInv

LEMMA SendAnswerPreserves ==
  ASSUME IInv, NEW r \in Requests, SendAnswer(r)
  PROVE  IInv'
<1>1. /\ At(r, "answer") /\ r \notin inbox /\ heard[r] = << >>
      /\ worker' = [worker EXCEPT ![r].pc = "ended"]
      /\ worker[r].about \in {r} \cup before[r]
      /\ UNCHANGED << listening, inbox, asks, answers, before >>
  BY DEF SendAnswer, Ended, IInv, Staged, InHand, At
<1>2. /\ worker'[r].pc = "ended"
      /\ \A q \in Requests \ {r} : worker'[q] = worker[q]
      /\ \A q \in Requests : worker'[q].port = worker[q].port /\ worker'[q].used = worker[q].used
  BY <1>1 DEF IInv, TypeOK
<1>3. worker[r].about \in Requests
  BY <1>1 DEF IInv, TypeOK
<1>4. /\ heard' \in [Requests -> Seq(Requests)]
      /\ \A q \in Requests \ {r} : heard'[q] = heard[q]
      /\ heard'[r] \in {<< >>, << worker[r].about >>}
  <2>1. Append(heard[r], worker[r].about) = << worker[r].about >>
    BY <1>1
  <2>2. heard' \in {heard, [heard EXCEPT ![r] = << worker[r].about >>]}
    BY <2>1 DEF SendAnswer
  <2>3. << worker[r].about >> \in Seq(Requests) /\ heard \in [Requests -> Seq(Requests)]
    BY <1>3 DEF IInv, TypeOK
  <2>4. QED
    BY <1>1, <2>2, <2>3
<1>5. TypeOK'
  <2>1. worker' \in [Requests -> [pc : Stages, port : Ports \cup {NoPort}, used : Nat,
                                  about : Requests \cup {NoRequest}]]
    <3> DEFINE w == [worker[r] EXCEPT !.pc = "ended"]
    <3>1. w \in [pc : Stages, port : Ports \cup {NoPort}, used : Nat,
                 about : Requests \cup {NoRequest}]
      BY WorkerType DEF IInv, Stages
    <3>2. worker' = [worker EXCEPT ![r] = w]
      BY <1>1
    <3> HIDE DEF w
    <3>3. QED
      BY <3>1, <3>2 DEF IInv, TypeOK
  <2>2. QED
    BY <1>1, <1>4, <2>1 DEF IInv, TypeOK
<1>6. Holders' \subseteq Holders
  BY <1>2 DEF Holders
<1>7. Staged'
  BY <1>1, <1>2, <1>4, <1>6 DEF IInv, Staged, At
<1>8. Sized'
  BY <1>2 DEF IInv, Sized
<1>9. Addressed'
  BY <1>1, <1>2 DEF IInv, Addressed, TypeOK, Datagram
<1>10. Turns'
  BY <1>1, <1>2, <1>6 DEF IInv, Turns
<1>11. InHand'
  BY <1>1, <1>2 DEF IInv, InHand, At
<1>12. AnswerToItsRequest'
  <2> SUFFICES ASSUME NEW q \in Requests
               PROVE  /\ Len(heard'[q]) <= 1
                      /\ \A i \in 1..Len(heard'[q]) : heard'[q][i] \in {q} \cup before[q]
    BY <1>1 DEF AnswerToItsRequest
  <2>1. CASE q # r
    BY <1>4, <2>1 DEF IInv, AnswerToItsRequest
  <2>2. CASE q = r /\ heard'[r] = << >>
    BY <2>2
  <2>3. CASE q = r /\ heard'[r] = << worker[r].about >>
    BY <1>1, <2>3
  <2>4. QED
    BY <1>4, <2>1, <2>2, <2>3
<1>13. QED
  BY <1>5, <1>7, <1>8, <1>9, <1>10, <1>11, <1>12 DEF IInv

\* The steps that are not a worker's.
LEMMA NetworkPreserves ==
  ASSUME IInv, CloseListener \/ (\E f \in asks : FarAnswers(f)) \/ Lose \/ UNCHANGED vars
  PROVE  IInv'
<1>1. CASE CloseListener
  BY <1>1, NetworkStep DEF CloseListener, IInv, TypeOK, Addressed
<1>2. ASSUME NEW f \in asks, FarAnswers(f) PROVE IInv'
  <2>1. PICK reply \in Replies :
          answers' = answers \cup {[port |-> f.port, about |-> f.about, reply |-> reply]}
    BY <1>2 DEF FarAnswers
  <2>2. UNCHANGED << listening, inbox, worker, heard, before >> /\ asks' = asks \ {f}
    BY <1>2 DEF FarAnswers
  <2>3. f.port \in Ports /\ f.about \in Requests /\ worker[f.about].port = f.port
    BY DEF IInv, TypeOK, Datagram, Addressed
  <2>4. TypeOK'
    BY <2>1, <2>2, <2>3 DEF IInv, TypeOK
  <2>5. \A m \in asks' \cup answers' : worker[m.about].port = m.port
    BY <2>1, <2>2, <2>3 DEF IInv, Addressed
  <2>6. QED
    BY <2>2, <2>4, <2>5, NetworkStep
<1>3. CASE Lose
  <2>1. UNCHANGED << listening, inbox, worker, heard, before >>
        /\ asks' \subseteq asks /\ answers' \subseteq answers
    BY <1>3 DEF Lose
  <2>2. TypeOK'
    BY <2>1 DEF IInv, TypeOK
  <2>3. QED
    BY <2>1, <2>2, NetworkStep DEF IInv, Addressed
<1>4. CASE UNCHANGED vars
  BY <1>4, NetworkStep DEF vars, IInv, TypeOK, Addressed
<1>5. QED
  BY <1>1, <1>2, <1>3, <1>4

LEMMA NextIInv == IInv /\ [Next]_vars => IInv'
<1> SUFFICES ASSUME IInv, [Next]_vars PROVE IInv'
  OBVIOUS
<1>1. ASSUME NEW r \in Requests, Receive(r) \/ Work(r) PROVE IInv'
  BY <1>1, ReceivePreserves, OpenSocketPreserves, BuildFramePreserves, SendFramePreserves,
     ReceiveAnswerPreserves, SendAnswerPreserves, GiveUpPreserves DEF Work
<1>2. QED
  BY <1>1, NetworkPreserves DEF Next

LEMMA Invariant == Spec => []IInv
  BY InitIInv, NextIInv, PTL DEF Spec

-----------------------------------------------------------------------------
(* Results.                                                                *)

\* A request of any size and the frame around it stay within the worker's buffer,
\* whatever the cipher adds, as long as the buffer leaves room for it
\* (udpserver.cpp 62-77 and 167-176).
THEOREM BufferHolds == Spec => []FrameFits
<1>1. IInv => FrameFits
  BY DEF IInv, Sized, FrameFits
<1>2. QED
  BY <1>1, Invariant, PTL

\* With any number of clients and ports, lost, late and repeated answers, a client is
\* sent at most one answer, to its own request or to one whose worker had the same
\* port before (udpserver.cpp 42-144).
THEOREM AnswersMatch == Spec => []AnswerToItsRequest
<1>1. IInv => AnswerToItsRequest
  BY DEF IInv
<1>2. QED
  BY <1>1, Invariant, PTL
=============================================================================

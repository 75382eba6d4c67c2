----------------------------- MODULE DnsUdpProofs -----------------------------
(***************************************************************************)
(* A reply of handle_udp is the whole answer to the request of the         *)
(* requester it goes to, but for the exception RepliesAreAnswers states,   *)
(* for any number of requests and threads, any number of values of a byte, *)
(* answers of any length and however the answers are cut.                  *)
(*                                                                         *)
(* The invariant says, for each request, what the thread has in its hands: *)
(* the response is the wire bytes from the end of what was taken for the   *)
(* length up to what has been read (Collects), and the length was computed *)
(* from that many bytes of the answer (LengthRead).  That a thread is the  *)
(* only one of its request is an invariant of the inbox (InboxWaits).      *)
(***************************************************************************)
EXTENDS DnsUdp, SequenceTheorems, TLAPS

Stage == {"none", "connect", "write", "length", "body", "ended"}

\* Every variable has its type.
DnsTypeOK ==
    /\ inbox \in Seq(Request)
    /\ thread \in [Request -> Stage]
    /\ conn \in [Request -> {"open", "fin", "reset"}]
    /\ answer \in [Request -> -1 .. MaxAnswer]
    /\ sent \in [Request -> Nat] /\ prefix \in [Request -> Nat]
    /\ taken \in [Request -> Nat] /\ expected \in [Request -> Nat]
    /\ DOMAIN response = Request /\ DOMAIN reply = Request

\* A request in the socket has no thread, and is there once: handle_udp starts one
\* thread for a request.
InboxWaits ==
    /\ \A i \in DOMAIN inbox : thread[inbox[i]] = "none"
    /\ \A i, j \in DOMAIN inbox : inbox[i] = inbox[j] => i = j

\* Nothing has been read before the length, and nothing has been sent before the end.
Begins(r) ==
    /\ answer[r] = NoAnswer => sent[r] = 0
    /\ thread[r] \in Stage \ {"body", "ended"} => taken[r] = 0 /\ response[r] = <<>>
    /\ thread[r] # "ended" => reply[r] = NoReply

\* The response is what followed the bytes that were taken for the length.
Collects(r) ==
    thread[r] = "body" =>
        /\ prefix[r] <= taken[r] /\ taken[r] <= sent[r]
        /\ response[r] = [k \in 1 .. taken[r] - prefix[r] |-> prefix[r] + k]

\* response_length, by how many bytes of it came.  None come only when the stream ends
\* before the answer.
LengthRead(r) ==
    thread[r] = "body" =>
        /\ prefix[r] \in {0, 1, 2}
        /\ prefix[r] = 0 => conn[r] = "fin" /\ sent[r] = 0
        /\ prefix[r] = 1 => expected[r] = (answer[r] \div Base) * Base
        /\ prefix[r] = 2 => expected[r] = answer[r]

\* RepliesAreAnswers, of one request.
Answered(r) ==
    reply[r] # NoReply =>
        /\ reply[r].to = r
        /\ \/ answer[r] # NoAnswer /\ reply[r].bytes = Whole(r)
           \/ prefix[r] < 2 /\ reply[r].bytes = <<>>
           \/ prefix[r] = 1 /\ answer[r] >= Base /\ reply[r].bytes = Shifted(r)

RequestInv(r) == Begins(r) /\ Collects(r) /\ LengthRead(r) /\ Answered(r)

DnsUdpInv == DnsTypeOK /\ InboxWaits /\ \A r \in Request : RequestInv(r)

-----------------------------------------------------------------------------
(* Lemmas.                                                                 *)

\* A piece that begins where the response ends makes a longer response.
LEMMA PiecesJoin ==
    ASSUME NEW p \in Nat, NEW t \in Nat, NEW s \in Nat, p <= t, t <= s
    PROVE  [k \in 1 .. t - p |-> p + k] \o [k \in 1 .. s - t |-> t + k] = [k \in 1 .. s - p |-> p + k]
<1> DEFINE a == [k \in 1 .. t - p |-> p + k]
           b == [k \in 1 .. s - t |-> t + k]
           c == [k \in 1 .. s - p |-> p + k]
<1>1. /\ t - p \in Nat /\ a \in Seq(Nat) /\ Len(a) = t - p /\ \A k \in 1 .. t - p : a[k] = p + k
      /\ s - t \in Nat /\ b \in Seq(Nat) /\ Len(b) = s - t /\ \A k \in 1 .. s - t : b[k] = t + k
      /\ s - p \in Nat /\ c \in Seq(Nat) /\ Len(c) = s - p /\ \A k \in 1 .. s - p : c[k] = p + k
  OBVIOUS
<1> HIDE DEF a, b, c
<1>2. /\ a \o b \in Seq(Nat) /\ Len(a \o b) = Len(a) + Len(b)
      /\ \A k \in 1 .. Len(a) + Len(b) : (a \o b)[k] = IF k <= Len(a) THEN a[k] ELSE b[k - Len(a)]
  <2>1. a \in Seq(Nat) /\ b \in Seq(Nat)
    BY <1>1
  <2> QED BY <2>1, ConcatProperties, ZenonT(60)
<1>3. ASSUME NEW k \in 1 .. Len(c) PROVE (a \o b)[k] = c[k]
  <2>1. k \in 1 .. Len(a) + Len(b) /\ Len(a) + Len(b) = Len(c)
    BY <1>1
  <2>2. (a \o b)[k] = IF k <= Len(a) THEN a[k] ELSE b[k - Len(a)]
    BY <1>2, <2>1
  <2> QED BY <1>1, <2>1, <2>2
<1>4. a \o b = c
  <2>1. a \o b \in Seq(Nat) /\ c \in Seq(Nat) /\ Len(a \o b) = Len(c)
    BY <1>1, <1>2
  <2>2. \A k \in 1 .. Len(a \o b) : (a \o b)[k] = c[k]
    BY <1>3, <2>1, Zenon
  <2> QED BY <2>1, <2>2, SeqEqual, ZenonT(60)
<1> QED BY <1>4 DEF a, b, c

\* A number is what its two digits say.
LEMMA TwoDigits ==
    ASSUME NEW n \in Nat
    PROVE  /\ (n \div Base) * Base + (n % Base) = n
           /\ (n \div Base) * Base \in Nat
           /\ n < Base => (n \div Base) * Base = 0
<1>1. Base \in Nat /\ Base > 0
  BY DnsUdpAssumption
<1>2. n \div Base \in Nat /\ n = Base * (n \div Base) + (n % Base)
  BY <1>1
<1>3. n < Base => n \div Base = 0
  BY <1>1
<1> QED BY <1>1, <1>2, <1>3

\* What a step leaves alone of a request stays as it was.
LEMMA Untouched ==
    ASSUME NEW q, RequestInv(q),
           thread'[q] = thread[q], conn'[q] = conn[q], answer'[q] = answer[q], sent'[q] = sent[q],
           prefix'[q] = prefix[q], taken'[q] = taken[q], expected'[q] = expected[q],
           response'[q] = response[q], reply'[q] = reply[q]
    PROVE  RequestInv(q)'
  BY DEF RequestInv, Begins, Collects, LengthRead, Answered, Whole, Shifted

\* So does everything of a request when the thread of another makes a step.
LEMMA OthersUntouched ==
    ASSUME DnsUdpInv, NEW r \in Request, Thread(r) \/ Environment(r), NEW q \in Request, q # r
    PROVE  RequestInv(q)'
<1>1. /\ thread'[q] = thread[q] /\ conn'[q] = conn[q] /\ answer'[q] = answer[q] /\ sent'[q] = sent[q]
      /\ prefix'[q] = prefix[q] /\ taken'[q] = taken[q] /\ expected'[q] = expected[q]
      /\ response'[q] = response[q] /\ reply'[q] = reply[q]
  <2> USE DEF DnsUdpInv, DnsTypeOK, server, reading
  <2>1. CASE Connect(r)
    BY <2>1 DEF Connect
  <2>2. CASE WriteRequest(r)
    BY <2>2 DEF WriteRequest
  <2>3. CASE ReadThrows(r)
    BY <2>3 DEF ReadThrows
  <2>4. CASE ReadLength(r)
    BY <2>4 DEF ReadLength
  <2>5. CASE ReadChunk(r)
    BY <2>5 DEF ReadChunk
  <2>6. CASE ReadEof(r)
    BY <2>6 DEF ReadEof
  <2>7. CASE SendReply(r)
    BY <2>7 DEF SendReply
  <2>8. CASE Environment(r)
    BY <2>8 DEF Environment, Arrives, ServerAnswers, ServerSends, ServerEnds
  <2> QED BY <2>1, <2>2, <2>3, <2>4, <2>5, <2>6, <2>7, <2>8 DEF Thread
<1> QED BY <1>1, Untouched DEF DnsUdpInv

-----------------------------------------------------------------------------
(* The invariant.                                                          *)

\* No request has been taken.
LEMMA InvInitially == Init => DnsUdpInv
<1> SUFFICES ASSUME Init PROVE DnsUdpInv
  OBVIOUS
<1>1. DnsTypeOK
  BY DnsUdpAssumption DEF Init, DnsTypeOK, NoAnswer, Stage
<1>2. InboxWaits
  BY DEF Init, InboxWaits
<1>3. \A r \in Request : RequestInv(r)
  BY DEF Init, RequestInv, Begins, Collects, LengthRead, Answered, NoAnswer, Stage
<1> QED BY <1>1, <1>2, <1>3 DEF DnsUdpInv

\* handle_udp starts the thread of a request that has none.
LEMMA HandleKeepsInv ==
    ASSUME DnsUdpInv, handle_udp
    PROVE  DnsUdpInv'
<1> DEFINE r == Head(inbox)
<1>1. /\ inbox # <<>> /\ inbox' = Tail(inbox) /\ thread' = [thread EXCEPT ![r] = "connect"]
      /\ UNCHANGED <<conn, answer, sent, prefix, taken, expected, response, reply>>
  BY DEF handle_udp, recvfrom, server, reading
<1>2. inbox \in Seq(Request) /\ r = inbox[1] /\ r \in Request /\ 1 \in DOMAIN inbox
  BY <1>1 DEF DnsUdpInv, DnsTypeOK
<1>3. thread[r] = "none"
  BY <1>2 DEF DnsUdpInv, InboxWaits
<1>4. \A i \in DOMAIN inbox' : i + 1 \in DOMAIN inbox /\ i \in Nat /\ i + 1 # 1 /\ inbox'[i] = inbox[i + 1]
  BY <1>1, <1>2
<1> HIDE DEF r
<1>5. DnsTypeOK'
  BY <1>1, <1>2 DEF DnsUdpInv, DnsTypeOK, Stage
<1>6. InboxWaits'
  <2>1. \A i, j \in DOMAIN inbox' : inbox'[i] = inbox'[j] => i = j
    BY <1>4 DEF DnsUdpInv, InboxWaits
  <2>2. \A i \in DOMAIN inbox' : inbox'[i] # r /\ thread[inbox'[i]] = "none"
    BY <1>2, <1>4 DEF DnsUdpInv, InboxWaits
  <2>3. \A i \in DOMAIN inbox' : inbox'[i] \in Request
    BY <1>5 DEF DnsTypeOK
  <2> QED BY <1>1, <2>1, <2>2, <2>3 DEF InboxWaits, DnsUdpInv, DnsTypeOK
<1>7. ASSUME NEW q \in Request PROVE RequestInv(q)'
  <2>1. CASE q = r
    BY <1>1, <1>2, <1>3, <2>1
       DEF DnsUdpInv, DnsTypeOK, RequestInv, Begins, Collects, LengthRead, Answered, Stage
  <2>2. CASE q # r
    BY <1>1, <2>2, Untouched DEF DnsUdpInv, DnsTypeOK
  <2> QED BY <2>1, <2>2
<1> QED BY <1>5, <1>6, <1>7 DEF DnsUdpInv

\* The main loop ends, with or without a request in its hands.
LEMMA LoopEndsKeepsInv ==
    ASSUME DnsUdpInv, LoopEnds
    PROVE  DnsUdpInv'
<1>1. /\ UNCHANGED <<thread, conn, answer, sent, prefix, taken, expected, response, reply>>
      /\ inbox' = inbox \/ (inbox # <<>> /\ inbox' = Tail(inbox))
  BY DEF LoopEnds, server, reading
<1>2. \A q \in Request : RequestInv(q)'
  BY <1>1, Untouched DEF DnsUdpInv
<1>3. inbox \in Seq(Request) /\ inbox' \in Seq(Request)
  <2>1. inbox \in Seq(Request)
    BY DEF DnsUdpInv, DnsTypeOK
  <2> QED BY <1>1, <2>1
<1>4. DnsTypeOK'
  BY <1>1, <1>3 DEF DnsUdpInv, DnsTypeOK
<1>5. InboxWaits'
  <2>1. CASE inbox' = inbox
    BY <1>1, <2>1 DEF DnsUdpInv, InboxWaits
  <2>2. CASE inbox # <<>> /\ inbox' = Tail(inbox)
    <3>1. \A i \in DOMAIN inbox' : i + 1 \in DOMAIN inbox /\ i \in Nat /\ inbox'[i] = inbox[i + 1]
      BY <2>2, <1>3
    <3> QED BY <1>1, <3>1 DEF DnsUdpInv, InboxWaits
  <2> QED BY <1>1, <2>1, <2>2
<1> QED BY <1>2, <1>4, <1>5 DEF DnsUdpInv

\* The steps of a thread that only move it on, or end it.
LEMMA MoveKeepsInv ==
    ASSUME DnsUdpInv, NEW r \in Request, Connect(r) \/ WriteRequest(r) \/ ReadThrows(r) \/ ReadEof(r)
    PROVE  DnsTypeOK' /\ InboxWaits' /\ RequestInv(r)'
<1>1. UNCHANGED <<inbox, conn, answer, sent, prefix, taken, expected, response, reply>>
  BY DEF Connect, WriteRequest, ReadThrows, ReadEof, server, reading
<1>2. PICK s \in {"write", "length", "ended"} : thread' = [thread EXCEPT ![r] = s]
  BY DEF Connect, WriteRequest, ReadThrows, ReadEof
<1>3. /\ thread[r] \in {"connect", "write", "length", "body"}
      /\ thread[r] \in {"length", "body"} => s = "ended"
  BY <1>2 DEF Connect, WriteRequest, ReadThrows, ReadEof, DnsUdpInv, DnsTypeOK
<1>4. DnsTypeOK'
  BY <1>1, <1>2 DEF DnsUdpInv, DnsTypeOK, Stage
<1>5. InboxWaits'
  BY <1>1, <1>2, <1>3 DEF DnsUdpInv, DnsTypeOK, InboxWaits
<1>6. RequestInv(r)'
  BY <1>1, <1>2, <1>3
     DEF DnsUdpInv, DnsTypeOK, RequestInv, Begins, Collects, LengthRead, Answered, Whole, Shifted, Stage
<1> QED BY <1>4, <1>5, <1>6

\* The length: of two, one or no byte.
LEMMA ReadLengthKeepsInv ==
    ASSUME DnsUdpInv, NEW r \in Request, ReadLength(r)
    PROVE  DnsTypeOK' /\ InboxWaits' /\ RequestInv(r)'
<1> DEFINE n == Min({2, sent[r]})
<1>1. /\ thread[r] = "length" /\ thread' = [thread EXCEPT ![r] = "body"]
      /\ UNCHANGED <<inbox, conn, answer, sent, response, reply>>
      /\ prefix' = [prefix EXCEPT ![r] = n] /\ taken' = [taken EXCEPT ![r] = n]
  BY DEF ReadLength, server
<1>2. sent[r] \in Nat /\ taken[r] = 0 /\ response[r] = <<>> /\ reply[r] = NoReply
  BY <1>1 DEF DnsUdpInv, DnsTypeOK, RequestInv, Begins, Stage
<1>3. n = IF sent[r] < 2 THEN sent[r] ELSE 2
  BY <1>2 DEF Min
<1>4. PICK e \in response_length(r, n) : expected' = [expected EXCEPT ![r] = e]
  BY DEF ReadLength
<1> HIDE DEF n
<1>5. n \in {0, 1, 2} /\ n <= sent[r]
  BY <1>2, <1>3
<1>6. n = 0 => conn[r] = "fin" /\ sent[r] = 0
  BY <1>2, <1>3 DEF ReadLength, Readable
<1>7. n # 0 => answer[r] \in Nat
  BY <1>2, <1>3, DnsUdpAssumption DEF DnsUdpInv, DnsTypeOK, RequestInv, Begins, NoAnswer
<1>8. e \in Nat /\ (n = 1 => e = (answer[r] \div Base) * Base) /\ (n = 2 => e = answer[r])
  <2>1. CASE n = 0
    BY <1>4, <2>1, DnsUdpAssumption DEF response_length
  <2>2. CASE n = 1
    <3>1. e = (answer[r] \div Base) * Base
      BY <1>4, <2>2 DEF response_length
    <3> QED BY <1>7, <2>2, <3>1, TwoDigits
  <2>3. CASE n = 2
    <3>1. e = (answer[r] \div Base) * Base + (answer[r] % Base)
      BY <1>4, <2>3 DEF response_length
    <3> QED BY <1>7, <2>3, <3>1, TwoDigits
  <2> QED BY <1>5, <2>1, <2>2, <2>3
<1>9. DnsTypeOK'
  BY <1>1, <1>4, <1>5, <1>8 DEF DnsUdpInv, DnsTypeOK, Stage
<1>10. InboxWaits'
  BY <1>1 DEF DnsUdpInv, DnsTypeOK, InboxWaits
<1>11. /\ thread'[r] = "body" /\ prefix'[r] = n /\ taken'[r] = n /\ expected'[r] = e
       /\ response'[r] = <<>> /\ reply'[r] = NoReply
  BY <1>1, <1>2, <1>4 DEF DnsUdpInv, DnsTypeOK
<1>12. Begins(r)' /\ LengthRead(r)' /\ Answered(r)'
  BY <1>1, <1>5, <1>6, <1>8, <1>11 DEF DnsUdpInv, RequestInv, Begins, LengthRead, Answered, Stage
<1>13. Collects(r)'
  <2>1. <<>> = [k \in 1 .. n - n |-> n + k]
    BY <1>5
  <2> QED BY <1>1, <1>5, <1>11, <2>1 DEF Collects
<1> QED BY <1>9, <1>10, <1>12, <1>13 DEF RequestInv

\* A piece of the answer is appended to the response.
LEMMA ReadChunkKeepsInv ==
    ASSUME DnsUdpInv, NEW r \in Request, ReadChunk(r)
    PROVE  DnsTypeOK' /\ InboxWaits' /\ RequestInv(r)'
<1>1. /\ thread[r] = "body" /\ sent[r] > taken[r]
      /\ UNCHANGED <<inbox, thread, conn, answer, sent, prefix, expected, reply>>
      /\ response' = [response EXCEPT ![r] = @ \o [k \in 1 .. sent[r] - taken[r] |-> taken[r] + k]]
      /\ taken' = [taken EXCEPT ![r] = sent[r]]
  BY DEF ReadChunk, server
<1>2. /\ sent[r] \in Nat /\ taken[r] \in Nat /\ prefix[r] \in Nat /\ prefix[r] <= taken[r]
      /\ response[r] = [k \in 1 .. taken[r] - prefix[r] |-> prefix[r] + k]
  BY <1>1 DEF DnsUdpInv, DnsTypeOK, RequestInv, Collects
<1>3. response'[r] = [k \in 1 .. sent[r] - prefix[r] |-> prefix[r] + k]
  <2>1. response'[r] = response[r] \o [k \in 1 .. sent[r] - taken[r] |-> taken[r] + k]
    BY <1>1 DEF DnsUdpInv, DnsTypeOK
  <2>2. taken[r] <= sent[r]
    BY <1>1, <1>2
  <2>3. \A p, t, s \in Nat : p <= t /\ t <= s =>
            [k \in 1 .. t - p |-> p + k] \o [k \in 1 .. s - t |-> t + k] = [k \in 1 .. s - p |-> p + k]
    BY PiecesJoin
  <2>4. [k \in 1 .. taken[r] - prefix[r] |-> prefix[r] + k] \o [k \in 1 .. sent[r] - taken[r] |-> taken[r] + k]
            = [k \in 1 .. sent[r] - prefix[r] |-> prefix[r] + k]
    BY <1>2, <2>2, <2>3, Zenon
  <2> QED BY <1>2, <2>1, <2>4, Zenon
<1>4. taken'[r] = sent[r]
  BY <1>1 DEF DnsUdpInv, DnsTypeOK
<1>5. DnsTypeOK'
  BY <1>1, <1>2 DEF DnsUdpInv, DnsTypeOK
<1>6. InboxWaits'
  BY <1>1 DEF DnsUdpInv, InboxWaits
<1>7. Collects(r)'
  <2>1. prefix[r] <= sent[r] /\ sent[r] <= sent[r]
    BY <1>1, <1>2
  <2>2. sent'[r] = sent[r] /\ prefix'[r] = prefix[r]
    BY <1>1
  <2> QED BY <1>3, <1>4, <2>1, <2>2, Zenon DEF Collects
<1>8. Begins(r)' /\ LengthRead(r)' /\ Answered(r)'
  BY <1>1 DEF DnsUdpInv, RequestInv, Begins, LengthRead, Answered, Whole, Shifted, Stage
<1> QED BY <1>5, <1>6, <1>7, <1>8 DEF RequestInv

\* The reply: a response as long as the length says is the answer, if the length is.
LEMMA SendReplyKeepsInv ==
    ASSUME DnsUdpInv, NEW r \in Request, SendReply(r)
    PROVE  DnsTypeOK' /\ InboxWaits' /\ RequestInv(r)'
<1>1. /\ thread[r] = "body" /\ thread' = [thread EXCEPT ![r] = "ended"]
      /\ UNCHANGED <<inbox, conn, answer, sent, prefix, taken, expected, response>>
      /\ \/ reply' = reply
         \/ /\ Len(response[r]) = expected[r]
            /\ reply' = [reply EXCEPT ![r] = [to |-> r, bytes |-> response[r]]]
  BY DEF SendReply, Requester, server, reading
<1>2. thread'[r] = "ended"
  BY <1>1 DEF DnsUdpInv, DnsTypeOK
<1>3. DnsTypeOK'
  BY <1>1 DEF DnsUdpInv, DnsTypeOK, Stage
<1>4. InboxWaits'
  BY <1>1 DEF DnsUdpInv, DnsTypeOK, InboxWaits
<1>5. Begins(r)' /\ Collects(r)' /\ LengthRead(r)'
  BY <1>1, <1>2 DEF DnsUdpInv, RequestInv, Begins, Collects, LengthRead, Stage
<1>6. CASE reply' = reply
  BY <1>1, <1>3, <1>4, <1>5, <1>6 DEF DnsUdpInv, RequestInv, Answered, Whole, Shifted
<1>7. CASE /\ Len(response[r]) = expected[r]
           /\ reply' = [reply EXCEPT ![r] = [to |-> r, bytes |-> response[r]]]
  <2>1. reply'[r].to = r /\ reply'[r].bytes = response[r]
    BY <1>7 DEF DnsUdpInv, DnsTypeOK
  <2>2. /\ prefix[r] \in {0, 1, 2} /\ taken[r] \in Nat /\ sent[r] \in Nat /\ prefix[r] <= taken[r]
        /\ taken[r] <= sent[r]
        /\ response[r] = [k \in 1 .. taken[r] - prefix[r] |-> prefix[r] + k]
    BY <1>1 DEF DnsUdpInv, DnsTypeOK, RequestInv, Collects, LengthRead
  <2>3. Len(response[r]) = taken[r] - prefix[r]
    BY <2>2
  <2>4. Answered(r)'
    <3>1. CASE prefix[r] = 0
      <4>1. taken[r] = 0
        BY <1>1, <2>2, <3>1 DEF DnsUdpInv, RequestInv, LengthRead
      <4>2. response[r] = <<>>
        BY <2>2, <3>1, <4>1
      <4> QED BY <1>1, <2>1, <3>1, <4>2 DEF Answered
    <3>2. CASE prefix[r] # 0
      <4>1. answer[r] # NoAnswer /\ answer[r] \in Nat
        BY <2>2, <3>2, DnsUdpAssumption DEF DnsUdpInv, DnsTypeOK, RequestInv, Begins, NoAnswer
      <4>2. CASE prefix[r] = 2
        <5>1. taken[r] - prefix[r] = answer[r]
          BY <1>1, <1>7, <2>3, <4>2 DEF DnsUdpInv, RequestInv, LengthRead
        <5>2. response[r] = Whole(r)
          BY <2>2, <4>2, <5>1 DEF Whole
        <5> QED BY <1>1, <2>1, <4>1, <5>2 DEF Answered, Whole
      <4>3. CASE prefix[r] = 1
        <5>1. taken[r] - prefix[r] = (answer[r] \div Base) * Base
          BY <1>1, <1>7, <2>3, <4>3 DEF DnsUdpInv, RequestInv, LengthRead
        <5>2. CASE answer[r] >= Base
          <6>1. response[r] = Shifted(r)
            BY <2>2, <4>3, <5>1 DEF Shifted
          <6> QED BY <1>1, <2>1, <4>1, <4>3, <5>2, <6>1 DEF Answered, Shifted
        <5>3. CASE answer[r] < Base
          <6>1. taken[r] - prefix[r] = 0
            BY <4>1, <5>1, <5>3, TwoDigits
          <6>2. response[r] = <<>>
            BY <2>2, <6>1
          <6> QED BY <1>1, <2>1, <4>3, <6>2 DEF Answered
        <5> QED BY <4>1, <5>2, <5>3, DnsUdpAssumption
      <4> QED BY <2>2, <3>2, <4>2, <4>3
    <3> QED BY <3>1, <3>2
  <2> QED BY <1>3, <1>4, <1>5, <2>4 DEF RequestInv
<1> QED BY <1>1, <1>6, <1>7

\* The requester and the DNS server.
LEMMA EnvironmentKeepsInv ==
    ASSUME DnsUdpInv, NEW r \in Request, Environment(r)
    PROVE  DnsTypeOK' /\ InboxWaits' /\ RequestInv(r)'
<1>1. CASE Arrives(r)
  <2>1. /\ thread[r] = "none" /\ (\A i \in DOMAIN inbox : inbox[i] # r) /\ inbox' = Append(inbox, r)
        /\ UNCHANGED <<thread, conn, answer, sent, prefix, taken, expected, response, reply>>
    BY <1>1 DEF Arrives, server, reading
  <2>2. DnsTypeOK' /\ inbox \in Seq(Request)
    BY <2>1 DEF DnsUdpInv, DnsTypeOK
  <2>3. \A i \in DOMAIN inbox' :
            \/ i \in DOMAIN inbox /\ inbox'[i] = inbox[i]
            \/ i = Len(inbox) + 1 /\ inbox'[i] = r
    BY <2>1, <2>2
  <2>4. InboxWaits'
    BY <2>1, <2>3 DEF DnsUdpInv, InboxWaits
  <2> QED BY <2>1, <2>2, <2>4, Untouched DEF DnsUdpInv
<1>2. CASE ServerAnswers(r)
  <2>1. PICK n \in 0 .. MaxAnswer : answer' = [answer EXCEPT ![r] = n]
    BY <1>2 DEF ServerAnswers
  <2>2. /\ UNCHANGED <<inbox, thread, conn, sent, prefix, taken, expected, response, reply>>
        /\ thread[r] \in {"length", "body"} /\ answer[r] = NoAnswer
    BY <1>2 DEF ServerAnswers, Connected, reading
  <2>3. n \in Nat /\ n # NoAnswer /\ n \in -1 .. MaxAnswer /\ answer'[r] = n
    BY <2>1, DnsUdpAssumption DEF NoAnswer, DnsUdpInv, DnsTypeOK
  <2>4. DnsTypeOK' /\ InboxWaits'
    BY <2>1, <2>2, <2>3 DEF DnsUdpInv, DnsTypeOK, InboxWaits
  <2>5. sent[r] = 0 /\ reply[r] = NoReply
    BY <2>2 DEF DnsUdpInv, RequestInv, Begins
  <2>6. Begins(r)' /\ Collects(r)' /\ Answered(r)'
    <3>1. Begins(r)'
      BY <2>2, <2>3, <2>5 DEF DnsUdpInv, RequestInv, Begins, Stage
    <3>2. Collects(r)'
      BY <2>2 DEF DnsUdpInv, RequestInv, Collects
    <3>3. Answered(r)'
      BY <2>2, <2>5 DEF Answered
    <3> QED BY <3>1, <3>2, <3>3
  \* Bytes of the length are read after the answer has begun.
  <2>7. thread[r] = "body" => prefix[r] = 0
    BY <2>5 DEF DnsUdpInv, DnsTypeOK, RequestInv, Collects
  <2>8. LengthRead(r)'
    BY <2>2, <2>5, <2>7 DEF DnsUdpInv, RequestInv, LengthRead
  <2> QED BY <2>4, <2>6, <2>8 DEF RequestInv
<1>3. CASE ServerSends(r)
  <2>1. /\ conn[r] = "open" /\ answer[r] # NoAnswer
        /\ sent' = [sent EXCEPT ![r] = @ + 1]
        /\ UNCHANGED <<inbox, thread, conn, answer, prefix, taken, expected, response, reply>>
    BY <1>3 DEF ServerSends, reading
  <2>2. sent[r] \in Nat /\ sent'[r] = sent[r] + 1
    BY <2>1 DEF DnsUdpInv, DnsTypeOK
  <2>3. DnsTypeOK' /\ InboxWaits'
    BY <2>1, <2>2 DEF DnsUdpInv, DnsTypeOK, InboxWaits
  <2>4. Begins(r)' /\ LengthRead(r)' /\ Answered(r)'
    BY <2>1 DEF DnsUdpInv, RequestInv, Begins, LengthRead, Answered, Whole, Shifted, Stage
  <2>5. Collects(r)'
    BY <2>1, <2>2 DEF DnsUdpInv, DnsTypeOK, RequestInv, Collects
  <2> QED BY <2>3, <2>4, <2>5 DEF RequestInv
<1>4. CASE ServerEnds(r)
  <2>1. PICK how \in {"fin", "reset"} : conn' = [conn EXCEPT ![r] = how]
    BY <1>4 DEF ServerEnds
  <2>2. /\ conn[r] = "open"
        /\ UNCHANGED <<inbox, thread, answer, sent, prefix, taken, expected, response, reply>>
    BY <1>4 DEF ServerEnds, Connected, reading
  <2>3. DnsTypeOK' /\ InboxWaits'
    BY <2>1, <2>2 DEF DnsUdpInv, DnsTypeOK, InboxWaits
  <2>4. Begins(r)' /\ Collects(r)' /\ Answered(r)'
    BY <2>2 DEF DnsUdpInv, RequestInv, Begins, Collects, Answered, Whole, Shifted, Stage
  <2>5. LengthRead(r)'
    BY <2>2 DEF DnsUdpInv, RequestInv, LengthRead
  <2> QED BY <2>3, <2>4, <2>5 DEF RequestInv
<1> QED BY <1>1, <1>2, <1>3, <1>4 DEF Environment

-----------------------------------------------------------------------------
(* The theorems.                                                           *)

\* The invariant holds in every state.
THEOREM DnsUdpSafe == Spec => []DnsUdpInv
<1>1. Init => DnsUdpInv
  BY InvInitially
<1>2. DnsUdpInv /\ [Next]_vars => DnsUdpInv'
  <2> SUFFICES ASSUME DnsUdpInv, [Next]_vars PROVE DnsUdpInv'
    OBVIOUS
  <2>1. CASE handle_udp \/ LoopEnds
    BY <2>1, HandleKeepsInv, LoopEndsKeepsInv
  <2>2. ASSUME NEW r \in Request, Thread(r) \/ Environment(r) PROVE DnsUdpInv'
    <3>1. DnsTypeOK' /\ InboxWaits' /\ RequestInv(r)'
      BY <2>2, MoveKeepsInv, ReadLengthKeepsInv, ReadChunkKeepsInv, SendReplyKeepsInv, EnvironmentKeepsInv
         DEF Thread
    <3>2. \A q \in Request : q # r => RequestInv(q)'
      BY <2>2, OthersUntouched
    <3> QED BY <3>1, <3>2 DEF DnsUdpInv
  <2>3. CASE UNCHANGED vars
    <3>1. \A r \in Request : RequestInv(r)'
      BY <2>3, Untouched DEF vars, DnsUdpInv
    <3> QED BY <2>3, <3>1 DEF vars, DnsUdpInv, DnsTypeOK, InboxWaits
  <2> QED BY <2>1, <2>2, <2>3 DEF Next
<1> QED BY <1>1, <1>2, PTL DEF Spec

\* A reply of handle_udp is the whole answer to the request it goes to, unless its length
\* came in pieces.
THEOREM RepliesAlwaysAnswers == Spec => []RepliesAreAnswers
<1>1. DnsUdpInv => RepliesAreAnswers
  BY DEF DnsUdpInv, RequestInv, Answered, RepliesAreAnswers
<1> QED BY <1>1, DnsUdpSafe, PTL
=============================================================================

--------------------------------- MODULE DnsUdp ---------------------------------
(***************************************************************************)
(* The UDP half of the DNS proxy.  The main loop takes a request from the  *)
(* UDP socket and starts a detached thread for it; the thread passes the   *)
(* request to the DNS server over a TCP connection of its own, reads the   *)
(* answer back, a 16-bit length first, and sends it to the requester from  *)
(* the socket all of them share.  When the main loop ends, by a signal or  *)
(* because no thread could be started, that socket is closed while threads *)
(* still run.                                                              *)
(*                                                                         *)
(* TCP delivers an answer in pieces of any size.  The wire bytes of an     *)
(* answer of n bytes are numbered 1 to n + 2, the length being bytes 1 and *)
(* 2, and a byte is its number.                                            *)
(***************************************************************************)
EXTENDS Integers, Sequences, FiniteSets, FiniteSetsExt

CONSTANTS
    Request,        \* the requests; each is also its requester's address
    Base,           \* how many values a byte has: 256
    MaxAnswer,      \* bound on the length of an answer
    ThreadLimits,   \* how many threads the process may have
    MaxDatagram,    \* the longest payload sendto accepts: 65507
    NoReply

ASSUME DnsUdpAssumption ==
    /\ Base \in Nat \ {0, 1} /\ MaxAnswer \in 0 .. Base * Base - 1
    /\ MaxDatagram \in Nat /\ ThreadLimits \subseteq Nat \ {0}

NoAnswer == -1

VARIABLES
    limit,      \* how many threads the process may have
    open,       \* the main loop runs and the UDP socket is open
    inbox,      \* the datagrams in the UDP socket
    request,    \* the local variable of handle_udp; a set with at most one request
    thread,     \* of each request: "none", "connect", "write", "length", "body" or "ended"
    conn,       \* the connection to the DNS server: "open", "fin" or "reset" by it
    answer,     \* the length of the answer the DNS server is giving
    sent,       \* how many of its wire bytes have been sent
    prefix,     \* how many bytes the read of the length returned
    taken,      \* how many of its wire bytes have been read
    expected,   \* response_length
    response,   \* the bytes read as the response
    reply       \* the datagram sent back, if any

vars == <<limit, open, inbox, request, thread, conn, answer, sent, prefix, taken, expected, response, reply>>

server == <<conn, answer, sent>>
reading == <<prefix, taken, expected, response>>

Init ==
    /\ limit \in ThreadLimits /\ open = TRUE /\ inbox = <<>> /\ request = {}
    /\ thread = [r \in Request |-> "none"]
    /\ conn = [r \in Request |-> "open"]
    /\ answer = [r \in Request |-> NoAnswer]
    /\ sent = [r \in Request |-> 0]
    /\ prefix = sent /\ taken = sent /\ expected = sent
    /\ response = [r \in Request |-> <<>>]
    /\ reply = [r \in Request |-> NoReply]

-----------------------------------------------------------------------------
(* The main loop and the threads.                                          *)

\* The oldest datagram in the socket, with the address it came from.
recvfrom == Head(inbox)

Running == {r \in Request : thread[r] \notin {"none", "ended"}}

\* handle_udp: the thread gets a copy of the request.
handle_udp ==
    /\ open
    /\ inbox # <<>>
    /\ Cardinality(Running) < limit
    /\ inbox' = Tail(inbox)
    /\ request' = {recvfrom}
    /\ thread' = [thread EXCEPT ![recvfrom] = "connect"]
    /\ UNCHANGED <<limit, open, server, reading, reply>>

\* The constructor of thread throws out of the main loop, or that ends by a signal
\* or with a child: the proxy is destroyed, the detached threads are not.
LoopEnds ==
    /\ open
    /\ open' = FALSE
    /\ \/ /\ inbox # <<>> /\ Cardinality(Running) = limit
          /\ inbox' = Tail(inbox)
       \/ inbox' = inbox
    /\ UNCHANGED <<limit, request, thread, server, reading, reply>>

\* The thread's own connection; what fails throws, and the thread ends.
Connect(r) ==
    /\ thread[r] = "connect"
    /\ \E next \in {"write", "ended"} : thread' = [thread EXCEPT ![r] = next]
    /\ UNCHANGED <<limit, open, inbox, request, server, reading, reply>>

\* The request with its length in front is written in full.  A UDP payload is shorter
\* than 2^16, so that the length fits; the content of a request is not looked at.
WriteRequest(r) ==
    /\ thread[r] = "write"
    /\ \/ thread' = [thread EXCEPT ![r] = "length"]
       \/ conn[r] = "reset" /\ thread' = [thread EXCEPT ![r] = "ended"]
    /\ UNCHANGED <<limit, open, inbox, request, server, reading, reply>>

\* A read finds something: bytes that have arrived, or the end of the stream.
Readable(r) == sent[r] > taken[r] \/ conn[r] = "fin"

\* The connection was reset and nothing is left to read: the read throws.
ReadThrows(r) ==
    /\ \/ thread[r] = "length"
       \/ thread[r] = "body" /\ Len(response[r]) < expected[r]
    /\ conn[r] = "reset" /\ sent[r] = taken[r]
    /\ thread' = [thread EXCEPT ![r] = "ended"]
    /\ UNCHANGED <<limit, open, inbox, request, server, reading, reply>>

\* The two bytes at response_length_raw.data(), as a big-endian number, when the
\* string has n bytes.  After one byte comes the terminating zero of the string; an
\* empty string has its zero first and an indeterminate byte behind.
response_length(r, n) ==
    CASE n = 2 -> {(answer[r] \div Base) * Base + (answer[r] % Base)}
      [] n = 1 -> {(answer[r] \div Base) * Base}
      [] OTHER -> 0 .. Base - 1

\* read( 2 ) returns what there is of the two bytes, and the code does not look how
\* many that are.
ReadLength(r) ==
    /\ thread[r] = "length" /\ Readable(r)
    /\ LET n == Min({2, sent[r]})
       IN  /\ prefix' = [prefix EXCEPT ![r] = n]
           /\ taken' = [taken EXCEPT ![r] = n]
           /\ \E length \in response_length(r, n) : expected' = [expected EXCEPT ![r] = length]
    /\ thread' = [thread EXCEPT ![r] = "body"]
    /\ UNCHANGED <<limit, open, inbox, request, server, response, reply>>

\* Fault: one read is taken for the whole response.
ReadChunkOnce(r) ==
    /\ thread[r] = "body" /\ Len(response[r]) < expected[r]
    /\ sent[r] > taken[r]
    /\ response' = [response EXCEPT ![r] = [k \in 1 .. sent[r] - taken[r] |-> taken[r] + k]]
    /\ taken' = [taken EXCEPT ![r] = sent[r]]
    /\ thread' = [thread EXCEPT ![r] = IF Len(response'[r]) < expected[r] THEN "ended" ELSE "body"]
    /\ UNCHANGED <<limit, open, inbox, request, server, prefix, expected, reply>>

\* The loop: while the response is too short, all that has arrived is appended.
ReadChunk(r) ==
    /\ thread[r] = "body" /\ Len(response[r]) < expected[r]
    /\ sent[r] > taken[r]
    /\ response' = [response EXCEPT ![r] = @ \o [k \in 1 .. sent[r] - taken[r] |-> taken[r] + k]]
    /\ taken' = [taken EXCEPT ![r] = sent[r]]
    /\ UNCHANGED <<limit, open, inbox, request, thread, server, prefix, expected, reply>>

\* Fault: an empty read does not leave the loop.
ReadEofAgain(r) ==
    /\ thread[r] = "body" /\ Len(response[r]) < expected[r]
    /\ conn[r] = "fin" /\ sent[r] = taken[r]
    /\ UNCHANGED vars

\* An empty read leaves the loop with a response that is too short, which throws.
ReadEof(r) ==
    /\ thread[r] = "body" /\ Len(response[r]) < expected[r]
    /\ conn[r] = "fin" /\ sent[r] = taken[r]
    /\ thread' = [thread EXCEPT ![r] = "ended"]
    /\ UNCHANGED <<limit, open, inbox, request, server, reading, reply>>

\* Fault: the thread refers to the variable of handle_udp instead of its copy.
LastRequest(r) == CHOOSE q \in request : TRUE

\* request.first, of the copy of the thread.
Requester(r) == r

\* sendto throws for what is longer than a datagram.
CanSend(bytes) == Len(bytes) <= MaxDatagram

\* The loop ends with a response that is long enough: one that is too long, or longer
\* than a datagram, throws; so does a socket that is closed.  (A connection of another
\* thread may have taken its number: then that DNS server gets the bytes, and no requester.)
SendReply(r) ==
    /\ thread[r] = "body" /\ Len(response[r]) >= expected[r]
    /\ thread' = [thread EXCEPT ![r] = "ended"]
    /\ IF open /\ Len(response[r]) = expected[r] /\ CanSend(response[r])
       THEN reply' = [reply EXCEPT ![r] = [to |-> Requester(r), bytes |-> response[r]]]
       ELSE reply' = reply
    /\ UNCHANGED <<limit, open, inbox, request, server, reading>>

Thread(r) == Connect(r) \/ WriteRequest(r) \/ ReadThrows(r) \/ ReadLength(r) \/ ReadChunk(r)
                \/ ReadEof(r) \/ SendReply(r)

-----------------------------------------------------------------------------
(* The requesters and the DNS server (external).                           *)

\* A request arrives at the UDP socket.
Arrives(r) ==
    /\ thread[r] = "none" /\ \A i \in DOMAIN inbox : inbox[i] # r
    /\ inbox' = Append(inbox, r)
    /\ UNCHANGED <<limit, open, request, thread, server, reading, reply>>

\* The connection of the thread exists and the DNS server has not ended it.
Connected(r) == thread[r] \in {"write", "length", "body"} /\ conn[r] = "open"

\* The DNS server has the request and begins an answer of some length.
ServerAnswers(r) ==
    /\ Connected(r) /\ thread[r] # "write" /\ answer[r] = NoAnswer
    /\ \E n \in 0 .. MaxAnswer : answer' = [answer EXCEPT ![r] = n]
    /\ UNCHANGED <<limit, open, inbox, request, thread, conn, sent, reading, reply>>

\* One more byte of it; the thread may have given up without the DNS server knowing.
ServerSends(r) ==
    /\ conn[r] = "open" /\ answer[r] # NoAnswer /\ sent[r] < answer[r] + 2
    /\ sent' = [sent EXCEPT ![r] = @ + 1]
    /\ UNCHANGED <<limit, open, inbox, request, thread, conn, answer, reading, reply>>

\* The DNS server closes or resets the connection, in the middle of an answer too.
ServerEnds(r) ==
    /\ Connected(r)
    /\ \E how \in {"fin", "reset"} : conn' = [conn EXCEPT ![r] = how]
    /\ UNCHANGED <<limit, open, inbox, request, thread, answer, sent, reading, reply>>

Environment(r) == Arrives(r) \/ ServerAnswers(r) \/ ServerSends(r) \/ ServerEnds(r)

Next == handle_udp \/ LoopEnds \/ \E r \in Request : Thread(r) \/ Environment(r)

Spec == Init /\ [][Next]_vars

\* The main loop and the threads run; nothing is assumed of the DNS server.
Fairness == WF_vars(handle_udp) /\ \A r \in Request : WF_vars(Thread(r))

FairSpec == Spec /\ Fairness

-----------------------------------------------------------------------------
(* Properties.                                                             *)

\* The bytes of the whole answer, without its length.
Whole(r) == [k \in 1 .. answer[r] |-> k + 2]

\* The second byte of the length and what follows it, as long as the first byte of the
\* length says.
Shifted(r) == [k \in 1 .. (answer[r] \div Base) * Base |-> k + 1]

\* However the requests overlap and the answers are cut, a reply of handle_udp goes to
\* the requester and is the whole answer to its request: never one that the DNS server
\* broke off.  The one exception is a length that does not arrive in one piece: the
\* reply may then be empty or, if the answer is so long that the first byte of its
\* length is not zero, shifted.
RepliesAreAnswers ==
    \A r \in Request :
        reply[r] # NoReply =>
            /\ reply[r].to = r
            /\ \/ answer[r] # NoAnswer /\ reply[r].bytes = Whole(r)
               \/ prefix[r] < 2 /\ reply[r].bytes = <<>>
               \/ prefix[r] = 1 /\ answer[r] >= Base /\ reply[r].bytes = Shifted(r)

\* An answer that was sent in full and fits a datagram is sent to its requester, if its
\* length was read in one piece, in however many pieces the loop of handle_udp reads
\* the rest, and whatever the DNS server does with the connection afterwards; unless the
\* main loop ends.
AnswersForwarded ==
    \A r \in Request :
        (/\ prefix[r] = 2 /\ sent[r] = answer[r] + 2
         /\ answer[r] <= MaxDatagram)
            ~> reply[r] = [to |-> r, bytes |-> Whole(r)] \/ ~open

\* The detached thread of handle_udp ends, and frees its connection, once the DNS server
\* has given its answer or has ended the connection, also in the middle of the answer,
\* and also when the main loop has ended before.
ThreadsEnd ==
    \A r \in Request :
        (answer[r] # NoAnswer /\ sent[r] = answer[r] + 2) \/ conn[r] # "open"
            ~> thread[r] = "ended"
=============================================================================

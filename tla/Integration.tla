---------------------------- MODULE Integration ----------------------------
(***************************************************************************)
(* The loopback consumer (scripts/integ_http11.c): one thread plays both   *)
(* ends of an exchange over TCP.  It sends a request whose body is         *)
(* followed by a chunked upload, runs the server (streaming head parse,    *)
(* carry-over, chunked decode, reply, close), then reads the reply as the  *)
(* client.  Streams are offsets: a byte is its place in what was sent.     *)
(*                                                                         *)
(* The parsers under test answer what the fixtures hold when they are      *)
(* correct, and anything that lies within the bytes and the array they     *)
(* were given when they are not; given memory that was never received,     *)
(* they may also take the process down.                                    *)
(***************************************************************************)
EXTENDS Integers

CONSTANTS
  Fixtures,  \* sizes of the traffic, the reads and the buffers
  SockBuf,   \* bytes the stack takes in before a send blocks
  BufAt,     \* the address of the server's buffer
  SizeMod    \* one more than the largest size_t

Sides == {"server", "client"}

(***************************************************************************)
(* data[o] is the number of body bytes among the first o of the coding,    *)
(* first the number of bytes through the first CRLF of the request.  The   *)
(* first send must not block: nobody reads yet.                            *)
(***************************************************************************)
ASSUME FixturesAssumption ==
  \A f \in Fixtures :
    /\ f.correct \subseteq BOOLEAN
    /\ f.buf \in Nat /\ f.decoded \in Nat \ {0} /\ f.headers_max \in Nat
    /\ f["client"].skip = 0
    /\ f["server"].first \in 2 .. f["server"].head /\ f["server"].first <= f.buf
    /\ \A s \in Sides :
         /\ f[s].head \in Nat /\ f[s].skip \in Nat /\ f[s].coding \in Nat
         /\ f[s].head + f[s].skip + f[s].coding <= SockBuf
         /\ f[s].ends \in Nat /\ f[s].headers \in 0 .. f.headers_max
         /\ f[s].read \in Nat /\ f[s].bodyread \in Nat
         /\ f[s].data \in [0 .. f[s].coding -> Nat]
         /\ \A o, p \in 0 .. f[s].coding : o <= p => f[s].data[o] <= f[s].data[p]

(* The buffer is somewhere in the address space, and less than half of it. *)
ASSUME AddressAssumption ==
  /\ BufAt \in Nat \ 0 .. 2 /\ SizeMod \in Nat
  /\ \A f \in Fixtures : BufAt + f.buf < SizeMod /\ 2 * f.buf < SizeMod

(***************************************************************************)
(* Traffic laid out for reads that return all there is, the k-th of which  *)
(* completes the head: that read brings the body along, and of those that  *)
(* follow none stops between the end of the coding and the last byte sent. *)
(***************************************************************************)
Completes(e, k) == e.head <= k * e.read /\ (k - 1) * e.read < e.head

LaidOut(e) ==
  \A k \in 1 .. e.head : Completes(e, k) =>
    /\ e.head + e.skip <= k * e.read
    /\ \A j \in 0 .. e.coding, o \in e.ends .. e.coding - 1 :
         k * e.read + j * e.bodyread # e.head + e.skip + o

(* The reads ask for something, and what they bring has room. *)
Fits(f, e) ==
  /\ e.head > 0 /\ e.read > 0 /\ e.bodyread > 0
  /\ e.coding > 0 /\ e.ends <= e.coding
  /\ e.head + e.read <= f.buf /\ e.data[e.coding] - e.data[0] < f.decoded

ASSUME LayoutAssumption ==
  \A f \in Fixtures : TRUE \in f.correct =>
    /\ \A s \in Sides : Fits(f, f[s]) /\ LaidOut(f[s])
    /\ f["server"].headers > 0
    /\ f["client"].ends = f["client"].coding

VARIABLES
  fx,          \* the fixture in use
  correct,     \* the parsers are correct
  whole,       \* recv waits for nothing: it returns all there is, up to its size
  phase,       \* what main is at
  inflight,    \* bytes sent and not received by the end that runs
  unread,      \* the server closed with bytes not received
  have, prev,  \* bytes buffered, and as many as the last parse was given
  num_headers, \* the capacity passed, and the count returned
  headlen,     \* the length of the parsed head
  hs, hlen,    \* the header block parsed once more: its address and size
  have2, from, \* bytes staged for the decoder, and the stream offset of the first
  handed,      \* history: the stream offset up to which bytes were decoded
  dec,         \* the decoder on the stack: "garbage", or zeroed ("ready")
  dlen,        \* bytes decoded
  rc           \* the exit status

wire    == <<inflight, unread>>
block   == <<hs, hlen>>
head    == <<have, prev, num_headers, headlen, block>>
staging == <<have2, from, handed, dec, dlen>>
vars    == <<fx, correct, whole, phase, wire, head, staging, rc>>

Side == IF phase \in {"client_head", "client_carry", "client_body"}
          THEN "client" ELSE "server"
Me   == fx[Side]

Total(s) == fx[s].head + fx[s].skip + fx[s].coding

(* The locals of run_server and client_read_phase as they are entered. *)
Entered ==
  /\ have' = 0 /\ prev' = 0 /\ num_headers' = 0 /\ headlen' = 0
  /\ hs' = 0 /\ hlen' = 0
  /\ have2' = 0 /\ from' = 0 /\ handed' = 0 /\ dlen' = 0
  /\ dec' = "garbage"

Init ==
  /\ fx \in Fixtures /\ correct \in fx.correct /\ whole \in BOOLEAN
  /\ phase = "setup"
  /\ inflight = 0 /\ unread = FALSE
  /\ have = 0 /\ prev = 0 /\ num_headers = 0 /\ headlen = 0
  /\ hs = 0 /\ hlen = 0
  /\ have2 = 0 /\ from = 0 /\ handed = 0 /\ dlen = 0 /\ dec = "garbage"
  /\ rc = 0

Fail == phase' = "done" /\ rc' = 1

(* The process dies by a signal. *)
Signalled == 139
Crash == phase' = "crashed" /\ rc' = Signalled

Go(next) == phase' = next /\ rc' = rc

-----------------------------------------------------------------------------
(* Sockets, connection, timeouts: any call may fail. *)
Setup ==
  /\ phase = "setup"
  /\ Go("client_send") \/ Fail
  /\ UNCHANGED <<fx, correct, whole, wire, head, staging>>

(* send_all takes all of n bytes, once the stack has room for them. *)
SendAll(n) ==
  /\ inflight + n <= SockBuf
  /\ inflight' = inflight + n
  /\ UNCHANGED unread

(* The head in two pieces, the body and the upload: one after the other,   *)
(* with nobody reading yet.                                                *)
ClientSend ==
  /\ phase = "client_send"
  /\ \/ /\ SendAll(Total("server"))
        /\ Entered
        /\ Go("server_head")
     \/ Fail /\ UNCHANGED <<wire, head, staging>>
  /\ UNCHANGED <<fx, correct, whole>>

(***************************************************************************)
(* recv of up to size bytes: what is there, or part of it; 0 or an error   *)
(* when nothing comes before the timeout, when the peer has closed, or     *)
(* when its close cut the connection.                                      *)
(***************************************************************************)
Smaller(a, b) == IF a < b THEN a ELSE b

BugNoTimeout(size) == 1 .. Smaller(size, inflight)
Recvd(size) ==
  LET most == Smaller(size, inflight) IN
  (IF most = 0 \/ unread THEN {0} ELSE {})
    \cup (IF whole /\ most > 0 THEN {most} ELSE 1 .. most)

(***************************************************************************)
(* What a head parser answers, given len bytes, the hint and the capacity: *)
(* the length of the head, or PARTIAL (-2) or an error (-1), with the      *)
(* count it leaves behind.                                                 *)
(***************************************************************************)
HeadAnswers(len, last_len, capacity) ==
  IF ~correct
    THEN [ret : {-2, -1} \cup 0 .. len, count : {0, capacity}]
  ELSE IF len < Me.head THEN [ret : {-2}, count : 0 .. Me.headers]
  ELSE IF last_len >= Me.head THEN [ret : {-2}, count : {0}]
  ELSE IF capacity < Me.headers THEN [ret : {-1}, count : {capacity}]
  ELSE [ret : {Me.head}, count : {Me.headers}]

(***************************************************************************)
(* One turn of a head loop: receive r bytes, parse all there are with the  *)
(* full capacity, and the length of the call before as the hint.           *)
(***************************************************************************)
BugCapacityKept == IF have = 0 THEN fx.headers_max ELSE num_headers
Capacity == fx.headers_max

HeadTurn(r, next) ==
  \E a \in HeadAnswers(have + r, prev, Capacity) :
    /\ inflight' = inflight - r
    /\ have' = have + r /\ prev' = have + r
    /\ num_headers' = a.count
    /\ headlen' = a.ret
    /\ CASE a.ret = -2 -> Go(phase)
         [] a.ret = -1 -> Fail
         [] a.ret >= 0 -> Go(next)
    /\ UNCHANGED <<fx, correct, whole, unread, block, staging>>

RecvFails == Fail /\ UNCHANGED <<fx, correct, whole, wire, head, staging>>

(* run_server reads at most what its buffer has room for: nothing, at last. *)
ServerHead ==
  /\ phase = "server_head"
  /\ \E r \in Recvd(Smaller(Me.read, fx.buf - have)) :
       IF r = 0 THEN RecvFails ELSE HeadTurn(r, "server_headers")

(* client_read_phase receives into a small buffer first. *)
Overflows(r) == have + r > fx.buf

ClientHead ==
  /\ phase = "client_head"
  /\ \E r \in Recvd(Me.read) :
       IF r = 0 \/ Overflows(r) THEN RecvFails ELSE HeadTurn(r, "client_carry")

-----------------------------------------------------------------------------
(***************************************************************************)
(* Arithmetic of size_t, and its conversion to int: the block's size is a  *)
(* difference of places in a buffer, whose low bits are the difference.    *)
(***************************************************************************)
SizeT(n) == IF n < 0 THEN n + SizeMod ELSE n
AsInt(n) == IF 2 * n < SizeMod THEN n ELSE n - SizeMod

(* The bytes received so far. *)
Received(at, n) == BufAt <= at /\ at + n <= BufAt + have

(***************************************************************************)
(* What phr_parse_headers answers, given n bytes at address at, as far as  *)
(* the checks tell: a length, PARTIAL (-2) or an error (-1); a count;      *)
(* whether its first header is that of the request.                        *)
(***************************************************************************)
HeadersAnswers(at, n) ==
  IF ~correct \/ at # BufAt + Me.first \/ n # Me.head - Me.first
    THEN [ret : {a \in {-2, -1, 0, AsInt(n)} : a >= -2},
          count : {0, num_headers, Capacity}, same : BOOLEAN]
  ELSE [ret : {n}, count : {Me.headers}, same : {TRUE}]

(***************************************************************************)
(* The header block is parsed once more on its own, and must agree.  It    *)
(* begins two past what strstr returns, which is the first CRLF received   *)
(* or NULL, and ends with the head: a head that ends before it begins has  *)
(* a block of a size that wraps.                                           *)
(***************************************************************************)
PastFirstLine == IF have < Me.first THEN 0 + 2 ELSE BufAt + Me.first

BugWholeHead == headlen
BlockSize == SizeT(BufAt + headlen - PastFirstLine)

ServerHeaders ==
  /\ phase = "server_headers"
  /\ hs' = PastFirstLine
  /\ hlen' = BlockSize
  /\ \/ \E a \in HeadersAnswers(hs', hlen') :
          IF a.ret = AsInt(hlen') /\ a.count = num_headers /\ a.count > 0 /\ a.same
            THEN Go("server_carry") ELSE Fail
     \/ ~Received(hs', hlen') /\ Crash
  /\ UNCHANGED <<fx, correct, whole, wire, have, prev, num_headers, headlen, staging>>

(***************************************************************************)
(* What follows the head has partly been read already: past the body that  *)
(* Content-Length announces, it goes to the stage of a zeroed decoder.     *)
(***************************************************************************)
BugBodyNotSkipped(skip) == headlen
Carried(skip) == headlen + skip

Stage(skip, next) ==
  /\ from' = Carried(skip) /\ have2' = have - Carried(skip)
  /\ handed' = headlen + skip
  /\ dec' = "ready" /\ dlen' = 0
  /\ prev' = 0
  /\ Go(next)
  /\ UNCHANGED <<have, num_headers, headlen, block>>

BugUnchecked(skip) == TRUE
WithinBuffered(skip) == headlen + skip <= have

(* A defective parser may return another header as Content-Length, of a    *)
(* value that is no number or any number in the traffic.                   *)
ServerCarry ==
  /\ phase = "server_carry"
  /\ \/ \E skip \in IF correct THEN {Me.skip} ELSE {0, Me.skip, fx.buf} :
          IF WithinBuffered(skip) THEN Stage(skip, "server_body")
                                  ELSE Fail /\ UNCHANGED <<head, staging>>
     \/ ~correct /\ Fail /\ UNCHANGED <<head, staging>>
  /\ UNCHANGED <<fx, correct, whole, wire>>

ClientCarry ==
  /\ phase = "client_carry"
  /\ Stage(0, "client_body")
  /\ UNCHANGED <<fx, correct, whole, wire>>

(***************************************************************************)
(* What the decoder answers to the n bytes at offset o of the stream: the  *)
(* bytes it delivers, and PARTIAL (-2), an error (-1) or the bytes left    *)
(* over.  A correct one needs to have been zeroed, and to be given every   *)
(* byte once and in order.                                                 *)
(***************************************************************************)
DecodeAnswers(o, n) ==
  LET coding == Me.head + Me.skip
      end    == coding + Me.ends
  IN IF ~correct \/ dec # "ready" \/ o # handed
       THEN [ret : -2 .. n, out : 0 .. n, intact : BOOLEAN]
     ELSE [ret : {IF o + n < end THEN -2 ELSE o + n - end},
           out : {Me.data[o + n - coding] - Me.data[o - coding]}, intact : {TRUE}]

BugRoomForOneLess(out) == out > 0 /\ dlen + out > fx.decoded
NoRoom(out) == out > 0 /\ dlen + out >= fx.decoded

(* One call of the decoder; leftovers are the numbers of bytes left over   *)
(* that the end of the body may have.                                      *)
DecodeTurn(o, n, leftovers, next) ==
  \E a \in DecodeAnswers(o, n) :
    /\ from' = o /\ have2' = 0
    /\ handed' = o + n
    /\ dlen' = IF NoRoom(a.out) THEN dlen ELSE dlen + a.out
    /\ \/ ~NoRoom(a.out) /\ a.ret = -2 /\ Go(phase)
       \/ ~NoRoom(a.out) /\ a.ret >= 0 /\ a.intact /\ a.ret \in leftovers /\ Go(next)
       \/ /\ \/ NoRoom(a.out) \/ a.ret = -1
             \/ a.ret >= 0 /\ ~(a.intact /\ a.ret \in leftovers)
          /\ Fail
    /\ UNCHANGED <<head, dec>>

(* The stage first; then what recv brings, which is the next of the stream. *)
Body(size, leftovers, next) ==
  /\ UNCHANGED <<fx, correct, whole, unread>>
  /\ IF have2 > 0 THEN DecodeTurn(from, have2, leftovers, next) /\ UNCHANGED inflight
     ELSE \E r \in Recvd(size) :
            /\ inflight' = inflight - r
            /\ IF r = 0 THEN Fail /\ UNCHANGED <<head, staging>>
               ELSE DecodeTurn(Total(Side) - inflight, r, leftovers, next)

ServerBody == phase = "server_body" /\ Body(Me.bodyread, Nat, "server_reply")

ClientBody == phase = "client_body" /\ Body(Me.bodyread, {0}, "done")

(* The reply is sent and the socket closed; what the server did not read   *)
(* makes the close cut the connection.                                     *)
ServerReply ==
  /\ phase = "server_reply"
  /\ \/ /\ inflight' = Total("client")
        /\ unread' = (inflight > 0)
        /\ Entered
        /\ Go("client_head")
     \/ Fail /\ UNCHANGED <<wire, head, staging>>
  /\ UNCHANGED <<fx, correct, whole>>

Next ==
  \/ Setup \/ ClientSend
  \/ ServerHead \/ ServerHeaders \/ ServerCarry \/ ServerBody \/ ServerReply
  \/ ClientHead \/ ClientCarry \/ ClientBody

Spec == Init /\ [][Next]_vars

(* One thread, whose every recv times out. *)
FairSpec == Spec /\ WF_vars(Next)

-----------------------------------------------------------------------------
(***************************************************************************)
(* The variables have their types: what the consumer counts of the bytes   *)
(* it buffers and stages is never negative, as a size_t would wrap.  The   *)
(* size of the block it parses once more is a size_t that may have.        *)
(***************************************************************************)
IntegrationTypeOK ==
  /\ fx \in Fixtures /\ correct \in BOOLEAN /\ whole \in BOOLEAN
  /\ phase \in {"setup", "client_send", "server_head", "server_headers",
       "server_carry", "server_body", "server_reply", "client_head",
       "client_carry", "client_body", "done", "crashed"}
  /\ inflight \in Nat /\ unread \in BOOLEAN
  /\ have \in Nat /\ prev \in Nat /\ headlen \in -2 .. have
  /\ hs \in Nat /\ hlen \in 0 .. SizeMod - 1
  /\ num_headers \in 0 .. fx.headers_max
  /\ have2 \in Nat /\ from \in Nat /\ handed \in Nat
  /\ dec \in {"garbage", "ready"}
  /\ dlen \in Nat /\ rc \in {0, 1, Signalled}

(***************************************************************************)
(* Whatever the parsers answer, what the consumer writes stays within its  *)
(* buffers, the terminating zero of the decoded body included.  What it    *)
(* has parsed once more was received, unless the parser under test found   *)
(* a head that ends within the first line: nothing checks for that one.    *)
(***************************************************************************)
ShortHead == headlen < fx["server"].first

BuffersHold ==
  /\ have <= fx.buf /\ have2 <= fx.buf /\ dlen < fx.decoded
  /\ hs # 0 /\ ~Received(hs, hlen) => ~correct /\ ShortHead

(***************************************************************************)
(* "A parser defect that stalls delivery must FAIL, never hang the run     *)
(* forever": every run ends, with correct parsers and with any other.      *)
(***************************************************************************)
RunEnds == <>(phase \in {"done", "crashed"})

(***************************************************************************)
(* "Carries over ... never re-recv'd", "each call supplies only NEWLY      *)
(* arrived bytes": the decoder is given every byte of the stream past the  *)
(* head and the body once, in order, wherever the reads cut it.            *)
(***************************************************************************)
HandedOnce ==
  [][(phase \in {"server_body", "client_body"} /\ handed' # handed)
       => from' = handed]_vars

(***************************************************************************)
(* With correct parsers, and reads that return all there is, the exchange  *)
(* succeeds: the full capacity on every call, the hint of the call before, *)
(* the arithmetic of the carry-over, a decoder zeroed for each of the two  *)
(* bodies, the trailer consumed, nothing unread when the server closes.    *)
(***************************************************************************)
Exchanging == phase \notin {"setup", "client_send", "server_reply"}

CorrectRunPasses == [][correct /\ whole /\ Exchanging => rc' = 0]_vars

(***************************************************************************)
(* "Delivery splits at deterministic boundaries", "output is fully         *)
(* deterministic": so it would be wherever recv cuts the stream.           *)
(***************************************************************************)
SplitsAreDeterministic == [][correct /\ Exchanging => rc' = 0]_vars
=============================================================================

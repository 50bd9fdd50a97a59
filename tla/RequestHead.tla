------------------------------ MODULE RequestHead ------------------------------
(***************************************************************************)
(* The start of a proxied connection, proxyClientActiveSocket.c: the head  *)
(* of the first request arrives in pieces, the client handler finds the    *)
(* origin server in its first line or in a Host line, a resolver thread    *)
(* connects, and the block handler starts the relay.  A head is a sequence *)
(* of tokens: EOL ends a line, a line of EOL alone ends the head, and the  *)
(* first token of a line says what the line is.  The relay is modelled as  *)
(* far as the head goes; module Relay has the rest of it.                  *)
(***************************************************************************)
EXTENDS Integers, Sequences

CONSTANTS
    Heads,          \* the request heads
    BufferSpace,    \* tokens a buffer holds, 7999
    LineSize        \* the longest line that is read, 1000

EOL == "EOL"

\* an absolute URL; CONNECT; a URL that cannot be used; any other first line;
\* a Host line, and one whose host cannot be parsed; the other lines and the
\* middles of lines
Tokens == {EOL, "absolute", "CONNECT", "bad", "path", "host", "badHost", "other"}

ASSUME HeadAssumption ==
    /\ Heads \subseteq Seq(Tokens) \ {<<>>}
    /\ BufferSpace \in Nat /\ LineSize \in Nat

\* A client that asks for a tunnel waits for the answer before it sends more: its
\* head ends with the first line that is empty.
ASSUME TunnelAssumption ==
    \A h \in Heads : h[1] = "CONNECT" =>
        Len(h) > 1 /\ \A i \in 2 .. Len(h) : (h[i - 1] = EOL /\ h[i] = EOL) <=> i = Len(h)

VARIABLES
    head,           \* what the client sends
    coming,         \* the part that is on its way
    socket,         \* the part that has arrived and is not received
    eof,            \* the client has hung up
    state,          \* client_states
    ssl,            \* ssl_states
    buf, peeked,    \* write_buff, and how much of it peek_line is past
    interest,       \* of the client's descriptor
    searching,      \* the read handler goes on to search the Host line
    resolver,       \* "none", "runs", "connected", or "missing"
    origin,         \* the interest of the origin's descriptor, or "none"
    sent,           \* what the origin has been sent
    established,    \* the client has been told that the tunnel stands
    ended,          \* kill_client has run, of itself or from send_error
    early           \* history: the relay began before the whole head was received

arrival == <<head, coming, socket, eof>>
parser == <<state, ssl, buf, peeked, searching>>
relay == <<origin, sent, established, early>>
vars == <<arrival, parser, relay, interest, resolver, ended>>

Lesser(a, b) == IF a < b THEN a ELSE b
Drop(s, n) == SubSeq(s, n + 1, Len(s))

-----------------------------------------------------------------------------
(* The client. *)

Arrive ==
    /\ \E n \in 1 .. Len(coming) :
        /\ socket' = socket \o SubSeq(coming, 1, n)
        /\ coming' = Drop(coming, n)
    /\ UNCHANGED <<head, eof, parser, relay, interest, resolver, ended>>

HangUp ==
    /\ ~eof
    /\ eof' = TRUE /\ coming' = <<>>
    /\ UNCHANGED <<head, socket, parser, relay, interest, resolver, ended>>

-----------------------------------------------------------------------------
(* The read handler up to line 309. *)

\* Mutant of Received: the space that is left is not looked at
ReceivedAll == buf \o socket

\* the receive loop: all there is, and what does not fit is dropped
Received == buf \o SubSeq(socket, 1, Lesser(Len(socket), BufferSpace - Len(buf)))

\* buffer_peek_line: the length of the next line of b, 0 or -1
PeekLine(b) ==
    LET rest == Drop(b, peeked)
        ends == {i \in 1 .. Lesser(Len(rest), LineSize) : rest[i] = EOL}
    IN  IF ends # {} THEN CHOOSE i \in ends : \A j \in ends : i <= j
        ELSE IF Len(rest) > LineSize THEN -1 ELSE 0

\* kill_client, and send_error, which ends with it
Kill ==
    /\ ended' = TRUE /\ interest' = "none"
    /\ origin' = "none"
    /\ buf' = <<>> /\ peeked' = 0 /\ socket' = <<>> /\ searching' = FALSE
    /\ UNCHANGED <<head, coming, eof, state, ssl, sent, established, early>>

\* the thread is started; pthread_create reports a failure by a number that is
\* not -1, so nothing but the thread is missing then
StartResolver ==
    /\ resolver' \in {"runs", "missing"}
    /\ interest' = "noop" /\ state' = "CONNECTING"
    /\ searching' = FALSE

Readable == ~ended /\ interest = "read" /\ ~searching /\ (socket # <<>> \/ eof)

\* Mutant of ReadFirstLine: the Host line is searched from the next call on
ReadFirstLineReturns ==
    /\ Readable /\ state = "READING_HEADER_FIRST_LINE"
    /\ LET n == PeekLine(Received)
           line == Received[peeked + 1]
       IN  \/ (eof \/ n = -1 \/ (n > 0 /\ line = "bad")) /\ Kill /\ UNCHANGED resolver
           \/ /\ ~eof /\ n >= 0 /\ (n > 0 => line # "bad")
              /\ buf' = Received /\ socket' = <<>> /\ peeked' = peeked + n
              /\ IF n > 0 /\ line \in {"absolute", "CONNECT"}
                 THEN /\ StartResolver
                      /\ ssl' = IF line = "CONNECT" THEN "SSL_CONNECTING" ELSE "NO_SSL"
                 ELSE /\ state' = IF n > 0 THEN "SEARCHING_FOR_HEADER_HOST" ELSE state
                      /\ UNCHANGED <<ssl, searching, resolver, interest>>
              /\ UNCHANGED <<head, coming, eof, relay, ended>>

ReadFirstLine ==
    /\ Readable /\ state = "READING_HEADER_FIRST_LINE"
    /\ LET n == PeekLine(Received)
           line == Received[peeked + 1]
       IN  \/ (eof \/ n = -1 \/ (n > 0 /\ line = "bad")) /\ Kill /\ UNCHANGED resolver
           \/ /\ ~eof /\ n = 0
              /\ buf' = Received /\ socket' = <<>>
              /\ UNCHANGED <<head, coming, eof, state, ssl, peeked, searching, relay, interest,
                             resolver, ended>>
           \/ /\ ~eof /\ n > 0 /\ line # "bad"
              /\ buf' = Received /\ socket' = <<>> /\ peeked' = peeked + n
              /\ IF line \in {"absolute", "CONNECT"}
                 THEN /\ StartResolver
                      /\ ssl' = IF line = "CONNECT" THEN "SSL_CONNECTING" ELSE "NO_SSL"
                 ELSE /\ state' = "SEARCHING_FOR_HEADER_HOST" /\ ssl' = "NO_SSL"
                      /\ searching' = TRUE
                      /\ UNCHANGED <<resolver, interest>>
              /\ UNCHANGED <<head, coming, eof, relay, ended>>

\* Mutant of SearchHost: what this call received is not kept
SearchHostForgets ==
    /\ ~ended /\ state = "SEARCHING_FOR_HEADER_HOST" /\ (searching \/ Readable)
    /\ LET n == PeekLine(buf)
           line == buf[peeked + 1]
       IN  \/ (eof \/ n = -1 \/ (n > 0 /\ line = "badHost")) /\ Kill /\ UNCHANGED resolver
           \/ /\ ~eof /\ n >= 0 /\ (n > 0 => line # "badHost")
              /\ socket' = <<>> /\ peeked' = peeked + n
              /\ IF n > 0 /\ line = "host"
                 THEN StartResolver
                 ELSE searching' = FALSE /\ UNCHANGED <<resolver, interest, state>>
              /\ UNCHANGED <<buf, head, coming, eof, ssl, relay, ended>>

\* one line is looked at, in the same call of the handler or in a later one
SearchHost ==
    /\ ~ended /\ state = "SEARCHING_FOR_HEADER_HOST" /\ (searching \/ Readable)
    /\ LET n == PeekLine(Received)
           line == Received[peeked + 1]
       IN  \/ (eof \/ n = -1 \/ (n > 0 /\ line = "badHost")) /\ Kill /\ UNCHANGED resolver
           \/ /\ ~eof /\ n >= 0 /\ (n > 0 => line # "badHost")
              /\ buf' = Received /\ socket' = <<>> /\ peeked' = peeked + n
              /\ IF n > 0 /\ line = "host"
                 THEN StartResolver
                 ELSE searching' = FALSE /\ UNCHANGED <<resolver, interest, state>>
              /\ UNCHANGED <<head, coming, eof, ssl, relay, ended>>

-----------------------------------------------------------------------------
(* open_origin_socket and the block handler. *)

Connected ==
    /\ resolver = "runs"
    /\ resolver' = "connected"
    /\ UNCHANGED <<arrival, parser, relay, interest, ended>>

Unresolved ==
    /\ resolver = "runs"
    /\ resolver' = "none"
    /\ Kill

\* the ends of the lines of b that are read before one that is too long
LineEnds(b) ==
    LET ends == {i \in 1 .. Len(b) : b[i] = EOL}
    IN  {i \in ends : \A j \in 1 .. i - LineSize : \E k \in ends : j <= k /\ k < j + LineSize}

\* process_ssl: lines are taken up to the one that ends the head, and the buffer
\* is emptied then; without it the lines that are complete are taken
ProcessSSL ==
    LET ends == LineEnds(buf)
        blank == {i \in ends : i = 1 \/ i - 1 \in ends}
        last == CHOOSE i \in ends \cup {0} : \A j \in ends : j <= i
    IN  /\ IF blank # {}
           THEN buf' = <<>> /\ ssl' = "SSL_OK" /\ established' = TRUE
           ELSE buf' = Drop(buf, last) /\ UNCHANGED <<ssl, established>>
        /\ peeked' = 0

\* Mutant of Block: the CONNECT head is left to the read handler
BlockOnly ==
    /\ resolver = "connected" /\ state = "CONNECTING" /\ ~ended
    /\ state' = "PASSING_CONTENT"
    /\ interest' = "read" /\ origin' = "write"
    /\ early' = (buf # head)
    /\ UNCHANGED <<arrival, ssl, established, buf, peeked, searching, sent, resolver, ended>>

\* the descriptor of the origin may not become non-blocking or registered; its
\* descriptor is not closed then
Block ==
    /\ resolver = "connected" /\ state = "CONNECTING" /\ ~ended
    /\ UNCHANGED resolver
    /\ \/ Kill
       \/ /\ state' = "PASSING_CONTENT"
          /\ interest' = "read" /\ origin' = "write"
          /\ early' = (buf # head)
          /\ IF ssl = "SSL_CONNECTING"
             THEN ProcessSSL
             ELSE UNCHANGED <<ssl, established, buf, peeked>>
          /\ UNCHANGED <<arrival, searching, sent, ended>>

-----------------------------------------------------------------------------
(* The relay of the head. *)

\* line 312: nothing is received while the tunnel does not stand
PassSSL ==
    /\ Readable /\ state = "PASSING_CONTENT" /\ ssl = "SSL_CONNECTING"
    /\ ProcessSSL
    /\ UNCHANGED <<arrival, state, searching, origin, sent, early, interest, resolver, ended>>

\* Mutant of Pass: the end of the client's stream is not noticed
PassIgnoresEof ==
    /\ Readable /\ state = "PASSING_CONTENT" /\ ssl # "SSL_CONNECTING"
    /\ LET n == Lesser(Len(socket), BufferSpace - Len(buf))
           full == Len(buf) + n = BufferSpace
       IN  /\ buf' = buf \o SubSeq(socket, 1, n)
           /\ socket' = Drop(socket, n)
           /\ interest' = IF full THEN "noop" ELSE interest
           /\ origin' = "write"
    /\ UNCHANGED <<head, coming, eof, state, ssl, peeked, searching, sent, established, early,
                   resolver, ended>>

\* it receives while there is space; a buffer that is full at once leaves the
\* result unassigned, which may be the 0 that stands for the end of the stream
Pass ==
    /\ Readable /\ state = "PASSING_CONTENT" /\ ssl # "SSL_CONNECTING"
    /\ UNCHANGED resolver
    /\ LET n == Lesser(Len(socket), BufferSpace - Len(buf))
           full == Len(buf) + n = BufferSpace
       IN  \/ /\ (~full /\ eof) \/ Len(buf) = BufferSpace
              /\ Kill
           \/ /\ full \/ ~eof
              /\ buf' = buf \o SubSeq(socket, 1, n)
              /\ socket' = Drop(socket, n)
              /\ interest' = IF full THEN "noop" ELSE interest
              /\ origin' = "write"
              /\ UNCHANGED <<head, coming, eof, state, ssl, peeked, searching, sent,
                             established, early, ended>>

OriginWrite ==
    /\ ~ended /\ origin = "write"
    /\ sent' = sent \o buf /\ buf' = <<>> /\ peeked' = 0
    /\ origin' = "read" /\ interest' = "read"
    /\ UNCHANGED <<arrival, state, ssl, searching, established, early, resolver, ended>>

-----------------------------------------------------------------------------
Init ==
    /\ head \in Heads /\ coming = head /\ socket = <<>> /\ eof = FALSE
    /\ state = "READING_HEADER_FIRST_LINE" /\ ssl = "NO_SSL"
    /\ buf = <<>> /\ peeked = 0 /\ searching = FALSE
    /\ interest = "read" /\ resolver = "none" /\ origin = "none"
    /\ sent = <<>> /\ established = FALSE /\ ended = FALSE /\ early = FALSE

Handlers ==
    \/ ReadFirstLine
    \/ SearchHost
    \/ Block
    \/ PassSSL
    \/ Pass
    \/ OriginWrite

Resolver == Connected \/ Unresolved

Next == Arrive \/ HangUp \/ Handlers \/ Resolver

Spec == Init /\ [][Next]_vars

\* the client sends all of its head, the selector serves what is ready and the
\* thread comes to an end
FairSpec == Spec /\ WF_vars(Arrive) /\ WF_vars(Handlers) /\ WF_vars(Resolver)

-----------------------------------------------------------------------------
(* Properties. *)

\* Every variable has its type, and the buffer does not overflow.
TypeOK ==
    /\ head \in Heads /\ {coming, socket, buf, sent} \subseteq Seq(Tokens)
    /\ Len(buf) <= BufferSpace /\ peeked \in 0 .. Len(buf)
    /\ {eof, searching, established, ended, early} \subseteq BOOLEAN
    /\ state \in {"READING_HEADER_FIRST_LINE", "SEARCHING_FOR_HEADER_HOST", "CONNECTING",
                  "PASSING_CONTENT"}
    /\ ssl \in {"NO_SSL", "SSL_CONNECTING", "SSL_OK"}
    /\ interest \in {"none", "noop", "read"} /\ origin \in {"none", "read", "write"}
    /\ resolver \in {"none", "runs", "connected", "missing"}

IsConnect == head[1] = "CONNECT"
Fits == Len(head) <= BufferSpace
ShortLines == LineEnds(head) = {i \in 1 .. Len(head) : head[i] = EOL}

\* However the head is cut, whichever phase its pieces arrive in and wherever the
\* parser has looked, the origin is sent exactly the head, in order: what it has,
\* what is buffered, what waits and what is coming make up the head.
HeadIsKept ==
    ~ended /\ ~eof /\ ssl = "NO_SSL" /\ Fits => sent \o buf \o socket \o coming = head

\* The origin of a tunnel gets nothing of the CONNECT head, when all of it was
\* there as the connection was made and none of its lines is too long to be read;
\* the client is told that the tunnel stands before anything is passed.
TunnelIsClean ==
    /\ IsConnect /\ ShortLines /\ ~early => sent = <<>>
    /\ established => sent = <<>>

\* A head whose origin can be found without waiting: its first line names it, or
\* is wrong, or the Host line is the one after it.
Prompt(h) ==
    \/ h[1] \in {"absolute", "CONNECT", "bad"}
    \/ \E i \in 1 .. Len(h) - 1 :
          h[i] = EOL /\ h[i + 1] \in {"host", "badHost"} /\ \A j \in 1 .. i - 1 : h[j] # EOL

\* a CONNECT whose blank line process_ssl never comes to, so its client is not
\* received from again; or the thread could not be started
Stuck ==
    \/ IsConnect /\ state = "PASSING_CONTENT" /\ (early \/ ~ShortLines)
    \/ resolver = "missing"

\* Such a head is acted on, in whatever pieces it arrives: it gets to the origin
\* or the tunnel stands, or the client is answered with an error.  For a head
\* with the Host line further down this does not hold: a call of the handler looks
\* at one line (proxyClientActiveSocket.c:253), and no more calls may come.
PromptIsActedOn ==
    Prompt(head) /\ Fits ~> ended \/ established \/ sent = head \/ Stuck

\* The connection of a client that hangs up ends, in every phase.
HungUpIsKilled == eof ~> ended \/ Stuck
=============================================================================

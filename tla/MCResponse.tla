------------------------------ MODULE MCResponse ------------------------------
EXTENDS Response

MCContentTypes == << <<"a", "/", "b">>, <<" ", "a", "/", "b", ";", "b">>, <<"a", "/", "b", "b">>,
                     <<"b", "/", "a">>, <<"b">> >>

Data(n) == <<"data", n>>
Response(lines, framing, body) == [lines |-> lines, framing |-> framing, body |-> body]

\* bodies with the bytes of line ends in them, in no, one or more chunks
Bodies == {<<>>, << <<LF>> >>, << <<CR, LF, Data(1)>> >>, << <<Data(1), Data(2)>>, <<CR>> >>,
           << <<Data(1)>>, <<LF, Data(2), Data(3)>> >>}

Small(n, extra) ==
    UNION {{Response(<<Status(200), Type(n)>> \o extra \o <<Length(Len(FlattenSeq(b)))>>, "length", b),
            Response(<<Status(200), Type(n), Chunked>> \o extra, "chunked", b),
            Response(<<Status(200), Type(n)>> \o extra, "close", b)} : b \in Bodies}

\* a response of no body, of no type, of a failure, and compressed ones
Others == {Response(<<Status(204)>>, "none", <<>>),
           Response(<<Status(200), Length(1)>>, "length", << <<Data(1)>> >>),
           Response(<<Status(404), Type(1), Length(1)>>, "length", << <<Data(1)>> >>)}
          \cup {r \in Small(1, <<Gzip>>) : Len(r.body) = 2}

On(types) == [on |-> TRUE, types |-> types]
Off == [on |-> FALSE, types |-> <<"*">>]
Persistent(rs) == {r \in rs : r.framing # "close"}

\* lists of media types, and what a shorter one leaves behind it
Lists ==
    LET chars == {"a", "b", "/", "*", ",", " ", ";"}
        strings == UNION {[1 .. n -> chars] : n \in 1 .. 4}
        short == {s \in strings : Len(s) <= 3}
    IN  strings \cup {s \o <<"/", "b">> : s \in short}
                \cup {s \o <<NUL, ",", "*">> : s \in short}

MCCases ==
    \* one or two responses, transformed or not
    {[setting |-> s, responses |-> <<r>>] :
        s \in {Off, On(<<"b", ",", "a", "/", "*">>)}, r \in Small(1, <<>>) \cup Others}
    \cup {[setting |-> s, responses |-> <<r, q>>] :
        s \in {Off, On(<<"a", "/", "b">>)},
        r \in Persistent({x \in Small(1, <<>>) : Len(FlattenSeq(x.body)) <= 1} \cup Others),
        q \in Others \cup {x \in Small(4, <<>>) : Len(x.body) = 1}}
    \* every list against every type
    \cup {[setting |-> On(l), responses |-> <<Response(<<Status(200), Type(n), Length(0)>>, "length", <<>>)>>] :
        l \in Lists, n \in DOMAIN MCContentTypes}
=============================================================================

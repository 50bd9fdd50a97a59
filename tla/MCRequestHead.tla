---------------------------- MODULE MCRequestHead ----------------------------
EXTENDS RequestHead

Line(first) == <<first, "other", EOL>>
Blank == <<EOL>>

\* an absolute URL, a path with the Host line in the second, the third or no
\* line, or with a wrong one, tunnels, a wrong URL, a line that is too long, an
\* empty line first, and heads that fill the buffer or do not fit
MCHeads == {
    Line("absolute") \o Line("host") \o Blank,
    Line("path") \o Line("host") \o Line("other") \o Blank,
    Line("path") \o Line("other") \o Line("host") \o Blank,
    Line("path") \o Line("badHost") \o Blank,
    Line("path") \o Blank,
    Line("CONNECT") \o Blank,
    Line("CONNECT") \o Line("host") \o <<"other", EOL>> \o Blank,
    Line("CONNECT") \o <<"other", "other", "other", "other", EOL>> \o Blank,
    Line("bad") \o Blank,
    <<"path", "other", "other", "other", EOL>> \o Blank,
    Line("path") \o <<"other", "other", "other", "other", EOL>> \o Blank,
    Blank \o Line("path") \o Line("host") \o Blank,
    Line("absolute") \o Line("host") \o Line("other") \o Line("other"),
    Line("absolute") \o Line("host") \o Line("other") \o Line("other") \o Blank }
=============================================================================

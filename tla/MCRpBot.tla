------------------------------- MODULE MCRpBot -------------------------------
EXTENDS RpBot

Bytes(s) == [i \in 1 .. Len(s) |-> SubSeq(s, i, i)]

\* Messages with every kind of prefix and of parameters, up to the limits of the
\* grammar, and lines just beyond; prefixes that run into the code and into the
\* parameters, a code that runs into the parameters, and parameters that run out.
Messages == {
  "PING :f", "PING", ":f 004 f f", ":[N-4@0.f PING", "PINGf f",
  ":f@0:fFff:4.0.0.0 P", ":[!f@0:f:4 044", "P f f  :"}
Others == {":[N-44@* P", "P f f\r", "P f ffffffff:"}
MCLines == {Bytes(s \o "\r\n") : s \in Messages \cup Others}

(***************************************************************************)
(* The machine accepts the lines the grammar describes: every text of up to *)
(* three bytes by itself, in a name, in a host, in an address and among the *)
(* parameters.                                                              *)
(***************************************************************************)
ASSUME MachineIsGrammar ==
  \A s \in BoundedSeq(Byte \ {"\n"}, 3),
     <<left, right>> \in {<<"", "">>, <<":", " P">>, <<":f!", "@f P">>, <<":f@", " P">>,
                          <<":f@0:ffff:4.", ".0.0 P">>, <<"P f", "">>} :
    LET line == Bytes(left) \o s \o Bytes(right) IN
    IsMessage(line) <=> Complete(Parse(EmptyMsg, {Start}, line \o <<"\r", "\n">>))
=============================================================================

------------------------------- MODULE RpIrcsm -------------------------------
(***************************************************************************)
(* The message parser of src/ircsm/rp_ircsm.rl.  Ragel compiles the grammar *)
(* into a deterministic machine; here the machine is the set of positions   *)
(* in the grammar it stands for.  An edge names the actions the grammar     *)
(* embeds in it, and a byte performs those of all edges it takes.           *)
(*                                                                         *)
(* Bytes are their classes: one or two members of each are enough.          *)
(***************************************************************************)
EXTENDS Integers, Sequences

CONSTANTS
  Letter,     \* alpha
  HexLetter,  \* the letters of xdigit
  Digit,      \* digit
  Special,    \* special
  Odd,        \* bytes the grammar does not name
  Nul,        \* 0
  NickBytes,  \* 16: longest nickname
  Middles,    \* 14: most words before the last parameter
  Groups,     \* 8: groups of an IPv6 address
  Zeros,      \* 5: groups before a mapped IPv4 address
  PrefixRoom, \* 64: bytes rp_ircsm_msg_init allocates for the prefix,
  CodeRoom,   \* 32: for the code,
  ParamsRoom  \* 512: and for the parameters

Alnum == Letter \cup Digit
Marks == {" ", ":", "\r", "\n", "!", "@", ".", "/", "-", "*"}
Byte == Alnum \cup Special \cup Odd \cup {Nul} \cup Marks

\* nospcrlfcl, and the bytes of user.
Plain == Byte \ {Nul, " ", "\r", "\n", ":"}
UserByte == Byte \ {Nul, " ", "\r", "\n", "@"}

ASSUME IrcsmAssumption ==
  /\ HexLetter \subseteq Letter
  /\ "0" \in Digit
  /\ (Alnum \cup Special \cup Odd \cup {Nul}) \cap Marks = {}
  /\ {NickBytes, Middles, Groups, Zeros, PrefixRoom, CodeRoom, ParamsRoom} \subseteq Nat \ {0}

\* The other numbers of the grammar.
CodeDigits == 3
AddressParts == 4
PartDigits == 3

-----------------------------------------------------------------------------
(* Edges.                                                                   *)

Edge(from, on, to, does) == [from |-> from, on |-> on, to |-> to, does |-> does]

Start == <<"message", "start", 0>>
Done == <<"message", "done", 0>>
Colon == <<"prefix", "colon", 0>>
Space == <<"prefix", "space", 0>>
Nick(k) == <<"nick", "byte", k>>
Bang == <<"hostmask", "bang", 0>>
User == <<"user", "byte", 0>>
At == <<"hostmask", "at", 0>>
Word == <<"code", "word", 0>>
Number(k) == <<"code", "digit", k>>
Blank(k) == <<"params", "blank", k>>
Middle(k) == <<"params", "middle", k>>
Trailing == <<"params", "trailing", 0>>
Cr == <<"message", "cr", 0>>

\* hostname, in a servername or in a host: labels with a dot or slash between
\* them, or one label and a dot or slash.
Hostname(begin, where, first, rest) ==
  LET label(n) == <<where, "label", n>>
      star(n) == <<where, "star", n>>
      dot(n) == <<where, "dot", n>>
  IN
  {Edge(begin, Alnum, label(1), first), Edge(begin, {"*"}, star(1), first)}
  \cup UNION {{Edge(label(n), Alnum \cup {"-"}, label(n), rest),
               Edge(label(n), {".", "/"}, dot(n), rest),
               Edge(star(n), {".", "/"}, dot(n), rest),
               Edge(dot(n), Alnum, label(2), rest),
               Edge(dot(n), {"*"}, star(2), rest)} : n \in 1 .. 2}

HostnameEnds(where) ==
  {<<where, kind, n>> : kind \in {"label", "star"}, n \in 1 .. 2} \cup {<<where, "dot", 1>>}

\* ip4addr and ip6addr.
Address(begin, first, rest) ==
  LET part(k) == <<"ip4", "digit", k>>  \* digit d of part p is k = PartDigits * (p - 1) + d
      dot(p) == <<"ip4", "dot", p>>
      group(g) == <<"ip6", "group", g>>
      colon(g) == <<"ip6", "colon", g>>
      zero(g) == <<"mapped", "zero", g>>
      f(k) == <<"mapped", "f", k>>
      after(g) == <<"mapped", "colon", g>>
      Hex == Digit \cup HexLetter
  IN
  {Edge(begin, Digit, part(1), first), Edge(begin, Hex, group(1), first),
   Edge(begin, {"0"}, zero(1), first)}
  \cup {Edge(part(k), Digit, part(k + 1), rest) :
          k \in {j \in 1 .. PartDigits * AddressParts : j % PartDigits # 0}}
  \cup {Edge(part(PartDigits * (p - 1) + d), {"."}, dot(p), rest) :
          p \in 1 .. AddressParts - 1, d \in 1 .. PartDigits}
  \cup {Edge(dot(p), Digit, part(PartDigits * p + 1), rest) : p \in 1 .. AddressParts - 1}
  \cup {Edge(group(g), Hex, group(g), rest) : g \in 1 .. Groups}
  \cup {Edge(group(g), {":"}, colon(g), rest) : g \in 1 .. Groups - 1}
  \cup {Edge(colon(g), Hex, group(g + 1), rest) : g \in 1 .. Groups - 1}
  \cup {Edge(zero(g), {":"}, after(g), rest) : g \in 1 .. Zeros + 1}
  \cup {Edge(after(g), {"0"}, zero(g + 1), rest) : g \in 1 .. Zeros}
  \cup {Edge(after(Zeros), {"f", "F"}, f(1), rest), Edge(f(4), {":"}, after(Zeros + 1), rest)}
  \cup {Edge(f(k), {"f", "F"}, f(k + 1), rest) : k \in 1 .. 3}
  \cup {Edge(after(Zeros + 1), Digit, part(1), rest)}

AddressEnds ==
  {<<"ip4", "digit", PartDigits * (AddressParts - 1) + d>> : d \in 1 .. PartDigits}
  \cup {<<"ip6", "group", Groups>>}

HostmaskEnds ==
  {Nick(k) : k \in 1 .. NickBytes} \cup HostnameEnds("host") \cup AddressEnds

PrefixEdges ==
  LET Begins == {"prefix_start", "prefix"} IN
  Hostname(Colon, "server", Begins \cup {"servername_start", "servername"},
           {"prefix", "servername"})
  \cup {Edge(Colon, Letter \cup Special, Nick(1), Begins \cup {"hostmask_start", "nick_start", "nick"})}
  \cup {Edge(Nick(k), Alnum \cup Special \cup {"-"}, Nick(k + 1), {"prefix", "nick"}) :
          k \in 1 .. NickBytes - 1}
  \cup {Edge(Nick(k), {"!"}, Bang, {"prefix"}) : k \in 1 .. NickBytes}
  \cup {Edge(Nick(k), {"@"}, At, {"prefix"}) : k \in 1 .. NickBytes}
  \cup {Edge(Bang, UserByte, User, {"prefix", "user_start", "user"}),
        Edge(User, UserByte, User, {"prefix", "user"}),
        Edge(User, {"@"}, At, {"prefix"})}
  \cup Hostname(At, "host", {"prefix", "host_start", "host"}, {"prefix", "host"})
  \cup Address(At, {"prefix", "host_start", "host"}, {"prefix", "host"})
  \cup {Edge(p, {" "}, Space, {"servername_finish"}) : p \in HostnameEnds("server")}
  \cup {Edge(p, {" "}, Space, {"hostmask_finish"}) : p \in HostmaskEnds}

CodeEnds == {Word, Number(CodeDigits)}

\* Mutant: the parameters of the message before are not cleared.
ParamsBeginKept == {Edge(p, {" "}, Blank(1), {"params"}) : p \in CodeEnds}

ParamsBegin == {Edge(p, {" "}, Blank(1), {"params_start", "params"}) : p \in CodeEnds}

\* params_1 and params_2: after the last middle the colon may be missing.
ParamsEdges ==
  ParamsBegin
  \cup {Edge(Blank(k), {":"}, Trailing, {"params"}) : k \in 1 .. Middles + 1}
  \cup {Edge(Blank(Middles + 1), Plain \cup {" "}, Trailing, {"params"}),
        Edge(Trailing, Plain \cup {":", " "}, Trailing, {"params"})}
  \cup UNION {{Edge(Blank(k), Plain, Middle(k), {"params"}),
               Edge(Middle(k), Plain \cup {":"}, Middle(k), {"params"}),
               Edge(Middle(k), {" "}, Blank(k + 1), {"params"})} : k \in 1 .. Middles}

MessageEnds ==
  CodeEnds \cup {Middle(k) : k \in 1 .. Middles} \cup {Blank(Middles + 1), Trailing}

CodeEdges ==
  {Edge(Start, Letter, Word, {"msg_start", "code_start", "code"}),
   Edge(Start, Digit, Number(1), {"msg_start", "code_start", "code"}),
   Edge(Space, Letter, Word, {"code_start", "code"}),
   Edge(Space, Digit, Number(1), {"code_start", "code"}),
   Edge(Word, Letter, Word, {"code"})}
  \cup {Edge(Number(k), Digit, Number(k + 1), {"code"}) : k \in 1 .. CodeDigits - 1}

Edges ==
  {Edge(Start, {":"}, Colon, {"msg_start"})}
  \cup PrefixEdges \cup CodeEdges \cup ParamsEdges
  \cup {Edge(p, {"\r"}, Cr, {}) : p \in MessageEnds}
  \cup {Edge(Cr, {"\n"}, Done, {})}

Position == {e.from : e \in Edges} \cup {e.to : e \in Edges}
EdgesFrom == [p \in Position |-> {e \in Edges : e.from = p}]

-----------------------------------------------------------------------------
(* Actions.                                                                 *)

(***************************************************************************)
(* The three texts of a message lie one after another in a block of the     *)
(* pool (their sizes are multiples of its alignment), and nothing tests     *)
(* where a byte is put.  prefix, code and params are the bytes put into     *)
(* each; what a reader finds of them is what later texts have left.  params *)
(* may be older than prefix and code, and is kept as it would be found.     *)
(***************************************************************************)
CodeAt == PrefixRoom
ParamsAt == PrefixRoom + CodeRoom
MsgBytes == ParamsAt + ParamsRoom

\* What bytes put from there on leave of a text that begins at at.
Over(text, at, later, there) ==
  [i \in DOMAIN text |->
     IF at + i - there \in DOMAIN later THEN later[at + i - there] ELSE text[i]]

SeenCode(m) == Over(m.code, CodeAt, m.params, ParamsAt)
SeenPrefix(m) == Over(Over(m.prefix, 0, m.code, CodeAt), 0, m.params, ParamsAt)

\* A byte was put behind all three, into what the pool gave out next.
Astray(m) ==
  Len(m.prefix) > MsgBytes \/ CodeAt + Len(m.code) > MsgBytes \/ Len(m.params) > ParamsRoom

\* servername and the parts of hostmask point into prefix.
Slice(at, len) == [at |-> at, len |-> len]
Text(m, part) == SubSeq(SeenPrefix(m), m[part].at + 1, m[part].at + m[part].len)

\* rp_ircsm_msg_init.
EmptyMsg ==
  [prefix |-> <<>>, servername |-> Slice(0, 0),
   nick |-> Slice(0, 0), user |-> Slice(0, 0), host |-> Slice(0, 0),
   code |-> <<>>, params |-> <<>>, is_hostmask |-> FALSE, is_servername |-> FALSE]

(***************************************************************************)
(* Entering actions come before the others, the outer ones first, and of    *)
(* the others the outer ones last: the offset of a slice is the length the  *)
(* prefix has without the byte.  The first byte of params is the space that *)
(* separates them.                                                          *)
(***************************************************************************)
Perform(m, byte, acts) ==
  LET prefix == IF "prefix_start" \in acts THEN <<>> ELSE m.prefix
      slice(part, start) ==
        LET cleared == part \in {"user", "host"} /\ "hostmask_start" \in acts
            len == IF start \in acts \/ cleared THEN 0 ELSE m[part].len
        IN  Slice(IF start \in acts THEN Len(prefix) ELSE m[part].at,
                  IF part \in acts THEN len + 1 ELSE len)
      code == IF "code_start" \in acts THEN <<>> ELSE m.code
      old == IF "prefix" \in acts THEN Over(m.params, ParamsAt, <<byte>>, Len(prefix))
             ELSE IF "code" \in acts THEN Over(m.params, ParamsAt, <<byte>>, CodeAt + Len(code))
             ELSE m.params
      params == IF "params_start" \in acts THEN <<>> ELSE old
      flag(was, finish) == (was /\ "msg_start" \notin acts) \/ finish \in acts
  IN
  [prefix |-> IF "prefix" \in acts THEN Append(prefix, byte) ELSE prefix,
   servername |-> slice("servername", "servername_start"),
   nick |-> slice("nick", "nick_start"),
   user |-> slice("user", "user_start"),
   host |-> slice("host", "host_start"),
   code |-> IF "code" \in acts THEN Append(code, byte) ELSE code,
   params |-> IF "params" \in acts /\ ~(params = <<>> /\ byte = " ")
                THEN Append(params, byte) ELSE params,
   is_hostmask |-> flag(m.is_hostmask, "hostmask_finish"),
   is_servername |-> flag(m.is_servername, "servername_finish")]

(***************************************************************************)
(* rp_ircsm_parse: run from state cs over a window of bytes, to the end of  *)
(* a message, the end of the window, or a byte no edge takes.  That byte is *)
(* not consumed, and the machine is in its error state, {}, for good.       *)
(***************************************************************************)
Step(before, byte) ==
  LET taken == {e \in UNION {EdgesFrom[p] : p \in before.cs} : byte \in e.on} IN
  IF Done \in before.cs THEN before
  ELSE IF taken = {} THEN [before EXCEPT !.cs = {}]
  ELSE [msg |-> Perform(before.msg, byte, UNION {e.does : e \in taken}),
        cs |-> {e.to : e \in taken},
        len |-> before.len + 1]

Parse(m, cs, window) ==
  LET run[i \in 0 .. Len(window)] ==
        IF i = 0 THEN [msg |-> m, cs |-> cs, len |-> 0]
        ELSE CHOOSE after \in {Step(before, window[i]) : before \in {run[i - 1]}} : TRUE
  IN  run[Len(window)]

\* Is a message complete?  Then the machine is back at its start.
Complete(run) == Done \in run.cs
Saved(run) == IF Complete(run) THEN {Start} ELSE run.cs

-----------------------------------------------------------------------------
\* The slices a handler may use lie within the prefix of their message; those of
\* the other kind are left from a message before, and may not.
SlicesInPrefix(m) ==
  /\ m.is_servername => m.servername = Slice(0, Len(m.prefix))
  /\ m.is_hostmask => \A part \in {"nick", "user", "host"} :
                        m[part].len > 0 => m[part].at + m[part].len <= Len(m.prefix)
=============================================================================

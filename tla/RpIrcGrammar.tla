---------------------------- MODULE RpIrcGrammar ----------------------------
(***************************************************************************)
(* The same messages without a machine: which lines the grammar of          *)
(* rp_ircsm.rl describes, as conditions on whole texts, and what such a     *)
(* line means to the handlers.  It shares nothing with RpIrcsm but the      *)
(* classes of bytes.                                                        *)
(***************************************************************************)
EXTENDS RpIrcsm, FiniteSets, SequencesExt

Only(s, bytes) == ToSet(s) \subseteq bytes
Nonempty(s, bytes) == s # <<>> /\ Only(s, bytes)

\* The members of a set of numbers, from the smallest on.
Ascending(S) ==
  [k \in 1 .. Cardinality(S) |-> CHOOSE x \in S : Cardinality({y \in S : y < x}) = k - 1]

\* The parts of s between the bytes of seps, first to last.
Parts(s, seps) ==
  LET cuts == {0, Len(s) + 1} \cup {i \in DOMAIN s : s[i] \in seps}
      order == Ascending(cuts)
  IN  [k \in 1 .. Len(order) - 1 |-> SubSeq(s, order[k] + 1, order[k + 1] - 1)]

\* The part before, or after, the first byte of s in seps; all of s, or nothing.
Before(s, seps) == Parts(s, seps)[1]
After(s, seps) == SubSeq(s, Len(Before(s, seps)) + 2, Len(s))
Has(s, byte) == byte \in ToSet(s)

IsShortname(s) ==
  s = <<"*">> \/ (Nonempty(s, Alnum \cup {"-"}) /\ s[1] # "-")

IsHostname(s) ==
  LET labels == Parts(s, {".", "/"}) IN
  \/ \A k \in DOMAIN labels : IsShortname(labels[k])
  \/ Len(labels) = 2 /\ IsShortname(labels[1]) /\ labels[2] = <<>>

IsNick(s) ==
  /\ Nonempty(s, Alnum \cup Special \cup {"-"})
  /\ s[1] \in Letter \cup Special
  /\ Len(s) <= NickBytes

IsIp4(s) ==
  LET parts == Parts(s, {"."}) IN
  Len(parts) = AddressParts
  /\ \A k \in DOMAIN parts : Nonempty(parts[k], Digit) /\ Len(parts[k]) <= PartDigits

IsIp6(s) ==
  LET groups == Parts(s, {":"})
      hex(g) == Nonempty(g, Digit \cup HexLetter)
  IN
  \/ Len(groups) = Groups /\ \A k \in DOMAIN groups : hex(groups[k])
  \/ /\ Len(groups) = Zeros + 2
     /\ \A k \in 1 .. Zeros : groups[k] = <<"0">>
     /\ groups[Zeros + 1] = <<"0">> \/ (Len(groups[Zeros + 1]) = 4 /\ Only(groups[Zeros + 1], {"f", "F"}))
     /\ IsIp4(groups[Zeros + 2])

IsHostmask(s) ==
  LET name == Before(s, {"@"})
      host == After(s, {"@"})
  IN
  /\ Has(s, "@") => IsHostname(host) \/ IsIp4(host) \/ IsIp6(host)
  /\ Has(s, "!") => Has(s, "@")
  /\ IsNick(Before(name, {"!"}))
  /\ Has(name, "!") => Nonempty(After(name, {"!"}), UserByte)

IsCode(s) == Nonempty(s, Letter) \/ (Only(s, Digit) /\ Len(s) = CodeDigits)

\* Words up to the one that starts with a colon, or up to the fifteenth, which
\* with all that follows is the last parameter.
IsParams(s) ==
  LET words == Parts(s, {" "})
      last == Min({k \in 1 .. Len(words) + 1 :
                     k > Len(words) \/ k > Middles \/ (words[k] # <<>> /\ words[k][1] = ":")})
  IN
  /\ Only(s, Plain \cup {" ", ":"})
  /\ \A j \in 1 .. last - 1 : words[j] # <<>>

\* A line, without its end.
HasPrefix(line) == line # <<>> /\ line[1] = ":"
Prefix(line) == Tail(Before(line, {" "}))
Body(line) == IF HasPrefix(line) THEN After(line, {" "}) ELSE line

IsMessage(line) ==
  /\ HasPrefix(line) => IsHostname(Prefix(line)) \/ IsHostmask(Prefix(line))
  /\ IsCode(Before(Body(line), {" "}))
  /\ Has(Body(line), " ") => IsParams(After(Body(line), {" "}))

\* The part of a text that ends at its end-th byte and is as long as part.
Ending(text, end, part) == SubSeq(text, end - Len(part) + 1, end)

(***************************************************************************)
(* What a message shows its handlers, stale being the parameters of the one *)
(* before.  Prefix, code and parameters are put down in that order, each    *)
(* where its room begins: what is longer than its room runs on into the     *)
(* next, and is seen with what the later ones have put over it.             *)
(***************************************************************************)
Meaning(line, stale) ==
  LET prefix == IF HasPrefix(line) THEN Prefix(line) ELSE <<>>
      code == Before(Body(line), {" "})
      params == IF Has(Body(line), " ") THEN After(Body(line), {" "})
                ELSE Over(Over(stale, ParamsAt, prefix, 0), ParamsAt, code, CodeAt)
      seen == Over(Over(prefix, 0, code, CodeAt), 0, params, ParamsAt)
      name == Before(prefix, {"@"})
      masked == HasPrefix(line) /\ IsHostmask(prefix)
      nick == Before(name, {"!"})
      user == After(name, {"!"})
      host == After(prefix, {"@"})
  IN
  [code |-> Over(code, CodeAt, params, ParamsAt),
   params |-> params,
   servername |-> IF HasPrefix(line) /\ IsHostname(prefix) THEN <<seen>> ELSE <<>>,
   hostmask |-> IF masked THEN <<Ending(seen, Len(nick), nick), Ending(seen, Len(name), user),
                                 Ending(seen, Len(prefix), host)>>
                          ELSE <<>>]
=============================================================================

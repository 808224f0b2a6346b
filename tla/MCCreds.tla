-------------------------------- MODULE MCCreds --------------------------------
(***************************************************************************)
(* What an owner types at Creds: two hubs, a token, a CA, good and bad.    *)
(***************************************************************************)
EXTENDS Creds

V(len, text) == [len |-> len, text |-> text]
Text(len, words, v) == [kind |-> "text", len |-> len, words |-> words, value |-> v, ok |-> FALSE, end |-> FALSE]
Colon == [Text(1, <<>>, None) EXCEPT !.kind = "colon"]
Eol == [Text(1, <<>>, None) EXCEPT !.kind = "eol"]
Pem(len, ok, end) == [Text(len, <<>>, None) EXCEPT !.ok = ok, !.end = end]

Line(words) == <<Colon, Text(4, words, None), Eol>>
Set(f, v) == <<Colon, Text(4 + v.len, <<"cred", "set", f>>, v), Eol>>
Do(cmd) == Line(<<"cred", cmd>>)
Ca(lines) == Do("ca") \o lines

HubA == Set("ssid", V(2, "spaced")) \o Set("pass", V(4, "hex"))
HubB == Set("ssid", V(1, "word")) \o Set("pass", V(3, "word"))

MCOrder == <<"ssid", "pass", "token", "ca">>
MCMaxLen == [ssid |-> 2, pass |-> 4, token |-> 3, ca |-> 10]

(* One provisions, the other mistypes.                                       *)
Provisions ==
  {HubA, HubB, Set("token", V(3, "word")) \o <<Eol>>, Do("commit"), Do("import"), Line(<<"cred", "clear", "all">>)}

Mistypes ==
  {HubA, Do("commit"), Do("abort"), Line(<<"cred", "clear", "pass">>), Line(<<"cred", "clear", "ca">>),
   Line(<<"cred", "set", "ca">>), Line(<<"oops">>), Set("token", V(3, "placeholder")), Set("ssid", V(6, "word")),
   Ca(<<Pem(4, TRUE, FALSE), Eol, Eol, Pem(4, TRUE, TRUE), Eol>>),
   Ca(<<Pem(2, FALSE, FALSE), Eol, Pem(2, TRUE, TRUE), Eol>>),
   Ca(<<Pem(6, TRUE, FALSE), Eol, Pem(4, TRUE, TRUE), Eol>>),
   Ca(<<Pem(9, TRUE, FALSE), Eol, Pem(2, TRUE, TRUE), Eol>>)}

Stored(ssid, pass, token, flag0) ==
  [field |-> [ssid |-> ssid, pass |-> pass, token |-> token, ca |-> None], flag |-> flag0]

(* A board never provisioned or with another hub; one whose firmware had no  *)
(* flag, with a password that is no longer accepted.                       *)
MCOwners ==
  {[pastes |-> Provisions,
    stores |-> {Stored(None, None, None, -1), Stored(V(1, "label"), V(2, "label"), V(2, "label"), 1)}],
   [pastes |-> Mistypes, stores |-> {Stored(V(1, "label"), V(2, "placeholder"), None, -1)}]}

MCLegacy == [ssid |-> V(2, "label"), pass |-> V(2, "word"), token |-> V(3, "placeholder"), ca |-> None]
=============================================================================

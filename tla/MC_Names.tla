------------------------------ MODULE MC_Names ------------------------------
(* Tokens: "u" is a domain id, "v" a version, "a" a letter that may be a   *)
(* server id or a digit, "A" that digit in upper case, "0" and "1" digits. *)
EXTENDS Names, TLC

MCTokens == {":", "@", "#", "/", "u", "v", "a", "A", "0", "1", "+"}
MCDomains == {<<"u">>}
MCServers == {<<"a">>, <<"a", "0">>}
MCVersions == {<<"v">>}
MCDigit == ("a" :> 10) @@ ("A" :> 10) @@ ("0" :> 0) @@ ("1" :> 1)
MCStarts == {<<>>, <<"u", ":">>, <<"u", ":", "a", "@">>, <<"u", ":", "a", "@", "v", "#">>,
             <<"a", "/">>, <<"a", ":", "0", "/", "u">>}

\* '/', '0', '9', ':', '`', 'a', 'f', 'g' and a byte that continues a character
MCHexBytes == {47, 48, 57, 58, 96, 97, 102, 103, 143}

\* Digits, then the encoding of the beginnings of characters: those of 2 bytes
\* or of 3, and of 4 with the second byte below or above where it is limited.
\* Then such beginnings themselves.
MCHexStarts ==
  {<<>>, <<48, 97>>, <<97, 48, 102, 57>>,
   <<49, 99>>, <<50, 99>>, <<48, 101>>, <<100, 101>>, <<102, 101>>,
   <<48, 102, 102, 56>>, <<48, 102, 48, 57>>, <<52, 102, 102, 56>>, <<52, 102, 48, 57>>,
   <<195, 169>>, <<224>>, <<237>>, <<240, 159, 153>>, <<244>>}
=============================================================================

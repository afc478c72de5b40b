----------------------------- MODULE MCSelection -----------------------------
(* Instances of Selection for TLC.  The codes are strings: their alphabet is *)
(* given by hand.                                                            *)
EXTENDS Selection, TLC

FourCodes == <<"en", "ko", "vi", "zh">>
ThreeCodes == <<"en", "ko", "vi">>

Tiers == ("en" :> 3) @@ ("ko" :> 1) @@ ("vi" :> 2) @@ ("zh" :> 1)
TierOf3 == [c \in {"en", "ko", "vi"} |-> Tiers[c]]

\* The default of source_lang_priority.
English == <<"en">>

ChineseLists == {<<"zh", "en">>, English, <<>>}
KoreanList == {<<"ko">>}
=============================================================================

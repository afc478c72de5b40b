------------------------------- MODULE MCPipeline -------------------------------
(* Two characters; documents of up to three cues. *)
EXTENDS Pipeline, TLC
CONSTANTS A, B, Intimate, Neutral
C(raw, gap, tagged, enclosed) ==
  [raw |-> raw, gap |-> gap, size |-> 1, tagged |-> tagged, enclosed |-> enclosed]
Plain  == C(FALSE, FALSE, FALSE, FALSE)
Song   == C(TRUE, FALSE, FALSE, TRUE)
Tagged == C(FALSE, FALSE, TRUE, FALSE)
Aside  == C(FALSE, FALSE, FALSE, TRUE)
Later  == C(FALSE, TRUE, FALSE, FALSE)

OneScene  == <<Aside, Song, Plain>>
TwoScenes == <<Song, Tagged, Later>>

Setting(aware, mode, attribution, review, threshold, dated) ==
  [aware |-> aware, mode |-> mode, attribution |-> attribution, review |-> review,
   repairs |-> 1, attempts |-> 2, maxCues |-> 2, attrCues |-> 1, reviewCues |-> 3,
   chunk |-> 2, threshold |-> threshold, dated |-> dated]
E(t, l) == [terms |-> t, locked |-> l]
Map(e)  == <<A, B>> :> e @@ <<B, A>> :> Vacant

Case(doc, s, e) == [source |-> doc, settings |-> s, map |-> Map(e)]
MCCases ==
  {Case(TwoScenes, Setting(TRUE, "json_object", TRUE, FALSE, 2, TRUE), e) :
     e \in {Vacant, E(Intimate, FALSE), E(Intimate, TRUE), E(NoTerms, FALSE)}}
  \union {Case(doc, Setting(TRUE, "text", TRUE, TRUE, 3, FALSE), E(Intimate, FALSE)) :
            doc \in {OneScene, TwoScenes}}
  \union {Case(OneScene, Setting(TRUE, "auto", FALSE, FALSE, 2, TRUE), E(Intimate, FALSE))}
  \union {Case(doc, Setting(FALSE, "auto", TRUE, TRUE, 2, TRUE), Vacant) :
            doc \in {OneScene, TwoScenes}}

MCReciprocal == Intimate :> Intimate
MCCanMean == {<<<<A, B>>, 2>>}
MCCanHappen == {[pair |-> <<B, A>>, terms |-> Intimate]}
MCCharacters == {A, B}
MCTerms == {Intimate, Neutral}
=============================================================================

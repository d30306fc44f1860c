------------------------- MODULE MCSourceParseCache -------------------------
(* Five envelopes: one, an alias with the same text, a comment-only edit of *)
(* it, the edited text under another profile (not sealed), and a large text *)
(* that does not parse.  Locations can be rebased only from the first text. *)
EXTENDS SourceParseCache, TLC

CONSTANTS first, alias, edited, other, broken,
          text, editedText, brokenText, profile, otherProfile, tokens, brokenTokens

AllEnvelopes == {first, alias, edited, other, broken}
MCText == first :> text @@ alias :> text @@ edited :> editedText @@ other :> editedText
          @@ broken :> brokenText
MCProfile == [e \in AllEnvelopes |-> IF e = other THEN otherProfile ELSE profile]
MCSig == text :> tokens @@ editedText :> tokens @@ brokenText :> brokenTokens
AllTexts == {text, editedText, brokenText}
Valid == {<<text, profile>>, <<editedText, profile>>, <<text, otherProfile>>, <<editedText, otherProfile>>}
OneWay == {<<text, editedText>>}
Varied == text :> 1 @@ editedText :> 2 @@ brokenText :> 3
=============================================================================

----------------------------- MODULE MCPlayback -----------------------------
(* Small instances of Playback for TLC. *)
EXTENDS Playback

CONSTANTS a, b,       \* mrls that play
          bad, dead, odd, cfg

BothWays == {1, -1}

NoAlternates == <<>>

\* One entry that plays, then up to three of any kind.
MixedLists ==
  {<<a>> \o s : s \in UNION {[1 .. n -> {b, bad, dead, odd}] : n \in 0 .. 3}}

AnyLists     == {<<a, odd>>, <<odd, dead>>, <<b, cfg>>, <<a, bad, b>>}
TimedLists   == {<<a, bad>>}
=============================================================================

------------------------------ MODULE MCStreams ------------------------------
(* An instance of Streams for TLC.  The tokens, in the order of their bytes:  *)
EXTENDS Streams

MCDash == 1     \* -
MCDot == 2      \* .m4s
MCSlash == 3    \* /
MCZero == 4     \* 0; digits follow
Pad(n) == IF n < 4 THEN 5 + n ELSE 26 + n \* 00000n
One == 9
Two == 10
a == 21
b == 22
MCInitFile == 23
MCSegFile == 24
MCStreamPrefix == 25
MCVariantsDir == 26

Under(v) == <<MCStreamPrefix, a, MCSlash, MCVariantsDir, MCSlash, v, MCSlash>>
Seg(v, digits) == Under(v) \o <<MCSegFile>> \o digits \o <<MCDot>>

MCIndex == <<
  <<a>>,
  <<MCStreamPrefix, a, MCDash, b, MCSlash, MCInitFile>>,
  Under(a) \o <<MCInitFile>>,
  Seg(a, <<Pad(0)>>),
  Seg(a, <<Pad(1)>>),
  Under(b) \o <<MCInitFile>>,
  Seg(b, <<Pad(0)>>),
  Seg(b, <<One, MCZero>>),
  Seg(b, <<Two>>),
  <<MCStreamPrefix, a, MCZero, MCSlash, MCInitFile>>,
  <<MCStreamPrefix, b, MCSlash, MCInitFile>> >>

MCInitials == {Range(MCIndex), Range(MCIndex) \ {MCIndex[7], MCIndex[8]},
               Range(MCIndex) \ {MCIndex[3], MCIndex[2]}}
MCAsked == {<<>>, <<MCStreamPrefix, a>>}
MCAskedStreams == {<<>>, <<a>>}
MCLimits == {0, 1, 2, 3}
MCIds == {<<a>>, <<a, MCSlash>>}
MCVariants == {<<a>>, <<b>>}
MCNumber == <<Pad(0)>> :> 0 @@ <<Pad(1)>> :> 1 @@ <<One, MCZero>> :> 10 @@ <<Two>> :> 2
MCPadded == [n \in 0..31 |-> Pad(n)]
MCMeta ==
  [k \in Range(MCIndex) |->
     [bandwidth |-> IF k = MCIndex[6] THEN 2 ELSE 1,
      type      |-> IF k = MCIndex[6] THEN "audio" ELSE "video",
      index     |-> IF k = MCIndex[4] THEN 0 ELSE Absent,
      duration  |-> CASE k = MCIndex[9] -> 80000
                     [] k \in {MCIndex[4], MCIndex[5]} -> 20600
                     [] OTHER -> Absent]]
=============================================================================

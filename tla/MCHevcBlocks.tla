----------------------------- MODULE MCHevcBlocks -----------------------------
(* Small streams for HevcBlocks. *)
EXTENDS HevcBlocks

Unit(mode, part, flags, residual) ==
  [mode |-> mode, part |-> part, pred_flag |-> flags, planar |-> FALSE, residual |-> residual]

Intra(part, residual) == Unit("INTRA", part, <<1, 1>>, residual)
Skip                  == Unit("SKIP", 0, <<1, 1>>, "none")
Inter(part, residual) == Unit("INTER", part, <<1, 1>>, residual)

Sps(cb, log, tb, w, h) == [cb |-> cb, ctb |-> log, tb |-> tb, width |-> w, height |-> h]
Stream(s, p, u)        == [sps |-> s, pictures |-> p, units |-> u]

\* Every kind of block, in a picture of one coding tree block.
Kinds ==
  Stream(Sps(3, 4, 2, 16, 16), <<<<"I">>, <<"B">>>>,
    {Intra(0, "dark"), Intra(0, "pcm"), Intra(3, "split"), Intra(0, "swallowed"), Skip,
     Inter(1, "none"), Unit("INTER", 5, <<2, 3>>, "split"), Inter(6, "coded"),
     [Intra(0, "coded") EXCEPT !.planar = TRUE]})

\* Borders, with blocks of two sizes; the third picture uses them.
Letterbox ==
  Stream(Sps(3, 4, 2, 24, 24), <<<<"I">>, <<"I">>, <<"P">>>>, {Intra(0, "coded"), Intra(0, "dark"), Skip})

\* Coding blocks of 16x16 with quarters, two slices in a picture.
Slices ==
  Stream(Sps(4, 4, 3, 32, 32), <<<<"I", "P">>, <<"P", "I">>>>,
    {Intra(0, "coded"), Intra(0, "dark"), Intra(0, "fails"), Skip, Inter(3, "split"), Inter(2, "none")})

\* Blocks of 64x64, whose counts leave the array.
Large ==
  Stream(Sps(5, 6, 4, 64, 64), <<<<"I">>, <<"P">>>>,
    {Intra(0, "split"), Skip, Inter(4, "none"), Inter(7, "split")})

Portrait == Stream(Sps(3, 4, 2, 16, 24), <<<<"I">>>>, {Intra(0, "coded"), Intra(0, "dark")})

SmallStreams == {Kinds, Letterbox, Slices, Large, Portrait}
=============================================================================

# A specification of the bitstream mode 3 video parser

The parser reads a video file through a patched ffmpeg and hands out, for every
picture, a `VIDEO_STAT` record (frame type, QPs, block types and shapes, motion,
spatial and temporal complexity, black border), and, in the C client, a table
with averages for each group of pictures.  This directory holds TLA+ modules for
the parts of it that have control worth checking, the TLC configurations that
check them, and proofs for TLAPS.

All paths are relative to the repository; line numbers are those of the sources
the modules were written from.  `PROJECT.json` names the lines of every
definition (`map`), the runs, their mutants, the hazards and the theorems.

## 1. The system

One process, one thread.  A client calls four C functions; the library drives
ffmpeg's demuxer and decoder; the patched decoder calls back into the codec
modules, which write into a `VIDEO_STAT` that is a member of ffmpeg's `AVFrame`.

```
 client                VideoParser.cpp            patched ffmpeg           codec modules
 ------                ---------------            --------------           -------------
 OpenVideo      -----> CVideoParser::OpenVideo -> open, find stream    -> Init*/Mb*Statistics
                                                    (decodes some pictures)
 ReadNextFrame  -----> ReadNextFrame           -> av_read_frame
                       decode_packet           -> avcodec_decode_video2 -> Init*/Mb*/Mode*Statistics
                                                    (AVFrame.FrmStat)      (once per slice, block)
                       AnalysePacket           ------------------------->  GetVideoStatistics*
                       (fills FrameStat)                                   (once per output picture)
 GetFrameStatistics -> hands out FrameStat, adds it to SeqStat
 GetSeqStatistic ----> closes a row of SeqStat and averages it
```

| Component | Source (under `src/`) | State | Operations |
|---|---|---|---|
| Session and packet loop | `VideoParser/VideoParser.cpp` | `pkt`, `EoP`, `EoS`, `VideoStreamIdx`, `PicCnt`, `FrameStat` | `OpenVideo`, `ReadNextFrame`, `decode_packet`, `AnalysePacket`, `GetFrameStatistics` |
| Sequence table | `VideoParser/VideoParser.cpp` | `GOB_Cnt`, the client's `SeqStat` (8 rows, 4 frame types) | `GetFrameStatistics`, `SumUp_FrameStat`, `GetSeqStatistic` |
| H.264 statistics | `VideoParser/VideoStat264.c` | `FrmStat` of the `AVFrame`; statics `PrevPOC`, `PrevPTS`, `POC_Dif`; `Started`, `CurrBlackBorder` | `InitFrameStatistics264` (each slice), `MbStatistics264` (each macroblock), `EstimateBlackBorder264`, `GetVideoStatisticsH264` |
| HEVC statistics | `VideoParser/VideoStatHEVC.c` | the same | `InitStatisticsHEVC`, `MbStatistcsHEVC`, `TransfStatHEVC`, `ShapeStatisticsHEVC`, `GetVideoStatisticsHEVC` |
| VP9 statistics | `VideoParser/VideoStatVP9.c` | `FrmStat`; `VP9Hidden_FrmStat`, `FrameDistance`, `Started` | `InitFrameStatisticsVP9`, `ModeStatistics`, `FrameStatistics`, `GetVideoStatisticsVP9` |
| Common statistics | `VideoParser/VideoStatCommon.c` | `PrevStat`, two luma buffers and `Curr` | `BlackborderDetect`, `QPStatistics`, `CoefsStatistics`, `FinishStatistics`, `GetResolution`, `GroundTruth_P910`, `GroundTruthTI` |
| Hooks in ffmpeg | `ffmpeg/libavcodec/h264_*.c`, `hevc.c`, `vp9.c`, `ffmpeg/libavutil/frame.c` | `AVFrame.FrmStat`, copied with the frame; `PU_Stat`, `BlkCnt4x4`, which the block loops of HEVC and VP9 write | calls of the functions above |
| Clients | `TestMain/TestMain.cpp`, `PythonInterface/lib/*.py` | the result of the last call, the statistics collected | open, read until the end, collect |
| Output, build | `PythonInterface/parse.py`, `VideoParser/dllmain.cpp`, `build.sh` | none | I/O |

Where it is hard, and what makes each part correct:

* **The packet loop** keeps three variables over calls of `ReadNextFrame`, and
  four things may happen in a call (other stream, error, no picture, picture).
  Correct: every payload is decoded once, every picture is handed out once,
  also those held back for reordering at the end of the file, and the loop ends.
* **The sequence table** depends on two counters that two different functions
  move, saturates at its last row, and averages in place.  Correct: every frame
  is summed once where it belongs, closing states the right length, averages
  are averages, rows of earlier groups stay.
* **Counting macroblocks** (H.264) happens in a nest of flag tests with indices that
  may leave their arrays.  Correct: the three ways of counting agree (the code
  asserts it), every macroblock's QP is in one sum, motion is measured where
  there is prediction, and a picture's counts are the picture's.
* **Counting blocks** (HEVC, VP9) happens while the decoder walks a tree that
  depends on the picture's edges, partly in ffmpeg's own functions.  Correct:
  the areas counted by shape, transform and type are the area decoded.
* **The black border** is found from rows of blocks without coefficients, per
  slice or picture, and left out of the QPs of the pictures that follow.
  Correct: it is the largest there is, and leaves something to average.
* **Decoding order against output order.**  While the decoder works on later
  pictures, statistics of earlier ones are completed from process-wide
  variables that nothing resets.  Correct: whatever a picture takes from other
  pictures is taken from the right one.
* **VP9's copies.**  `VIDEO_STAT` is copied bytewise with a pointer to memory
  the client's call frees.  Correct: freed once, never used afterwards, and the
  statistics in a copy are those of the picture it is displayed with.
* **HEVC's copies.**  The decoder takes the picture to be output, and a copy of
  its statistics, when it starts the next picture; that may be the same one, whose
  blocks are not counted yet.  Correct: every picture comes once, in display
  order, with its own counts.

There are no threads, no locks, no timers and nothing is persisted, so there
are no interleavings of threads, time-outs or restarts to model.  What
interleaves are decoding and output of pictures, the calls of the client, and
several videos parsed by one process.

## 2. The modules

| Module | What it is |
|---|---|
| `FrameStream` | what a session promises: pictures are handed out once each, and the end is reported with all of them out or because the session was given up |
| `ReadLoop` | the packet loop with a client, demuxer and decoder; implements `FrameStream` |
| `ReadLoopProofs` | theorems about `ReadLoop` |
| `SeqStatistics` | picture numbering, classification and the sequence table |
| `SeqStatisticsProofs` | theorems about `SeqStatistics` |
| `MbStat264` | macroblock statistics of an H.264 picture |
| `MbStat264Proofs` | theorems about `MbStat264` |
| `PictureHistory` | what H.264 and HEVC statistics take from other pictures |
| `PictureHistoryProofs` | theorems about `PictureHistory` |
| `BlackBorder` | `BlackborderDetect` as a function, and what it promises |
| `OperatorProofs` | that it keeps its promise; lemmas about least elements, products and quotients, powers of 2, and sums over sets and sequences |
| `BlackBorder264` | black rows, border and QPs outside of it, of H.264 pictures in slices |
| `BlackBorder264Proofs` | theorems about `BlackBorder264` |
| `HevcBlocks` | coding quadtree of HEVC pictures: shapes, transforms, types, border |
| `HevcFrames` | output of HEVC pictures, copies of statistics, motion field memory |
| `HevcProofs` | theorems about `HevcFrames` and `HevcBlocks` |
| `VP9Frames` | hidden and short frames, copies of statistics, motion field memory |
| `VP9Blocks` | partition tree of VP9 frames: areas, types, border, QPs |
| `VP9Proofs` | theorems about `VP9Frames` and `VP9Blocks` |
| `MC...` | small sets of files, pictures, macroblocks and videos for TLC |

The modules meet at one action, the analysis of an output picture.  `ReadLoop`
treats it as the step that fills `FrameStat`; `SeqStatistics` starts from it;
`PictureHistory`, `HevcFrames` and `VP9Frames` are about what it reads; `MbStat264`,
`BlackBorder264`, `HevcBlocks` and `VP9Blocks` are about what was counted before
it.  They share no variables other than `Started`, `PicCnt`, `FrameStat` and
`CurrBlackBorder`, and each models the writes to these in full.  `BlackBorder`
is extended by the three modules that count rows of blocks.

### ReadLoop

A file is a sequence of packets, each of a stream; a video packet is made of
units, one for each call of the decoder that consumes something: a picture,
something that yields none (a parameter set), or something that makes the
decoder fail.  The decoder of a file holds back at most `Delay` pictures and outputs any
of those it holds (the order is the codec's business).  `pos` is the position
of the demuxer; `pkt`, `EoP`, `EoS`, `FrameStat` are the members of
`CVideoParser`.  A call of `ReadNextFrame` is one of four actions, with the
common first statement in `Fetched`: `OtherStream` (line 311), `DecodeError`
(319), `GotFrame` (321-325), `NoFrame`.  The clients' loops are
`ClientGetsFrame` and `ClientGoesOn`; `client` says which of the two programs it
is.  A failed `OpenVideo` ends TestMain, and
crashes the Python client, which ignores the result.  `times`, `collected` and
`failed` are history variables.

Assumed: a packet of the video stream is not empty (`FilesAssumption`), and a
decoder that leaves part of a packet for the next call outputs a picture for
every part it takes (`DecoderAssumption`; the three decoders with statistics
always consume whole packets).  The second is needed: if a call consumes part of
a packet and yields no picture, `ReadNextFrame` leaves the packet as it is.
The release of packets is left out, and with it one thing the code does not do
right for packets of two pictures: `orig_pkt`, the packet to be freed, is a local
variable of `ReadNextFrame` that is set only when a packet was read
(`VideoParser.cpp:299`, `314`), so the call that takes the second picture frees an
uninitialised one (`326`).  What the model says of such packets is about which
units are decoded and handed out.

### SeqStatistics

`AnalysePacket` and `GetFrameStatistics` alternate; then `GetSeqStatistic` is
called for every row, as in TestMain.  The table has one row in front of its
first, because `GOB_Cnt` starts at -1.  `x[i++].a = x[i].b` has no defined
order of evaluation, and both orders are modelled (`late`).  Of the averaged
fields three are kept: one that is treated regularly, and the two that are not
(`SKIP_mb_ratio`, `Blockiness`).  `handed` is a history variable.

### MbStat264

A macroblock is the set of its type flags, one set for each of its quarters and
the set of its coded quarters.  `StartSlice`, `MbStatistics264`,
`GetVideoStatisticsH264` are the three hooks; `NextPicture` reuses the frame.
`CurrTypes` gives the types `MV_Statistics264` works with; where the index
leaves `sub_mb_type` any of the types that may stand there is taken.  Sums of
vector lengths and coefficients are left out; of the motion the number of
quarters measured in each direction is kept.  `MacroblocksAssumption` says which
macroblocks there are: those of the tables of types in h264data.c, and what a
direct one becomes.

### PictureHistory

`OpenVideo` calls `avformat_find_stream_info`, which decodes pictures from the
beginning of the video until it knows its parameters and, for H.264, how many
pictures are reordered (`libavformat/utils.c:2974`, `967`). It does so with a
decoder of its own, but through the same `InitFrameStatistics264` and the same
search for the border, so `PrevPOC`, `PrevPTS`, `POC_Dif` and `CurrBlackBorder`
have moved before the session decodes its first picture, which is then compared
with the last one probed. How many pictures that are (few if pictures are
reordered and the sequence parameter set says by how many, otherwise enough for an
H.264 decoder to output seven or more, unless the file ends or ffmpeg's limits are
reached before) is not modelled: `ProbePicture` takes any number of first
pictures, `EndProbe` stops at any of them. Nothing probed is output or analysed,
so the other variables stay. Assumed is that the file has one video stream
(another would be probed, too) and that packets have the same times and durations
on both occasions.

Pictures of the session are decoded in one order (`DecodePicture`) and output in
another (`SkipPicture`, `AnalysePicture`, `MisusesBuffer`, or `NoPicture` if the
call yields none). The variables nothing resets live on over `OpenVideo`. `report`
says from which pictures the statistics of the last output picture were taken; a
picture is named by its session and its position in it. The model stops where the
code reads a null buffer or uses one allocated for another size. A session may be
left at any point, and the next may start; sessions that overlap in one process,
which would share `Started` and `Curr`, are left out: no client does it.

### BlackBorder, BlackBorder264

`BlackborderDetect` folds the lower half of `BlackLine` onto the upper one in
place and counts the leading rows.  `Folded` is the array after the first loop,
`BlackLines` what the second one counts.  `IsBorder` states the result without
either.  `BlackBorder264` is the slice loop around it: `InitFrameStatistics264`
allocates `BlackLine` and clears the statistics for every slice,
`MbStatistics264` counts a macroblock (in the row it is in, up to 255) and its QP
(once more if it lies between the borders), `EndSlice` searches the border.  Of a
macroblock only matters whether it is intra without coefficients.  `dark` is the
count that does not saturate, `excluded` the border the slice started with.

### HevcBlocks

`SplitNode` and `CodingUnit` walk `hls_coding_quadtree`; the nodes to be visited
are a stack, so that there is no recursion.  A coding unit is its prediction
mode, its partition, the lists its two halves are predicted from, planar or not,
and one of eight shapes of its residual; `Admitted` says which of those the syntax allows at
a block.  Counting happens at three places: `PU_Stat` in the quadtree
(`CountPU`), `TrShapes` in the transform tree (`TransfStatHEVC`), and
`MbStatistcsHEVC` behind the coding unit.  The residual "swallowed" is a
transform tree whose first quarter fails: `ret = f() < 0` makes the error a 1,
which the callers take for success (`hevc.c:1239`).  An error that is not
swallowed ends the slice segment before the border is searched, and
`decode_nal_unit` reports success all the same: the next segment begins somewhere
behind it, or the picture is analysed as it is (`stage = "lost"`).  The model stops
where `BlackLine` is overrun.  QPs are counted, not summed.  `BlocksAssumption` is
what `ff_hevc_parse_sps` accepts: blocks of powers of 2, transforms smaller than the
smallest coding block, sizes that are multiples of it.  `coded`, `segment` and
`stage` have names of their own because `HevcProofs` extends `HevcFrames`, too; so
have `BlocksInit`, `BlocksNext` and the like.

### HevcFrames

A call of `hevc_decode_frame` is `hevc_frame_start`, one `DecodeSlice` per slice
segment and `EndPacket`; or `SkipPacket`, for a leading picture whose references
are missing; or `Flush`.  `ff_hevc_output_frame` chooses the picture to be output
among `waiting` and copies its statistics into `output_frame`; `EndPacket` copies
them again if that is the picture just decoded and the window has no offset
(`CopiesAgain`).  `HandOut` is `GetVideoStatisticsHEVC` and the client's
`GetFrameStatistics`.  The statistics are named by the picture and slice segment
they count, and so is the motion field they point to.  The frames kept for
reference only are left out: they have been output and nobody reads their
statistics; so is `ff_hevc_bump_frame`, which only protects pictures of a stream
that exceeds its own `max_dec_pic_buffering` from being discarded.
`ReorderAssumption` is what a stream promises by `sps_max_num_reorder_pics`: of
the pictures decoded before one of the same sequence at most so many are displayed
after it.  The decoder relies on it; without it the order of output is not that
of display.

### VP9Blocks

`DecodeSb` decides the partition of a node and pushes what `decode_sb` calls,
without what lies outside of the frame; `DecodeB` is `ModeStatistics` for a
block.  Both add to `BlkCnt4x4`, `decode_sb` for a lower half outside of the
frame (`Below`), `decode_b` for the block (`Area`).  Sizes are in pixels and any
multiple of 4 may be given; the block arithmetic is the code's.  One transform's
coefficients sum to 0 or do not for a whole block at once.

### VP9Frames

`DecodeFrame` is `vp9_decode_frame` with its hooks, in their order: statistics
are initialised, the reference slots take copies, the blocks are counted, and
`FrameStatistics` exchanges statistics with `VP9Hidden_FrmStat`.  `ShowExisting`
is the header that displays a slot.  `HandOut` is `GetVideoStatisticsVP9` and
the client's `GetFrameStatistics`, which frees the motion field of whatever
statistics it got.  A field is named by the frame that allocated it.  Of the motion sums is
kept what they were divided by (`Divided`).

## 3. The runs

Run one with `tlc -config <Run>.cfg <module>`.

| Run | Module | Expected | What it shows |
|---|---|---|---|
| `ReadWhole` | `MCReadLoop` | holds | both clients, files of up to five packets with decoder delay 2 or packets of two pictures, `OpenVideo` may fail: decoded once, conserved, nothing lost, the loop ends, `FrameStream` implemented |
| `ReadSecondStream` | `MCReadLoop` | violated | finding 1 |
| `SeqTable` | `MCSeqStatistics` | holds | six pictures, three rows, H.264, VP9 and a codec without statistics: rows, columns, lengths, averages |
| `MbPictures` | `MCMbStat264` | holds | two macroblocks in at most two slices, every kind of macroblock in every slice type: the counts |
| `MbAsserts` | `MCMbStat264` | violated | finding 2 |
| `History` | `MCPictureHistory` | holds | two videos of four pictures in one process, probed up to any of their pictures when they are opened, the first possibly left early: everything taken from other pictures is the right picture's, the POC distance that of neighbours |
| `Border264` | `MCBlackBorder264` | holds | pictures of four and five rows in one or two slices, any macroblock dark or not: the border is the largest, the QPs are those outside of the last |
| `HevcPictures` | `MCHevcBlocks` | holds | blocks of 8x8 to 64x64, every mode, partition and shape of residual, slice segments lost to an error: areas, types, border, `Av_QPBB` |
| `HevcFrames` | `MCHevcFrames` | holds | two sequences, up to two pictures held back, skipped, hidden and discarded ones, windows with and without an offset: order, statistics, motion fields |
| `VP9Blocks` | `MCVP9Blocks` | holds | every partition in frames that are no multiple of a superblock: areas, classes, border, `Av_QPBB` |
| `VP9Shows` | `MCVP9Frames` | holds | seven frames, hidden, short and shown from slots: fields freed once, statistics with their picture, motion divided once |
| `VP9ShortFrames` | `MCVP9Frames` | violated | finding 3 |

### Bounds, and why they are enough

* **`ReadLoop`**: `MaxPackets` 5 with one unit each, or 4 with up to two,
  `Delay` 2 for the former.  Five
  packets hold a picture that waits while two others enter, a packet of another
  stream, and one that yields nothing, in all orders.  The end of the file, where
  the delayed pictures are drained, is reached with 0, 1 and 2 pictures held.
  The safety properties are also proved for all values (section 5).
* **`SeqStatistics`**: `LastRow` 2, `MaxFrames` 6.  Three intra pictures fill
  the table and three more find it saturated; with six pictures every row may
  hold several types, and pictures without a number or without statistics may
  stand at every place.  The code's eight rows differ in number only.
* **`MbStat264`**: `NumMb` 2, `MaxSlices` 2, `QPs` {1, 3}.  Counting is a sum
  over macroblocks, so two macroblocks show what one adds to another; two slices
  of different types in one picture, with or without a macroblock counted before,
  are where the picture's type and the slice's differ.  `MCMbStat264` lists every
  kind of macroblock h264data.c defines that the flag tests tell apart.
* **`PictureHistory`**: `MaxSessions` 2, videos of 4 pictures.  The luma buffers
  and `PrevStat` reach back two pictures, so the fourth picture depends on none
  of the first; the second session starts with whatever buffer and window the
  first left behind, and with the POC distance and border that the first and the
  probe did. The probe takes none, some or all of the four pictures. All of its
  properties are also proved, for all videos (section 5). Four decoding orders
  (none, one and two B pictures, pictures displayed before the first), four type
  patterns, POC steps 1 and 2, two sizes, with and without durations.
* **`BlackBorder264`**: `Cap` 3 in place of 255, widths 2, 3 and 5, heights 4
  and 5: an even and an odd number of rows, a picture no wider than the counter
  counts, and one whose dark rows need more than the counter holds.  All
  distributions of dark macroblocks, all places where a second slice may start.
  The properties are also proved for all sizes (section 5).
* **`HevcBlocks`**: five streams.  `Kinds` has every mode and residual in a
  picture of one coding tree block; `Letterbox` has borders and a picture that
  uses them; `Slices` has quarters, errors and two slice segments of different
  types; `Large` has 64x64 blocks, whose vertical quarter splits are counted
  behind the array; `Portrait` overruns `BlackLine`.
* **`HevcFrames`**: two sequences, so that the second meets what the first still
  holds; up to four pictures behind an IDR picture, in the orders of no, one and
  two pictures held back; streams that begin with a CRA picture or without an
  intra picture; one and two slice segments in turn.
* **`VP9Blocks`**: seven streams.  `Edges` (24x20) has all partitions at all
  edges, `Wide` a full row of blocks above an edge, `Small` all blocks below 8x8,
  `Strip` a second superblock, `Letterbox` and `Cut` borders and segments (`Cut`
  with the last row cut to its upper half), `Portrait` overruns `BlackLine`.
* **`VP9Frames`**: two of the eight slots, interchangeable; `MaxFrames` 7.  A
  key frame, a hidden one, four that are displayed and the short one are the
  fewest for which the motion is divided by more than 1.

### Fairness

Only `ReadLoop` has liveness properties, under `WF_vars(Next)`: the process has
one thread that waits for nobody, so it takes its next step.  No action is
favoured: the decoder may hold back pictures as long as `Delay` allows, and must
output at the end, which is what flushing a decoder with empty packets does.  The
other modules state safety only.

### Mutants

Definitions marked "Variant with a defect" stand for the definition behind them
with a plausible mistake: a counter that is not capped, a packet that is not
advanced, a variable not cleared, buffers swapped too early.  No behaviour of the
code uses them.  `PROJECT.json` names, for every property of a passing run, the
variant that violates it in that run, so that no property holds for lack of cases.

## 4. Findings

What the runs marked "violated" show.  Each contradicts a line of the repository.

1. `ReadSecondStream`: behind the last packet the flush packet has stream index
   0, so a video that is another stream of its container is never flushed, -1 is
   never returned, and the client's loop does not end (`VideoParser.cpp:311`).
2. `MbAsserts`: the assertions at the end of `GetVideoStatisticsH264` fail for
   an `INTRA_PCM` macroblock, which has no type or shape (`VideoStat264.c:61`).
3. `VP9ShortFrames`: every VP9 frame of less than 100 bytes takes over the hidden
   frame's motion field; two of them free it twice (`VideoStatVP9.c:471`).

More definitions state what a comment says and do not hold.  No run is kept for
them; name the definition in the .cfg to see it fail.

| Definition | How to see it | What happens |
|---|---|---|
| `SeqStatistics!SkipRatioIsAverage` | `Decoded <- RatioPictures` | `SumUp_FrameStat` adds `PredFrm_Intra` to `SKIP_mb_ratio` (`VideoParser.cpp:169`; `VideoStat.h:83`) |
| `SeqStatistics!DocumentedFrameType` | `SeqTable` | pictures without statistics are handed out with type 0 (`VideoParser.cpp:323`; `VideoStat.h:125`) |
| `MbStat264!TypeQPIsAverage` | `MbPictures` | QPs are summed once per macroblock by the type of its last quarter, and divided by quarters (`VideoStat264.c:314`; `VideoStat.h:91`) |
| `MbStat264!SkipRatioDocumented` | `MbPictures` | 4 per skipped macroblock, divided by 16 per macroblock (`VideoStat264.c:324`; `VideoStat.h:83`) |
| `MbStat264!WholeFieldMeasured` | `MbPictures` | in a B picture 8x8 macroblocks are measured by the type of one quarter (`VideoStat264.c:214`; `VideoStat.h:93`) |
| `MbStat264!AllMbsAnalyzed` | `MbPictures` | every slice clears the picture's statistics, the last slice's are reported (`VideoStat264.c:409`; `VideoStat.h:82`) |
| `VP9Frames!FieldsSafe` | `VP9Shows` with `MaxRepeats = 1` | a slot displayed twice has its field freed twice (`vp9.c:3931`) |
| `VP9Frames!BlocksCounted` | `VP9Shows` | a slot that is displayed has the statistics from before its blocks were counted (`vp9.c:3987`; `VideoStat.h:82`) |
| `PictureHistory!BorderExcluded` | `History` | the QPs of an intra picture are averaged without the border of the intra picture before it, not its own (`VideoStat264.c:308`; `VideoStat.h:87`) |
| `PictureHistory!MotionScale` without its condition `session = 1` | `History` | without durations `POC_Dif` is the smallest difference so far in the process, whatever video it is of, starting at 8 (`VideoStat264.c:423`) |

`TableMatchesFrames`, `ClosedRowLength`, `BuffersFit`, `MotionScale`,
`MotionMeasured`, `BorderOfPicture`, `BlocksCoverSlice`, `AverageDefined`,
`PicturesHandedOut`, `ClassifiedOnce` and `BorderUsable` hold under conditions they name; each
condition is one the code does not enforce.  What happens without it:

* `BorderOfPicture`: a counter saturates at 255, so a picture of which 0.8 times
  the width is more than 255 macroblocks (5120 pixels and more) has no border,
  however dark it is.  A picture of several slices has the border of its last
  slice alone: `BlackLine` is allocated anew for each, and the old one leaked
  (`VideoStat264.c:412`).
* `BlocksCoverSlice`: the partitions nLx2N and nRx2N are counted as 2Nx2N and
  2NxN of the next larger size, those of 64x64 blocks in the member behind
  `PU_Stat` (`hevc.c:2262`); PCM blocks have no transform and are missing from
  `TrShapes`; after a swallowed error three quarters of a block are missing.  A
  slice segment that fails loses its rest and its border.
* `PicturesHandedOut`: a conformance window with an offset at the left or at the
  top makes `hevc.c:3044` compare different addresses, and a picture that is
  output at once comes with empty statistics; `GroundTruthTI` then reads the
  motion field through a null pointer (`VideoStatHEVC.c:61`), unless the picture
  is an I picture or the first.
* `TypesCoverSlice` says which prediction blocks, skipped or intra blocks are
  counted, not in which direction those are predicted: the vectors are read in
  the upper left quarter of a block (`VideoStatHEVC.c:304`), so a second
  prediction unit is seen in part or never.
* `BorderOfIntra`, `BorderUsable`: a picture higher than wide overruns
  `BlackLine` in HEVC; in VP9 so does one with fewer columns than its superblocks
  have rows.
* `AverageDefined`, `BorderUsable`: `Av_QPBB` is 0/0 for a P picture in which
  everything between the borders is skipped (its QPs are not counted), for a last
  slice that lies in the border, for blocks that begin above the border and are
  higher than what is left, and for a VP9 frame with segments that is dark in
  all but its two middle rows of 4x4 blocks and has an even number of rows of 8x8
  blocks, the last of them cut to its upper half (540 lines, say: the lines between
  268 and 272 are left, and no row of 8x8 blocks begins there).
* `AreaCounted`: a block outside the frame is counted with the next one if it is
  below the frame, not if it is right of it or in the corner; of the two blocks of
  8x4 or 4x8 one is counted (the comment in `VideoStatVP9.c:432` says "scaled to
  4x4px").
* `ClassifiedOnce`: an inter block smaller than 8x8 counts its vectors and drops
  what was carried over from below the frame (`VideoStatVP9.c:308`).

Also seen, without a definition: the loop printed in `development.md:46` stops at
the first packet that yields no picture, because `ReadNextFrame` returns 0 for
that and -1 at the end (`VideoParser.cpp:333`); a PCM block's type is read from the
intra mode of a block before it (`VideoStatHEVC.c:336`); a short VP9 frame has
the statistics of the hidden frame and the QPs of its own header; `CurrBlackBorder`
is not reset between files; a HEVC file whose first packet begins behind the first
slice segment of its picture is compared through `s->frame`, which is null until a
picture was started (`hevc.c:3044`); the sums of `FrameSize` in the last row of a
long video are `int`s and may overflow.

## 5. The proofs

The proof modules are checked by `tlapm <module>.tla`.

### ReadLoopProofs

For every set of files, video stream index, decoder delay, client and frame limit
that satisfy `FilesAssumption`, `DecoderAssumption` and `ParameterAssumption`:

| Theorem | States |
|---|---|
| `TypeCorrectness` | `Spec => []TypeOK` |
| `NeverDecodedTwice` | `Spec => []DecodedOnce` |
| `PicturesConserved` | `Spec => []Conservation` |
| `NoPictureLost` | `Spec => []NothingLost` |
| `SessionImplementsStream` | `Spec => Implements`, the refinement of `FrameStream` |

All follow from `Invariance`, `Spec => []IInv`, with

    IInv == TypeOK /\ Progress /\ DecodedOnce /\ Conservation

`DecodedOnce` alone is not inductive: it does not say that the packet the next
call will take was not decoded yet.  `Progress` says it: everything before the
current packet was decoded once, of the current packet the units before
`pkt.unit` or, if `EoP`, all of it, and nothing behind.  It also ties `EoS` to the
end of the file and `ret` to what `FrameStat` holds, which is what `Conservation`
needs to know that nothing is overwritten.  `NothingLost` then needs one more
step: a client that stops without having failed has seen -1, which `NoFrame`
returns behind the end of the file with an empty decoder only.  `Conservation`
turns that into "collected".

The proofs go action by action (`OtherStreamIInv`, `GotFrameIInv`, ...).  Three
lemmas carry the calls of `ReadNextFrame`: `FetchedShape` (what the first
statement leaves behind), `Feed` (feeding the current unit keeps `times` in step
with `Progress`), and `DropUnit` (dropping it from the packet).  The step
simulation is `StreamStep`: `ClientGetsFrame` is `Deliver`, the end of the loop
is `Complete` or `Abort`, everything else stutters.

### PictureHistoryProofs

For every set of videos that satisfies `VideosAssumption`, and any number of
sessions, of which each may be left early:

| Theorem | States |
|---|---|
| `HistoryTypes` | `Spec => []TypeOK` |
| `LumaOfPrevious` | `Spec => []PreviousLuma` |
| `BuffersMisusedOnlyThen` | `Spec => []BuffersFit` |
| `MotionIsOwn` | `Spec => []MotionOfPicture` |
| `BorderIsLastIntra` | `Spec => []BorderOfLastIntra` |
| `WindowIsLastMoving` | `Spec => []FilterWindow` |
| `MotionScaledByNeighbours` | `Spec => []MotionScale` |

    IInv == TypeOK /\ LinedUp /\ BordersKept /\ PreviousLuma /\ BuffersFit /\ MotionOfPicture

`LinedUp` is why the swapped buffers work: once anything was analysed, the buffer
the next picture will not be copied to holds the picture analysed last, and each
allocated buffer has the size of a picture that was analysed; once the session
has `Started`, that last picture is one of the session and has a number, so that
`FrameIdx > 1` holds for every inter picture.  `BordersKept` carries the existence
of a last intra picture along with the pictures decoded, which spares an induction
over their positions.  `AnalyseStep` gathers what one analysis changes; the rest
is one lemma per action.

    Kept == WindowKept /\ FilterWindow /\ ScaleKept

is a second layer that uses the first.  `WindowKept` says that `PrevStat` holds
the last two moving pictures at any time, again by their existence and not by a
recursion over the history.  `ScaleKept` says which POC distance each decoded
picture was given and what the next one will be compared with.  What the probe has
decoded comes in here: in the first session, of a video without durations, the
distance is at least that of neighbours and the POC compared with is a multiple of
it, before the probe (8 and 0), at every picture of it (`ProbePictureKept`) and
after it; `LoweredToStep` is the step for a picture, whoever decodes it.  So nothing
is said of how many pictures were probed.  The video need
not have a constant frame rate: `ConstantRate` is a premise of `MotionScale`.  It
says that POCs are multiples of the distance of neighbours and grow with time
between an inter picture and the one decoded before it; `MultiplesApart` (two
such POCs are equal, neighbours, or further apart) and `ExactQuotient` are the
arithmetic behind it.

### OperatorProofs, BlackBorder264Proofs

| Theorem | States |
|---|---|
| `DetectsBorder` | `IsBorder(line, rows, threshold, height, BlackborderDetect(...))` for every row of counts and threshold |
| `BorderTypeCorrectness` | `Spec => []TypeOK` |
| `BorderIsLargest` | `Spec => []BorderOfPicture` |
| `AverageOutsideBorder` | `Spec => []QPsOutsideBorder` |

for every set of picture sizes, every cap and number of slices.  `BlackLines` is a
`CHOOSE`; that there is such a number needs the least element of a set of
numbers, which `LeastElement` provides from the well-foundedness of `<` on the
natural numbers.  `OperatorProofs` also holds what the counting proofs need of
sums: the fold of the community modules over a finite set is the sum
`Total`, which does not depend on the order, grows by a number's value when the
number joins the set, and does not change with values outside of it.

    IInv == TypeOK /\ Position /\ DarkSoFar /\ CountersAgree /\ Outside /\ Borders /\ BorderOfPicture

adds to `TypeOK` what a slice has counted so far: where the next macroblock is
(`Position`), that rows below it are still zero and no row counts more than it
has macroblocks (`DarkSoFar`), that `BlackLine` is `dark` in a picture of
one slice no wider than the cap (`CountersAgree`), that the QPs outside of the border are as many as macroblocks
lie between the borders before the next one (`Outside`), and that a border is a number
of whole rows and leaves some of the picture (`Borders`).  The step for `MbStatistics264` splits on the end of
a row, and on whether the row lies above, between or below the borders.

### SeqStatisticsProofs

For every codec, set of decoded pictures, number of rows and of frames that
satisfy `DecodedAssumption` and `BoundAssumption`:

| Theorem | States |
|---|---|
| `TableTypeCorrectness` | `Spec => []TypeOK` |
| `EveryFrameInItsRow` | `Spec => []TableMatchesFrames` |
| `ClosedRowsCountPictures` | `Spec => []ClosedRowLength` |
| `EarlierRowsStay` | `Spec => EarlierRowsFixed`, an action property |
| `RatiosAreAverages` | `Spec => []IntraRatioIsAverage` |

    IInv == TypeOK /\ Handover /\ Numbering /\ CounterAgrees /\ TableMatchesFrames
            /\ RowStarts /\ CurrentRowLength /\ ClosedRowLength /\ ClosedOnce
            /\ NothingInFront

`TableMatchesFrames` relates the table to the frames handed out, of which the last
one may not be summed yet (`Handover`).  `ClosedRowLength` needs the length of
the row that is still open (`CurrentRowLength`), which is a difference of two
picture numbers and therefore needs that numbers count the numbered pictures
(`Numbering`) and that all columns of a row start with the same number
(`RowStarts`).  `ClosedOnce` is why saturation at the last row does no harm: a row
that was opened has a picture.  The averages are a second invariant, `Sums`
(every entry is the sum of its frames) and `Divisors` (divided when its row is
averaged, and only then); the first keeps the frames of a row apart from those of
any other while `GetFrameStatistics` adds to it.

### MbStat264Proofs

For every picture size, number of slices, set of QPs, and set of macroblocks that
satisfies `MacroblocksAssumption`:

| Theorem | States |
|---|---|
| `MbTypeCorrectness` | `Spec => []TypeOK` |
| `AssertionsHold` | `Spec => []AssertsWithoutPCM` |
| `OnlyLastSlice` | `Spec => []LastSliceCounted` |
| `QPsByType` | `Spec => []TypeQPsConserved` |
| `MotionOfQuarters` | `Spec => []MotionMeasured` |

    IInv == TypeOK /\ SlicesOf /\ OutputOf /\ AssertsHold /\ LastSliceCounted
            /\ TypeQPsConserved /\ MotionMeasured

The properties are about the statistics when they are output; `AssertsHold` states
the asserted equations for the slice so far.  `SlicesOf` says that what was recorded
are slices of macroblocks that exist, and `OutputOf` that nothing is output before the
first.  The case analysis over macroblock types is in
three lemmas about the counting operators: a macroblock other than
`INTRA_PCM` adds 4 to the types (`TypesCover`), 16 to the shapes (`ShapesCover`)
and 16 to the transforms (`TransformsCover`).  `CountKeepsSums` puts them together.

### HevcProofs, VP9Proofs: frames

| Theorem | States |
|---|---|
| `HevcTypeCorrectness` | `Spec => []TypeOK` |
| `HevcPicturesHandedOut` | `Spec => []PicturesHandedOut` |
| `VP9TypeCorrectness` | `Spec => []TypeOK` |
| `FieldsFreedOnce` | `Spec => []FieldsSafe`, assuming `PicturesShownOnce` |
| `StatisticsBelongToPicture` | `Spec => []StatisticsOfPicture`, assuming `PicturesShownOnce` |

for every HEVC stream that satisfies `StreamsAssumption` and `ReorderAssumption`,
and every VP9 stream of any length and number of slots; the last two for those
in which a slot is not displayed twice and no inter frame is shorter than 100
bytes (`PicturesShownOnce`).  Without it they do not hold (finding 3, and
`FieldsSafe` in the table above).

    IInv == TypeOK /\ SlicesOf /\ StatsOf /\ WaitingOf /\ OutputOf /\ FieldsLive
            /\ HandedOf /\ InOrder /\ Complete /\ StatisticsOfPicture /\ FieldsSafe

for HEVC: `OutputOf` follows the copies of a picture's statistics from its start,
where they are empty, to its end, where `EndPacket` copies them again or not.
`InOrder` puts the pictures handed out, the one to be output and all that are
still to come (those that wait and those not decoded yet) into the order of
display; it is here that the assumption on reordering is needed, in
`ReorderFacts`: if more than `reorder` pictures wait, the first of
them is before all that follow.  `OutputFacts` says what `ff_hevc_output_frame`
does with those that wait.

    IInv == Typed /\ Counted /\ HiddenKept /\ SlotsKept /\ FrameKept /\ FieldsLive
            /\ FieldsSafe /\ StatisticsOfPicture

for VP9: `HiddenKept` says what waits in `VP9Hidden_FrmStat`, `SlotsKept` that
the copy in a slot which may still be displayed points to its own picture's field,
and `FieldsLive` that this field is allocated.  `Counted` bounds the pictures
displayed by `FrameIdx`, which is what makes a slot with a displayed picture one
that is displayed twice.

### HevcProofs, VP9Proofs: blocks

| Theorem | States |
|---|---|
| `HevcProofs!BlocksTypeCorrect` | `BlocksSpec => []BlocksTypeOK` |
| `AreaIsCovered` | `BlocksSpec => []BlocksCoverSlice` |
| `TypesCover` | `BlocksSpec => []TypesCoverSlice` |
| `BordersOfIntra` | `BlocksSpec => []BorderOfIntra` |
| `AveragesDefined` | `BlocksSpec => []AverageDefined` |
| `VP9Proofs!BlocksTypeCorrect` | `BlocksSpec => []BlocksTypeOK` |
| `AreasAreCounted` | `BlocksSpec => []AreaCounted` |
| `BlocksAreClassifiedOnce` | `BlocksSpec => []ClassifiedOnce` |
| `BordersAreUsable` | `BlocksSpec => []BorderUsable` |

for every set of streams that satisfies the module's `BlocksAssumption`: any size of picture, of coding tree block, coding block and transform, any
quadtree or partition of it, any mix of coding units, any number of slice segments
and of pictures.

The difficulty is the same in both.  Counters are compared with the area of a
picture, but a state in the middle of it knows the blocks that are done and a stack
of nodes of different sizes still to be split.  The invariants therefore give every
node a weight and say that the weights on the stack, added to what was counted, are
what was begun.  `Adds(w, s, k)` states that the elements of a sequence weigh `k`
together; it is defined by a function of partial sums, and `AddsNone`,
`AddsBefore`, `AddsTail` and `AddsNat` are all that is needed of it, so that no
sequence is recursed over.  A step then replaces a node by parts of the same
weight, or moves the weight of a block from the stack to the counters.

For VP9,

    BlocksInv == BlocksTyped /\ BorderKept /\ AreaKept /\ LinesKept /\ ClassKept
                 /\ AreaCounted /\ BorderUsable

uses three weights: the area of a node (`Whole`), the area of it within the frame
(`Visible`), and the columns it has over a row of 4x4 blocks (`Over`).  The counted
area is bounded by the first from above and by the second from below, which is
what `AreaCounted` says, because `decode_sb` counts lower halves outside of the
frame and drops right ones.  `Over` bounds what is in a row of `BlackLine`, hence the
border.  `WholeYield`, `VisibleYield` and `OverYield` compare a node with the parts
that `decode_sb` makes of it, partition by partition.

For HEVC,

    BlocksInv == BlocksTyped /\ StepsKept /\ BorderKept /\ AreaKept /\ TypesKept
                 /\ TilesKept /\ QpKept

the weight is what a node shares with a box of pixels, and `TilesKept` says it for
every box (`Tiled`): what a box shares with the stack and with the blocks decoded
is what lies in the coding tree blocks begun (`Begun`).  With the box of the whole
picture this is the area; with a box of one pixel it says that blocks do not overlap,
which is why a coding unit is new to the set `blocks` and the sums over it
grow (`NewBlock`).  `AreaKept` and `TypesKept` are about the counters, block by block;
`PUAdds`, `TrAdds` and `TypesAre` are the case analyses of a partition, a residual
and a prediction mode; a sample has one type, so that the samples of several types
add up (`NumbersAdd`).  `QpKept` says that an intra block which begins between the
borders left a QP there.  That there is one takes the boxes again: in a whole
picture every row of pixels meets exactly one block at the left edge
(`OneOnLine`), and if no block is higher than what the border leaves, the block
on line `excluded` or the one below it begins between the borders (`BlockWithin`).

### Only model-checked

`LoopEnds`: liveness is out of this prover's reach.  The three runs that expect a
violation show counterexamples, and there is nothing to prove about them.
Everything else the passing runs check is proved.

## 6. What is not modelled

* Pixel and vector arithmetic: `Sobel`, the standard deviations, the sums of
  `MV_Statistics264` and `CoefsStatistics`, the averages of `FinishStatistics`.
  They are floating-point formulas of one picture.
* `GetResolution`, a table of formats.  The shape and transform tables of VP9,
  which get the same count as `MbTypes` and are compared with nothing.
* Two-pass decoding of VP9 and wavefront decoding of HEVC: the decoder runs with
  one thread, and neither runs. That is ffmpeg's default (`thread_count` is 1,
  `libavcodec/options_table.h:367`) and what `VideoParser.cpp:278` asks for, too
  late to matter: the decoder is open by then. Probing forces it
  (`libavformat/utils.c:2949`).
* The probe outside of `PictureHistory`: HEVC and VP9 videos are probed as well.
  `HevcBlocks` and `VP9Blocks` begin with `CurrBlackBorder` 0 and `VP9Frames` with
  an empty `VP9Hidden_FrmStat`, as if nothing had been decoded before.  To the first
  two a probe and its session are a stream that begins twice.
* `CloseParser` (nobody calls it), time stamps (printed and copied only), output
  files, build scripts, `DllMain`.
* The decoders and demuxers of ffmpeg, beyond the hooks: they are external, and
  produce whatever pictures and macroblocks they may, in every order they may.
* Errors inside a picture in H.264 (concealment) and VP9, where every picture that
  is output was decoded completely, and pictures HEVC cannot start.
* Packets for which `hevc_decode_frame` returns an error (`hevc.c:3016`), after the
  picture was started or before: the picture chosen for output is then neither
  given the statistics again nor handed out, and the next `hevc_frame_start` drops
  it.  `PicturesHandedOut` is about streams without such packets.
* Several slices in `PictureHistory`: the second slice of a picture finds the POC
  of its own picture in `PrevPOC` and changes none of the variables modelled there.

Seen in these parts while reading: `GetSeqStatistic` called twice for a row
divides twice (`VideoParser.cpp:80`); with a variable frame rate the POC distance
may become 0 (`VideoStat264.c:427`).

## 7. Plan

Done: the packet loop with its abstract specification, the sequence table, H.264
counting, the black border, HEVC and VP9 counting, the output of HEVC pictures,
what pictures take from each other, VP9 frames; proofs of every safety property
the runs check.  Left:

1. A composition of `ReadLoop` and `SeqStatistics`, so that `FrameStream` promises
   the table, too.
2. The branches of `CoefsStatistics` and `GetResolution`.
3. The tables of shapes and transforms of VP9, with what they promise.

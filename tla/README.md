# A TLA+ model of the AC-3 ACM Codec

The repository is a Windows audio compression manager (ACM) driver: it decodes
AC-3 to PCM with liba52 and encodes PCM to AC-3 with a copy of FFmpeg's encoder.
This directory holds TLA+ modules of the driver, the encoder, liba52 and the
programs and output drivers that come with it, TLC configurations that check
them on small instances, and TLAPS proofs of what holds for every instance.
Paths below are relative to the repository's root.

## The system

| Part | Source | State it keeps | Operations |
| --- | --- | --- | --- |
| Driver | `src/AC3ACM.cpp` (`DriverProc`) | per instance `MyData`: handle, `dwFlags`, `UseMMX`; the registry's `Flags` | `drv_open`, `drv_close`, `drv_configure`, the `ACMDM_*` messages |
| Streams | `src/AC3ACM.cpp` (`stream_*`) | per stream `MyStreamData`: `buf`, `bufptr`, `bufend`, `blocks`, `flags`, `framelen`, `frame`, the decoder | `stream_open` (and query), `stream_size`, `stream_convert`, `stream_close` |
| Decoding | `stream_convert_ac3` | `MyStreamData` of a decoding stream | collects bytes, looks for a sync word, decodes six blocks per frame |
| Encoding | `stream_convert_pcm` | `MyStreamData` of an encoding stream | collects 1536 samples per channel, codes a frame, carries coded bytes over |
| Formats | `src/AC3ACM.cpp` (`format_*`, `IsValid*`, `ac3_framesize`) | none (tables) | listing, suggesting, testing and sizing formats |
| Encoder | `src/ac3enc/ac3enc.cpp` | `ac3enc_state`, one per process | `AC3_encode_init`, `AC3_encode_frame` |
| Converters | `src/AC3ASM.asm`, `libao/convert2s16.c` | `MapTab` (constant) | planes of samples to interleaved PCM |
| Decoder library | `a52dec-0.7.5-cvs/liba52` | `a52_state_t`, one per decoding stream | `a52_syncinfo`, `a52_frame`, `a52_block`, `a52_dynrng` |
| Programs | `a52dec-0.7.5-cvs/src` | static variables of `demux` and `a52_decode_data` | demultiplexing, collecting frames, decoding |
| Output | `a52dec-0.7.5-cvs/libao` | an instance per driver: flags, rate, the open device or file | open, setup, play, close |
| Support | `getopt.c`, `vc++`, autotools, `test` | - | - |

How they interact: the ACM calls `DriverProc` with a message; driver instances
share the registry key; streams of one process share `ac3enc_state`. A client
calls `stream_convert` with buffers of any size: the decoding and the encoding
stream must therefore be resumable at every byte. A decoding stream hands
`msd->buf` to liba52, which keeps a pointer into it and reads the frame's bytes
only when `a52_block` is called, perhaps in a later call. The encoder and liba52
never meet but through the bytes of a frame: which mantissas have how many bits is
not among them, both compute it. The programs read a file piece by piece; `demux`
passes the bytes of one stream to `a52_decode_data`, which gives frames to liba52
and its blocks to an output driver.

What is hard here is the order of things: how the client cuts its input and its
output; blocks of a frame, or bytes of it, that wait for the next call; a
restart meanwhile; the configuration dialog, which changes an instance's flags
under open streams; several streams around one encoder; failures half way
through `stream_open`; in the encoder, a bit budget which is computed in one
function and spent in another; and knowledge that is held twice and has to agree:
the bit allocation, the length of a frame, which formats there are, the order of
the channels, whether the bias is already in the samples. `PROJECT.json` lists the hazards line by line.

What makes the parts correct:

- decoding: no copy leaves the buffer, no byte and no block is lost or
  repeated, however the client cuts the stream; every call returns; a frame is
  decoded from its own bytes and for one speaker mode;
- encoding: each frame is made of the next 1536 samples, and its bytes come out
  once and in order;
- driver: a routine only gets the data it was set up with; memory has one
  owner; the encoder is configured for the encoding stream opened last; what a
  query grants, an open grants;
- encoder: the search for the SNR offset ends at the best offset, the frame
  announces what was allocated, and it fits; the exponents it codes are as large
  as the format allows;
- encoder and liba52: the decoder has the exponents and the bit allocation that
  the encoder used;
- liba52: blocks take nothing from another frame that theirs does not send; each
  sample holds the right channels, once the bias, and the overlap of its own mode;
- formats: what is listed or suggested can be opened, all parts mean the same
  frame by a format, recommended buffers suffice, and every call with them goes on;
- programs: the frames decoded are those of the chosen stream, however the reads
  cut the file; an output gets what it was opened for.

## Modules

| Module | Models | Instances | Proofs |
| --- | --- | --- | --- |
| `FrameStream` | what a decoding stream promises (abstract) | - | `DecodeStream_proofs` |
| `DecodeStream` | `stream_convert_ac3` | `MCDecodeStream` | `DecodeStream_proofs` |
| `EncodeStream` | `stream_convert_pcm` | `MCEncodeStream` | `Encoder_proofs` |
| `AC3Driver` | driver instances, stream life cycles, `ac3enc_state` | `MCAC3Driver` | `AC3Driver_proofs` |
| `EncodeFrame` | bit budget, SNR search and padding of `ac3enc.cpp` | `MCEncodeFrame` | `EncodeFrame_proofs` |
| `Loops` | a C loop over an index, as an operator of its body | by `ExponentCoding` | `Encoder_proofs` |
| `ExponentCoding` | exponents: strategies, grouping, coding, and `parse_exponents` | by `CodedChannel` | `Encoder_proofs` |
| `BitAllocation` | the bit allocation of the encoder, and that of liba52 | by `MCCodedChannel` | - |
| `CodedChannel` | a channel from `AC3_encode_frame` to `a52_block`; uses `ExponentCoding` | `MCCodedChannel` | `Encoder_proofs` |
| `A52Block` | the side information of `a52_block`, over blocks, frames and errors | `MCA52Block` | `A52Block_proofs` |
| `Downmix` | `downmix.c`: modes, gains, levels, mixing | by `ChannelRouting`, `AudioOut` | - |
| `Converters` | `AC3ASM.asm` and `convert2s16.c`: the order of samples | by `ChannelRouting`, `AudioOut` | - |
| `ChannelRouting` | the channels of a stream from coded block to PCM; composes the two above | `MCChannelRouting` | - |
| `AC3Formats` | formats: lists, suggestions, tests, sizes | `MCAC3Formats` | `AC3Formats_proofs` |
| `A52Demux` | `demux` with its loops, `a52_decode_data` | `MCA52Demux` | `A52Demux_proofs` |
| `AudioOut` | the output drivers of libao; uses `Downmix` and `Converters` | `MCAudioOut` | `AudioOut_proofs` |

The map of every definition to its lines is in `PROJECT.json`. Operators whose
comment says "Mutant" are plausible mistakes; no specification uses them, and
each makes a property fail when put in place of its neighbour.

### DecodeStream and FrameStream

The variables are the members of `MyStreamData` (`buf`, `bufptr`, `bufend`,
`blocks`, `flags`; `a52` for what liba52 was given), the members of the call's
header (`cbSrcLength`, ...), the locals `fs` and `dstLen`, and `pc`, the place in
`stream_convert_ac3`. `srcLen` is derived, and the local `sr` too: it is
`bufend - bufptr`. `buf` maps an offset to the *position in the input* its byte
came from, so that the model can say whether the decoder looks at consecutive
bytes, and whether bytes of a frame have been overwritten before `a52_block`
reads them. A byte of the input is a sync word, a header or data. A header
says how long its frame is, and how much of it the blocks use; where in this part
a block ends is in the coded data, and even shares stand for it.

| Action | Code (`src/AC3ACM.cpp`) |
| --- | --- |
| `Convert`, `ConvertStart` | 1445-1475, entry, without and with `ACM_STREAMCONVERTF_START` |
| `Leftover` | 1472-1483, blocks of the last call |
| `Top` | 1489-1494, is there enough for a header |
| `ScanPartial`, `ScanFrame`, `ScanNext`, `ScanLost` | 1498-1600, the four ways an iteration of the search ends |
| `Decode` | 1573-1585, a block, or no room for it, or the end of the loop |
| `Fetch` | 1604-1614, appending the source, or returning |
| `Configure` | 2402-2440, the dialog changes `AC3ACM_DOLBYSURROUND`, at any moment |

`FrameStream` is the promise: block 1 to 6 of each frame of the input in turn,
from that frame's own bytes. `DecodeStream` refers to it as `Frames`, with the
due position `a52.start` while blocks are pending, and the first buffered byte
otherwise.

### EncodeStream

The same for `stream_convert_pcm`: `Leftover` (1709-1731), `Fill` (1737-1756) and
`Encode` (1758-1784). A PCM byte is its position, a coded byte its frame and
offset. The channel map and the coding itself are one step of `Encode`.
`msd->blocks` counts bytes here, as in the code.

### AC3Driver

Messages are actions: `drv_open`, `drv_close`, `drv_configure`, `stream_open`
(which is `OpenEncoder`, `OpenDecoder`, `OpenCopier` or a refusal),
`stream_query`, `stream_size`, `stream_convert`, `stream_close`. `md`, `si`
and `memory` are the driver's instances, the ACM's stream instances and the
process's `MyStreamData`; `enc` is what `AC3_encode_init` stored, and the history
`latest` the stream it stored that for. Any number of streams may encode, and each
`OpenEncoder` reconfigures the one encoder under the others. Allocation and
`a52_init` may fail. `stream_convert` chooses the routine anew from the formats
and the flags *of the moment*, like `stream_convert` at 1829-1853. The
ACM closes the streams of an instance before the instance. A format stands for
one that passes the numeric tests of `IsValidPCM` and `IsValidAC3` (207-353); what
is left of these is the tag, the subformat and the flag.

### EncodeFrame

`compute_bit_allocation` (849-975): `Lower` goes down in fours until the frame
fits, the loops of `Ascent` go up again by four and by one, coarse and fine;
`Write` adds up, field by field, what `output_frame_header` and
`output_audio_block` write and pads as `output_frame_end` does. A frame's content
is which channels send new exponents in which blocks, and how many bits the
mantissas take for each offset. That function of the offset is a parameter of
any shape, since groups of mantissas make it go down at times.

### ExponentCoding, BitAllocation and CodedChannel

`ExponentCoding` has the encoder's `compute_exp_strategy`, `exponent_min` and
`encode_exp` (606-761) with the codes of `output_audio_block` (1260-1314) against
liba52's `parse_exponents` (`parse.c` 218-270). `BitAllocation` has
`ac3_parametric_bit_allocation` (`ac3enc.cpp` 220-421) and `a52_bit_allocate`
(`bit_allocate.c` 124-265), each with its own tables, signs and loops: the encoder
reckons with powers, over arrays of bands, the decoder with attenuations, over
coefficients. Tables are given by their runs. The loops of `ExponentCoding` are
recursive functions, by `Loop`; those of `BitAllocation` are recursive operators. Both
are taken in halves where TLC's stack asks for it.

`CodedChannel` connects them. The two allocations and the parameters that are sent
are constants of it, so that what it says of the exponents can be proved for any
allocation; `MCCodedChannel` gives them the functions of `BitAllocation`. `AC3_encode_frame` chooses and codes the exponents
of six blocks and allocates for them; `a52_block` (680-798) then reads the blocks
one by one, keeping exponents and allocation from block to block as
`a52_state_t` does; `NextFrame` takes from it whatever the last frame left.
A frame is six sounds, a sound is the 256 exponents that the transform makes of
a block. Full bandwidth channels have 223 coefficients, the LFE has 7; the encoder
uses neither coupling nor delta bit allocation, so that neither is here.
In the encoder `masktab` is read below 223 only, and `bndtab[50] = 0` is never an
end, since its channels stop before band 49.

### A52Block

The fields of `a52_state_t` that blocks send (coupling, coordinates, exponents,
parameters, offsets, delta bit allocation, rematrixing flags), without their
values: `old` says which of them hold what an earlier frame sent, `changed` for
which channels the allocation is older than what it is made of. The actions are the
parts of `a52_block` in their order (`Coupling`, `Coordinates`, `Exponents`,
`Parameters`, `Delta`, `Allocation`, `Coefficients`), each of which reads any bits,
and `Error`, the `return 1` of several of them, upon which the player goes on with
the next block (the codec) or the next frame (a52dec). `a52_frame` may follow
after any number of blocks. `sound` marks the frames that send in time what they
have to: the first block exponents, coordinates, parameters and offsets, and
later ones what a new coupling needs. A delta allocation of "reuse" without a "new"
in the frame is not sound, and a block in which the coupling begins is asked to
send new offsets; the code tests neither.

### Downmix, Converters and ChannelRouting

`Downmix` is `a52_downmix_init` with its table and its level adjustment,
`a52_downmix_coeff`, `a52_downmix` and `a52_upmix`, for all pairs of modes; gains
are attenuations in steps of 1.5 dB. `Converters` gives the samples that one
round of each converter stores, as pairs of plane and time; the MMX versions
move pairs of samples, as the registers do. In `ChannelRouting` a block's channels
are signals, a plane is a sum of signals of this block and of the overlap of the
last, and of the bias. `a52_block` is one action for each of its two ways:
`ThenMixed` (transform, then mix, 887-916) and `MixedFirst` (917-937), between
which a stream changes with the lengths of its blocks; `downmixed` remembers which
was last. The players are the codec (`AcmAsks`, 1519-1553) and the drivers of libao.
A behaviour is a stream of one mode. The encoder's `create_channel_map` is held
against the decoder's order (`RoundTrip`).

### AC3Formats

A client lists formats (`format_details` by index) or has one suggested
(`format_suggest`), opens a stream, asks `stream_size` in either direction, about
any number of bytes, and converts with the buffers of the answer, with START or
without. A format is a record of the fields that the tests read; the mask is the
channel count it belongs to.

`stream_convert` is `stream_convert_ac3` or `stream_convert_pcm` as far as amounts
go: a call takes bytes of source (`used`), delivers pieces of destination (`given`;
a block of PCM, or a coded byte) and leaves part of a frame (`held`) and pieces
(`blocks`, as `msd->blocks`). What was left over is delivered first (1472-1483,
1709-1731); a frame's sixth block is put off if no frame can follow (`PutOff`, 1571);
a call may have no room beyond what was left over, or stop at a frame, where the rest
of the source is left, or take all of it (the cases of `Converted`). The client passes
on what was left of the source. Frames are back to back and have the length the format
says; for what is between them, for padded frames, and for the single steps of the loop
see `DecodeStream` and `EncodeStream`.

`RoomSuffices` is about `Promised` buffers, in a stream that has had no others since it
was opened or started (the history `kept`; `least` is the smallest source since).
Encoding, the room named always holds what a call delivers. Decoding, it may be a
block short: the block that the call before put off, beside a frame that began in that
call. It is not short if the source is no larger than any since the start, as with a
client that uses buffers of one size: then no frame is completed beside a block put
off. `CallsProgress` is about all answers in all states.

### A52Demux

`demux` (343-539) with the three ways to feed it (`ps_loop`, `ts_loop`, `es_loop`)
and `a52_decode_data` (240-309). The file is a sequence of bytes, `buf` and `end`
are the part in memory; a header that the end of the buffer cuts is collected in
`head_buf`, whose bytes are state, as are `state` and `state_bytes`. `Needs` is
the length of the header that begins with given bytes, as far as they tell: what
the chain of `NEEDBYTES` asks for. extract_a52 has the same code, and writes the
frame where a52dec decodes it. Frames are short: their length is a byte of the
header.

What the payload of a file is, is specified apart from `demux`: a reader who has the
whole file, no buffer and nothing to remember looks for a header at place 1 and
goes on behind its packet, or by one byte (`Following`); `HeadersAt` says which
places he comes to, `Belongs` which bytes are of the stream, `Carries` that these
are the `payload` of the file. He shares with `demux` the fields of a header
(`Needs`, `Ours`, `PacketLength`), and none of what makes `demux` hard: the
window, `head_buf`, `state`, `state_bytes`, the loops. `PayloadsAssumption` has TLC
work out his places for each file of the instance and compare. A transport stream
has no such reader: its payload is said file by file in the instance.

### AudioOut

A driver is opened (`Open`), asked by `setup` before each frame which mode it wants,
and plays blocks; the first one configures the device or the header of the file.
`DevicePlay` is common to the drivers of devices, which differ in what they take,
`wav_play` and `aif_play` are those of files. A driver may refuse a frame
because its mode or rate is not that of the first.

## Runs

| Run | Result | What it shows |
| --- | --- | --- |
| `DecodeAligned` | passes | frames of one size, back to back: every block once, in order, unharmed, for every cut, and in the end all of them; refines `FrameStream` |
| `DecodeDirty` | passes | junk before a frame, a frame cut short after it: copies stay in the buffer, calls end and say why |
| `EncodeStream` | passes | order, ledger and progress of the encoding stream |
| `AC3Driver` | passes | life cycles of two streams with the dialog and refusals in between |
| `EncodeFrame` | passes | the search, and that frames fit, for 1, 3, 4, 5 and 6 channels |
| `CodedChannel` | passes | the decoder's exponents and bit allocation are the encoder's, and no larger exponents were possible |
| `A52Block` | passes | no block of a sound frame reads side information of another frame, or an allocation that is out of date, after whatever frames and errors |
| `ChannelRouting` | passes | every sample of every mode is where it belongs, at the right gain, with one bias and the right overlap |
| `AC3Formats` | passes | lists, suggestions, tests and frame lengths agree; the room `stream_size` names holds what a call delivers, up to a block put off; no call leaves both its buffers as they were |
| `A52Demux` | passes | frames and payload are those of the file however it is cut; `head_buf` suffices; all is decoded |
| `AudioOut` | passes | drivers write what their device or header was told, and accept again what they accepted |
| `DecodePadded` | violated | a frame shorter than its size: its last block is overwritten before it is decoded |

`DecodePadded` shows a disagreement between the code and liba52's manual, which
the entry under `findings` in `PROJECT.json` quotes. It also marks where `BlocksIntact`
ends: it holds for frames whose blocks fill them evenly.

### Where the properties end

The following came up while modelling. The properties leave these cases out, and
no run checks them.

In the codec:

- A shorter frame completed in the call that put off a block of a longer one takes
  the place of that block (1563-1571). `NoBlockDropped` is for frames of one size.
- When a window without a sync word is given up, eight bytes are moved where seven
  are left, and a stale byte comes between the bytes of the stream (1592).
- `stream_size` and the log read `msd->framelen` of AC-3 to AC-3 streams, whose
  `msd` is NULL (2166).
- `IsValidAC3EX` compares `SubFormat` with two GUIDs (304, 305) and so takes no
  extensible AC-3 format; the driver lists and suggests such formats.
- A stereo frame that uses up its budget is one byte too long: the rematrixing flags
  of its first block are counted as none (882), written as four (1236).
  `FrameFits` is for all channel counts but two.
- `a52_dynrng (state, NULL, NULL)` is called once, `a52_frame` switches compression
  on again for each frame (`parse.c` 171).
- With offsets 0 and 0 the decoder takes all mantissas as absent, the encoder
  allocates as for any offsets. The search may end there at the lowest bit rates.
- `format_suggest` finds no frame size for three and for five channels at 96 kbit/s
  each; its mask is that of the source where one or two channels were prescribed;
  and it accepts EXTENSIBLE as a prescribed tag when that is switched off.
- `stream_size` says more in its comments than the code does. `RoomSuffices` concedes
  the first of these cases and leaves out the others (`Promised`). None loses data: what
  is left of the source is the client's to pass on again, and what finds no room comes
  out in the next call; that this goes on is `CallsProgress`.
  - It does not count a block that was put off (1571) and is delivered first (1472-1483).
    With frames of 192 bytes and sources of 191, 31 and 191 bytes, the second decoding
    call completes a frame and puts its sixth block off; the third completes the next
    and wants seven blocks of a room of six. It stops at 1576 with source left,
    where 2152-2154 say "we will use ALL of the source data during stream_convert".
  - Nor is that so of an encoding call, which stops as soon as a frame has filled the room
    (1782): with frames of 128 bytes and sources of 1023 and 6143 bytes, the second
    call leaves 1022 bytes, which would only have been buffered.
    (`RoomSuffices` is about the room alone, which is enough.)
  - For a destination that cannot hold a coded frame it names the source of a whole one
    (2298): 20 bytes are answered with 6144, although 2229-2231 ask for an amount
    "without overflowing the destination buffer". The call stops at 1782 and carries
    the frame over.
  - For the source of a decoding stream it counts frames two bytes longer than they may
    be (2247, 2251), and so is too generous by a frame in large buffers.
  - At 44100 Hz it finds no bit rate for the formats that the driver lists, as it does
    not look up the average of rounded frames as `stream_open` does (1923-1935): the
    branch that "should never happen" (2209-2219) answers 3840 bytes for any number of
    frames.
- With two encoding streams the earlier one goes on with the settings of the later
  (1940), and also with those of a `stream_open` that fails for want of memory after
  `AC3_encode_init`. `EncoderSetForStream` is about the stream configured last.
- 2/0 in Dolby Surround with LFE, played as two channels, has the LFE in the place
  of a channel, as the converter for two channels is asked for planes 1 and 0.

In liba52 and libao:

- 2/1 and 2/2 frames with a surround level of zero, mixed to stereo after the
  transform, have no bias (`downmix.c` 528, 548).
- wav6 has no `break` after 2/1 with LFE; oss6 and al6 ask for an LFE and take 3/1
  and 3/2 without it in another order; the gain of the LFE follows the level of
  the mix.
- Phase flags negate the coordinates of channel 1 in blocks that send only
  channel 0's (`parse.c` 663).
- `wav_close` uses `speaker_flags`, which nothing sets if no block was played.
- A failing call in `win_play` leaves a buffer that is never done, for which a later
  block waits.

### Bounds

- `DecodeStream`: the window of 128 bytes is 6, the 8 header bytes are 4,
  frames of 128 to 3840 bytes are 6 to 14, and `BufSize` is the largest value
  the buffer can be filled to plus one. The order of these numbers is kept:
  a header fits a window, a window fits a frame, a frame may be longer than
  two windows. A frame keeps its six blocks. Source sizes are zero, one, less
  than a window, a frame, and more than the input's rest; destination sizes
  are less than a block, exactly a block, more than two, and enough for all.
  Payload imitates the start of a frame, as AC-3 payload may. Two or three
  frames suffice: nothing in the stream's state counts frames.
- `EncodeStream`: a frame is four bytes of PCM and three coded; the client has
  three frames and nothing more, so that the last bytes carried over have to
  come out in calls without a source. Source and destination sizes are below, at and
  above these.
- `AC3Driver`: one instance, two streams, two blocks of memory, seven formats of
  which two are extensible and two have a low sampling rate, and three settings.
  Interference needs two streams; a third adds nothing that the second does
  not. Both streams may encode at once, with different bit rates.
- `EncodeFrame`: bit counts and offsets are those of the code, unscaled; seven
  kinds of content cover an empty frame, ones that no offset fits, and
  one whose size is not monotone.
- `CodedChannel`: eight sounds, from silence over steps that the format cannot
  express to noise; frames that keep one, change half way or in every block, so that
  all strategies and their reuse occur; three pairs of offsets, low, middle and
  high; all three rates; both kinds of channel. 256 exponents cannot be
  enumerated: the tables have been compared with the source apart from that,
  and what a frame exercises depends on the sounds. Of the tables' 610 entries a
  mistake of one unit in a few would pass.
- `A52Block`: mono, and stereo with LFE, coupling and rematrixing; offsets that are
  all zero, zero but for the coupling channel, and not zero; delta allocation
  begun, kept and ended. The blocks of a frame are not counted, so that frames
  are of any length. More channels have the same fields once more.
- `ChannelRouting`: every coded mode, with and without LFE, every mixing level
  that can be announced, every destination `MapTab` has, both sets of converters
  and six drivers. Three blocks tell the overlaps apart.
- `AC3Formats`: all listed PCM and AC-3 formats and a part of the extensible ones as
  sources, three bit rates of each rate and channel count as destinations; wishes
  for each tag, four channel counts and a rate; three settings of the flags.
  Streams convert (`ConvertsInStereo`, a constraint) between the stereo ones of these
  formats, under the default settings: decoding from all bit rates, encoding to three of
  each rate. Buffers are, on the
  side asked about, a sixth of a frame less a byte and a sixth of a frame (for PCM a
  block: below it `stream_size` refuses), five sixths, a frame less a byte, a frame, and
  a byte above two frames. Four calls (`MaxCalls`): one begins a frame, a second
  completes it and puts a block off, the third wants a block more than it has room for,
  and the fourth begins with that.
- `A52Demux`: ten files (program streams of both kinds with stuffing, padding, other
  tracks and junk; PES; elementary; transport with adaptation fields and lost
  synchronisation) cut by buffers of 1 to 25 bytes, and by some larger
  ones. Transport packets have 24 bytes instead of 188, frames 8 to 16.
- `AudioOut`: seven kinds of mode at two rates and a driver of every kind; frames
  without end, since neither drivers nor devices count.

### Fairness

`WF_vars(Step)`: the code of a call runs on, it waits for nothing. `LiveSpec`
adds `SF_vars(Feed)`: a client that is often enough its turn passes on more of
its input, or calls with none left, offering room. It is strong because
between two calls the stream is idle, and during a call `Feed` is disabled.
No fairness is asked of the dialog or of restarts; `AllDelivered` is about
clients that at some time stop restarting. `EncodeFrame` has `WF_vars(Step)`: a
frame, once begun, is coded by a function that runs on. `A52Demux` has
`WF_vars(Next)` too: the program reads files and waits for nobody. The other
specifications state no fairness and no liveness: each of their steps is a call that
somebody else decides to make.

## Proofs

| Theorem | States | Assumes |
| --- | --- | --- |
| `DecodeStream_proofs!TypeCorrect`, `BufferIsSafe`, `FramesFillTheBuffer`, `CallsReturnWhenDone` | `TypeOK`, `BufferSafe`, `FrameFillsBuffer`, `ReturnsWhenDone` | the assumptions of `DecodeStream` only |
| `DecodeStream_proofs!FramesHaveOneMode` | `OneModePerFrame` | the same |
| `DecodeStream_proofs!NoBlockIsDropped` | `NoBlockDropped` | `Uniform`: all frames of an input have one size |
| `DecodeStream_proofs!BlocksAreIntact` | `BlocksIntact` | `Aligned`: frame follows frame; `Dense`: their data fill three fifths of them |
| `DecodeStream_proofs!Implements` | `ImplementsFrameStream` | `Aligned`, `Dense` and `Uniform` |
| `Encoder_proofs!TypeCorrect`, `EncodesWhenDrained`, `PcmIsInOrder`, `OutputInOrder`, `StreamOwes`, `CallsReturnWhenDone` | `TypeOK`, `EncodeWhenDrained`, `PcmInOrder`, `OutInOrder`, `Ledger`, `ReturnsWhenDone` | the assumptions of `EncodeStream` only |
| `Encoder_proofs!ExponentsAlwaysAgree`, `TheLargestAreCoded` | `ExponentsAgree`, `LargestThatFit` | the assumptions of `CodedChannel` only: any exponents from 0 to 24, any frames of them, any allocations |
| `Encoder_proofs!MantissasFollow` | `MantissasAgree` | `AllocationsMatch`: the two allocation functions agree on what each coded frame sends |
| `AC3Driver_proofs!TypeCorrect`, `DispatchMatches`, `BlocksAreOwned`, `EncoderIsSet`, `QueriesAreHonoured`, `RefusalNeedsConfigure` | `TypeOK`, `DispatchMatchesOpen`, `BlocksOwned`, `EncoderSetForStream`, `QueryPredictsOpen`, `RefusedOnlyAfterConfigure` | the assumptions of `AC3Driver` only |
| `EncodeFrame_proofs!TypeCorrect`, `AllocationIsAnnounced`, `OffsetIsBest` | `TypeOK`, `AllocationMatchesHeader`, `BestOffset` | any sizes of mantissas |
| `EncodeFrame_proofs!FramesFit` | `FrameFits` | no stream has two channels |
| `AC3Formats_proofs!FramesAgree`, `ListsAreOpened`, `SuggestionsAreOpened`, `BuffersSuffice`, `CallsGoOn` | `FrameLengthsAgree`, `ListedOpens`, `SuggestedOpens`, `RoomSuffices`, `CallsProgress` | the assumptions of `AC3Formats` only |
| `A52Block_proofs!TypeCorrect`, `BlocksUseOwnSideInformation` | `TypeOK`, `OwnSideInformation` | none |
| `A52Demux_proofs!SpecHeadBufSafe` | `TypeOK`, `HeadBufSafe` | the assumptions of `A52Demux` only |
| `A52Demux_proofs!BytesPassOnce`, `FramesAreCut` | `OnceInOrder`, `FramesCut` | the same |
| `A52Demux_proofs!PayloadIsInOrder` | `PayloadInOrder` | `KnownLayout`: not a transport stream, and `payload` is what a reader of the whole file finds |
| `A52Demux_proofs!OneReading` | that reader's places exist and are the only ones | the same |
| `AudioOut_proofs!SameFramesAccepted` | `SameFrameAccepted` | the assumptions of `AudioOut` only |
| `AudioOut_proofs!OutputAsAnnounced` | `AnnouncedFormat` | `NoFallThrough`: wav6 gets no 2/1 with LFE |

The assumptions of `DecodeStream` are the order of its constants (window, header
bytes, frame sizes, buffer size). With the code's 128, 8 and 4096 they say that
`120 + frame size < 4096`, and AC-3 frames have at most 3840 bytes.

*Decoding.* `BufferSafe` is not inductive: whether a copy fits depends on how
`fs` was computed earlier. `IInv` says what `buf` may hold
(`Buffered`) and what `fs` may ask for (`Requested`): either the window is being
filled, and what is buffered and asked for is within `Window`; or a frame is
being completed, its header stands at `bufptr`, which is within the window, and
nothing beyond the frame's end is buffered or asked for. The second half needs `HeaderKept`: appending bytes does not change
the header that was read. `NoBlockIsDropped` needs more: a block is put off
only if twice the call's source, less what is used, is below a frame, and then
`Deferral` says that until the call returns the bytes buffered and the source's
rest together are too few for another frame of the same size.
`FramesHaveOneMode` needs `ModeHeld`: while blocks are pending the mode is that of
the block before them.

*Decoding as promised.* Of an input the further theorems ask three things, and each
is a limit of the code, not of the proof. `Aligned`: after a window without a sync
word `ScanLost` takes over a stale byte, so that the buffer no longer holds
consecutive bytes. `Dense`: the last block may be put off until its frame's buffer
is in use again, which `DecodePadded` shows for frames that are padded. `Uniform`:
a shorter frame could begin before the block put off. `DecodeAligned`'s inputs have all
three. The invariant, `FInv`, says that the buffer holds consecutive bytes from
the start of a frame on (`InFrames`), that the frame of the pending blocks ends where
these begin and the bytes of its pending blocks are where the decoder will look for
them (`Held`), and that a block put off is a last one while what the
call can still copy is less than half of its frame (`Waiting`): less than where the
block's bytes begin. `Implements` maps each step: a delivered block is the one due
in `FrameStream`, the last one moves its position to the next frame, and everything
else stutters.

*Encoding.* `IInv` says which PCM the buffer holds (the `bufptr` bytes after
`pcmEnd`) and which coded byte is due (byte `bufend` of frame `frame`, with
`bufend + blocks` a whole frame); `BytesInOrder` is the lemma that a run of
coded bytes from the due one on keeps `out` in order. `StreamOwes` adds `Sums`: frames
coded times `Needed` is the PCM gone into frames, and times `FrameSize` is what was
delivered or is owed; with `bufptr < Needed` the quotient in `Ledger` follows.

*Driver.* `IInv` says that each stream has the data of the purpose it was opened
for (`DataFits`) and that no two streams share a block (`OneOwner`). That the
dialog does no harm is then the lemma `ConversionAgrees`: under other flags a pair
of formats has the same conversion, or none. `EncoderIsSet` is about any number of
encoding streams: each step that configures the encoder makes `latest` its stream, or
none. `QueriesAreHonoured` rests on
`AcceptedIsInitialised`: a rate that `stream_open` lets pass is one of the encoder's
own, so that neither it nor the bit rate is halved.

*Frames.* `Accounting` compares the two bit counts for every channel count: what is
written is what was counted less 18 bits (`auxdatae`, `crcrsv` and the CRC, which
are not part of the blocks), and with two channels plus the four rematrixing
flags. The CRC takes two bytes, so that 18 is just enough, and 14 is not. `IInv` says what each loop of the search has established when
it ends, so that at the end no higher offset fits if sizes grow.

*Formats.* The theorems rest on two facts about `framesizes`. The rows' bit
rates are 8 kbit/s or more apart (`BitRatesApart`), and the average of a frame is
less than 1 kbit/s below its bit rate, at 44100 Hz as well (`AverageIs`). So whoever
goes from the average to a row comes to the row that the list was made of
(`BitrateRowsAre`, `FramesizeIs`), and the table, the encoder's division and the
header's formula are three ways to write the same number (`FrameBytesAre`,
`EncoderFrameIs`). `ListedIs` and `SuggestedIs` say which formats the lists and
`format_suggest` bring about, and which of the driver's tests these pass; from
this follows what `stream_open` does with them. `BuffersSuffice` and `CallsGoOn` are
about any numbers of bytes, not those of the run, and rest on division. The stream
holds less than a frame, so that `n` more bytes complete no more frames than `n` rounded
up (`FramesCounted`), and the room is that many frames' (`DecodeRoom`, `EncodeRoom`). `FInv`
adds what the last answer was computed from (`Answered`) and, for streams with promised
buffers, `LeftOver`: an encoding one has no bytes left over, a decoding one at most a
block, and with it so little of the next frame that no source as small as one before
completes it, since that is why the block was put off (`ConvertedKeeps`). A call with
`Room + 1` blocks to deliver stops at its last frame and leaves exactly one block.
`ConvertedGoesOn` is that no answer names a room for less than a piece (`RoomIs`).

*Side information.* `OwnSideInformation` speaks of the moments when a field is read.
`BInv` says for every part of `a52_block` that may come next which fields are the
frame's own by then (`Known`), which channels still owe exponents, and that an
allocation that is out of date is among those that this block will compute
(`Pending`); in the first block of a frame less is known than in later ones
(`By`). An error leaves all of this as it is, since the frame is then no longer sound.

*Output.* What `a52_frame` granted for a frame it grants again for one like it
and the driver's flags, up to the change from stereo to Dolby Surround (`Alike`),
which a device follows and which has as many channels. `AInv` says what the
device was told (`Configured`) and which modes a driver can come to have (`Fits`): with
the tables of converters, each of these stores as many samples as `wav_channels`
and its like count. `convert2s16_wav` does not for 2/1 with LFE, where it falls
through; hence `NoFallThrough`, which asks something of wav6 only.

*Demultiplexer.* `HeadBufSafe` says that 268 bytes suffice for headers whose length
comes from the file. The lemmas bound `Needs` by the kind of header: 9 + 255 bytes
and four of a substream at most. The invariant says of each place in `demux` where
the window is, that what is in `head_buf` is a part of a header which is not
longer than what was asked for, and that what is left of a packet is not negative.
That also makes `buf` move forward only (`Onward`), so that bytes are passed on once
and in order. `FramesAreCut` does not care how the bytes came: `Found` says that the
frames are cut from what was passed on at places `at`, each as long as its header
says, without overlap, and that every other place before the bytes still
collected has no header. There is only one way to cut a sequence like this, so that
the calls of `a52_decode_data`, however they divide the bytes, make no difference.
A turn of `a52_decode_data` passes a place without a header (`FoundNext`) or
appends a frame (`FoundFrame`), and more bytes change nothing of it (`FoundKept`).

`PayloadIsInOrder` compares `demux` with the reader of the whole file. It rests on
how headers are asked for: with more bytes of a header `Needs` grows, and once
it is satisfied the bytes behind change nothing (`NeedsGrows`), so that what is in
`head_buf` never is more than the header, and parsing it says of its packet what the
whole file says (`SameHeader`, `HeaderSeen`). The invariant `Placed` says where
`demux` is on the reader's way: in its loop at one of his places, or with a
header in `head_buf` that begins at one (`Partly`); between calls, or in
`a52_decode_data`, as far before one as `state_bytes` says, and all bytes up to there
are of the stream, or none is. Each step then passes on all of the bytes that it
moves `buf` over, or skips bytes of which none belongs (`AllOf`, `NoneOf`), so
`out` is what belongs before `buf` (`PassedOn`), and the beginning of the payload
(`SameBeginning`). `FramesFrom`, a recursive function, exists (`CutAll`: built from
the last place back), and its frames begin with those found (`FramesBegin`). That a
file has just one set of such places is `OneReading`: they are the least set that
is closed under `Following`.

*Coding a channel.* A loop is a recursive function, which has to be shown to exist
before anything can be said of it: each stretch of indices is told by shorter ones
(`RunsExist`), and what an iteration hands on to the next the last one leaves behind
(`LoopKeeps`). From this, a pass of `encode_exp` only lowers exponents, lowers
none below any bound with small steps, and if it asks for another pass it has
lowered one (`PassKnows`). So the sum of what can still be lowered (`Height`)
decreases, the passes come to an end (`SettledExists`), and what they find is the
largest sequence with small steps below the given one (`ConstrainFits`). Such a
sequence is, group by group, the least of the others' exponents plus two for each
group in between, of which those more than twelve away do not count (`FitsIs`): that
is `LargestThatFit` (`BlockFits`). Its differences are -2 to 2, so that the three
tables take the codes apart (`Triples`) and `parse_exponents`, again a loop, finds
the exponents of the groups again (`ParseInverts`), the first of which fits four bits.
`Following` says of a frame being decoded what each block to come sends, and that
the decoder has the exponents of the block decoded last. `Allocating` adds the
parameters, sent once and kept, and that the decoder's allocation is the one for the
exponents it has, in the blocks that reuse it too. `AllocationsMatch` speaks of a
frame that has just been coded, before a block of it is decoded: that the two
functions give the same for the same exponents is all that `MantissasFollow` leaves
to the run, whose property `MantissasAgree` includes it.

The type invariants are proved and so are no longer checked by runs, and with them
`EncodeWhenDrained` (no frame is coded over bytes that are still owed), the encoding
stream's `ReturnsWhenDone` (a call ends without source or without room) and
`RefusedOnlyAfterConfigure` (an open stream is refused only after a change of the
flags).

The inductive invariants were checked by TLC on the instances of the runs before they
were proved.

Only model-checked: liveness (`CallReturns`, `AllDelivered`, `FrameIsWritten`,
`AllDecoded`) and fairness, which the prover does not treat; `PayloadInOrder` of
transport streams, which is compared with what the instance says the packets
carry (what of it does not depend on the container is proved as `BytesPassOnce` and
`FramesAreCut`);
that the two bit allocations, written as recursive operators, which the prover does
not take, are the same function, to which `MantissasAgree` has been reduced; and those of `ChannelRouting`, which are about finite tables
that TLC goes through completely.

## Not modelled

The values of samples and of mantissas: MDCT and IMDCT, quantisation, dither,
conversion to 16 bits; `last_samples` of the encoder, the overlap that a new stream
takes over from the one before it; the dynamic range gain. The bit reader's and the
bit writer's words, the CRCs. Coupling and delta allocation in `a52_bit_allocate`,
which this encoder never uses, and the coordinates' values. Streams whose mode
changes from frame to frame in the codec, for which the converter chosen by the
format is kept and nothing says what is expected. The format query of
`format_details` and the filter messages, which answer and change nothing;
logging, texts and the dialog's windows; the ring of buffers of `win`, `peak`,
`null` and `float` outputs, the sizes in file headers; the arguments and
signals of the programs; vendored helpers and build files.

## Plan

Done, in this order: `DecodeStream` with `FrameStream`, `EncodeStream`,
`AC3Driver`, `EncodeFrame` and their proofs, since the conversion routines are
what every client depends on; `Downmix`, `Converters` and `ChannelRouting`;
`A52Demux` with its proof; `AudioOut`; `A52Block`; `ExponentCoding`,
`BitAllocation` and `CodedChannel` with the proof for exponents; `AC3Formats`.

Left:

1. What the payload of a transport stream is, for the proof that `demux` passes on
   just that; proofs of the parts of `ChannelRouting` that are not tables.
2. `BitReader` and `BitWriter`: `a52_bitstream_get` and `put_bits` with words of 32
   bits, each against a sequence of bits.
3. The overlap of the encoder (`last_samples`) in `EncodeStream`.
4. The ring of buffers of `win_play`, and the life cycle of the WAV header.

---------------------------- MODULE MCVpuStream ----------------------------
(* Command lines and streams for model checking VpuStream. *)
EXTENDS VpuStream

Geo(w, h, rx, ry, rw, rh) == [w |-> w, h |-> h, rx |-> rx, ry |-> ry, rw |-> rw, rh |-> rh]
Config(codec, input, out, overlay, bpp, warm, prp, geo) ==
  [codec |-> codec, input |-> input, out |-> out, overlay |-> overlay, bpp |-> bpp,
   warm |-> warm, prp |-> prp, geo |-> geo]

MCConfigs == {
  \* the doorbell: MPEG-4 over TCP into the overlay, 4:5
  Config("mpeg4", "tcp", "fb", TRUE, 16, TRUE, FALSE, Geo(640, 360, 0, 15, 800, 450)),
  \* H.264 over RTP into the overlay, 22:25 and 6:5
  Config("avc", "rtp", "fb", TRUE, 16, TRUE, FALSE, Geo(704, 576, 0, 0, 800, 480)),
  \* a 32bpp screen: direct 1:1 (a --rect without a height is none), and through
  \* the copy
  Config("mpeg4", "tcp", "fb", FALSE, 32, FALSE, FALSE, Geo(640, 360, 10, 10, 700, 0)),
  Config("mpeg4", "rtp", "fb", FALSE, 32, FALSE, TRUE, Geo(1280, 720, 16, 24, 768, 432)),
  \* 4:1; 12:5, which only the PrP can do; 9:10 and 32:25, clipped and filled
  Config("mpeg4", "tcp", "dummy", FALSE, 32, FALSE, FALSE, Geo(1600, 960, 0, 0, 400, 240)),
  Config("mpeg4", "tcp", "fb", FALSE, 16, FALSE, TRUE, Geo(1920, 1080, 0, 15, 800, 450)),
  Config("mpeg4", "tcp", "cpu", FALSE, 16, FALSE, FALSE, Geo(720, 576, 0, 30, 800, 480)),
  Config("avc", "tcp", "decode", FALSE, 16, FALSE, FALSE, Geo(704, 576, 400, 0, 700, 480)),
  \* an odd width, and a rectangle off the screen: no session
  Config("avc", "tcp", "fb", FALSE, 16, FALSE, FALSE, Geo(720, 480, 0, 0, 799, 480)),
  Config("mpeg4", "tcp", "fb", FALSE, 16, FALSE, FALSE, Geo(720, 480, 800, 0, 400, 240))}
=============================================================================

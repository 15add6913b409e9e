---------------------------- MODULE MCRtpStream ----------------------------
(* RtpStream on small instances: the sequence number wraps after 8 packets.  *)
(* The unit of time is 0.5 ms, and the tick 1/24 of that of 48 kHz, so that  *)
(* 48 kHz is rate 1 and 96 kHz rate 2; the clock of video stands for 90 kHz. *)
EXTENDS RtpStream

Says(rate, interval) == [rate |-> rate, interval |-> interval]
Both      == Says(TRUE, TRUE)
RateOnly  == Says(TRUE, FALSE)

Sender(kind, rate, interval, burst, announces) ==
    [kind |-> kind, rate |-> rate, interval |-> interval, burst |-> burst,
     announces |-> announces]

\* 48 kHz and 1 ms, however announced; 0.5 ms; ST 2110 audio of 96 kHz; a video frame of
\* two packets; and 4 ms of which the rate alone is announced.
MCSenders == {Sender("aes67", 1, 2, 1, Announcement),
              Sender("aes67", 1, 1, 1, {NoSdp, Both}),
              Sender("audio", 2, 2, 1, {Both}),
              Sender("video", 3, 8, 2, {}),
              Sender("aes67", 1, 8, 1, {RateOnly})}

MCKnown == <<[rate |-> 1, interval |-> 2], [rate |-> 1, interval |-> 1],
             [rate |-> 1, interval |-> 4], [rate |-> 1, interval |-> 8]>>
=============================================================================

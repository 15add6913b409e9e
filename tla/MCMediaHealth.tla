---------------------------- MODULE MCMediaHealth ----------------------------
(* MediaHealth with one Dante flow, of a device or of a computer with a Dante *)
(* soundcard, and a video stream.                                             *)
EXTENDS MediaHealth

MCStreams    == {"flow", "video"}
MCSourceOf   == [flow |-> "sender", video |-> "camera"]
MCProtocolOf == [flow |-> "Dante", video |-> "Video"]

With(kind, ttl) == [sender |-> [class |-> kind, ttl |-> ttl],
                    camera |-> [class |-> "Hardware", ttl |-> 64]]

MCNatures == {With("Hardware", 64), With("Dvs", 128)}
\* A computer that is no Windows host.
MCUnix    == {With("Dvs", 64)}

MCFlow  == {"flow"}
MCVideo == {"video"}
=============================================================================

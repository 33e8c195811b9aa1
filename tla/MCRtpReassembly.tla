-------------------------- MODULE MCRtpReassembly --------------------------
(* A stream of the shapes that H.264 packetization gives: a fragmented unit,  *)
(* a keepalive, slices, a single packet, an aggregate with a fragmented slice. *)
EXTENDS RtpReassembly

Part(u, kind) == [unit |-> u, kind |-> kind, marker |-> FALSE]
Last(u, kind) == [unit |-> u, kind |-> kind, marker |-> TRUE]

MCStream == <<Part(1, "start"), Part(1, "mid"), Last(1, "end"),
              Part(0, "keepalive"),
              Part(2, "nal"), Last(2, "nal"),
              Last(3, "nal"),
              Part(4, "nal"), Part(4, "start"), Part(4, "end"), Last(4, "nal")>>

=============================================================================

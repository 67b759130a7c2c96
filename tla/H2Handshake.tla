----------------------------- MODULE H2Handshake -----------------------------
(***************************************************************************)
(* h2mux.Handshake: both ends send their SETTINGS and check the peer's,    *)
(* then acknowledge them and expect the acknowledgement.  Either stage     *)
(* fails on a bad frame, or after a timeout.  The other end may be a muxer *)
(* of either role, with any compression, or something else altogether.     *)
(***************************************************************************)
EXTENDS Integers, Sequences

Ends == {"a", "b"}
OtherEnd(e) == IF e = "a" THEN "b" ELSE "a"

Roles == {"origin", "edge"}        \* IsClient, and the magic that goes with it

(* compressionPresets: number of dictionaries, log2 of their size.         *)
CompressionPresets ==
    { [nDicts |-> 0, dictSize |-> 0], [nDicts |-> 32, dictSize |-> 17],
      [nDicts |-> 64, dictSize |-> 18], [nDicts |-> 255, dictSize |-> 19] }
CompressionNone == [nDicts |-> 0, dictSize |-> 0]

CompressionVersion == 1
CompressionFormat == 2

(* The 32 bits of the setting, a byte each: version, format, size, number. *)
CompressionSettingVal(q) ==
    ((CompressionVersion * 256 + CompressionFormat) * 256 + q.dictSize) * 256 + q.nDicts
ParseCompressionSettingVal(v) ==
    [version |-> v \div (256 * 65536), format |-> (v \div 65536) % 256,
     dictSize |-> (v \div 256) % 256, nDicts |-> v % 256]

VARIABLES
    config,   \* what each end is: a muxer with a role and a compression, or alien
    stage,    \* "settings", "ack", "ok" or "failed"
    wrote,    \* the frame of the stage has been written
    heard,    \* the peer's frame of the stage has been accepted
    quality,  \* Muxer.compressionQuality
    sent      \* frames written and not read yet

hsVars == <<config, stage, wrote, heard, quality, sent>>

Muxers == [kind: {"muxer"}, role: Roles, preset: CompressionPresets, supported: BOOLEAN]

IsMuxer(e) == config[e].kind = "muxer"

HandshakeInit ==
    /\ \E a \in Muxers, b \in Muxers \cup {[kind |-> "alien"]} :
          /\ config = [e \in Ends |-> IF e = "a" THEN a ELSE b]
          /\ quality = [e \in Ends |->
                IF config[e].kind = "muxer" /\ config[e].supported THEN config[e].preset
                ELSE CompressionNone]
    /\ stage = [e \in Ends |-> "settings"]
    /\ wrote = [e \in Ends |-> FALSE]
    /\ heard = [e \in Ends |-> FALSE]
    /\ sent = [e \in Ends |-> <<>>]

(* The frame of the current stage.                                         *)
OwnFrame(e) ==
    IF stage[e] = "ack" THEN [type |-> "ACK"]
    ELSE [type |-> "SETTINGS", magic |-> config[e].role,
          compression |-> IF config[e].supported
                          THEN CompressionSettingVal(config[e].preset) ELSE 0]

WriteOwnFrame(e) ==
    /\ IsMuxer(e) /\ stage[e] \in {"settings", "ack"} /\ ~wrote[e]
    /\ wrote' = [wrote EXCEPT ![e] = TRUE]
    /\ sent' = [sent EXCEPT ![e] = Append(@, OwnFrame(e))]
    /\ UNCHANGED <<config, stage, heard, quality>>

(* readPeerSettings and readPeerSettingsAck: is this the expected frame?   *)
AcceptsFrame(e, f) ==
    IF stage[e] = "ack" THEN f.type = "ACK"
    ELSE f.type = "SETTINGS" /\ f.magic \in Roles \ {config[e].role}

KeepsOwnBug(own, val) == own

(* The compression both ends can do.                                       *)
Negotiated(own, val) ==
    LET peer == ParseCompressionSettingVal(val)
        Lower(x, y) == IF x < y THEN x ELSE y
    IN  IF \/ peer.version # CompressionVersion \/ peer.format # CompressionFormat
           \/ peer.dictSize = 0 \/ peer.nDicts = 0
        THEN CompressionNone
        ELSE [nDicts |-> Lower(peer.nDicts, own.nDicts),
              dictSize |-> Lower(peer.dictSize, own.dictSize)]

ReadPeerFrame(e) ==
    LET f == Head(sent[OtherEnd(e)]) IN
    /\ IsMuxer(e) /\ stage[e] \in {"settings", "ack"} /\ ~heard[e]
    /\ sent[OtherEnd(e)] # <<>>
    /\ sent' = [sent EXCEPT ![OtherEnd(e)] = Tail(@)]
    /\ IF AcceptsFrame(e, f)
       THEN /\ heard' = [heard EXCEPT ![e] = TRUE]
            /\ quality' = [quality EXCEPT ![e] =
                  IF f.type = "SETTINGS" THEN Negotiated(@, f.compression) ELSE @]
            /\ UNCHANGED stage
       ELSE /\ stage' = [stage EXCEPT ![e] = "failed"]
            /\ UNCHANGED <<heard, quality>>
    /\ UNCHANGED <<config, wrote>>

(* joinErrorsWithTimeout has both results of the stage ...                 *)
StageDone(e) ==
    /\ stage[e] \in {"settings", "ack"} /\ wrote[e] /\ heard[e]
    /\ stage' = [stage EXCEPT ![e] = IF @ = "settings" THEN "ack" ELSE "ok"]
    /\ wrote' = [wrote EXCEPT ![e] = FALSE]
    /\ heard' = [heard EXCEPT ![e] = FALSE]
    /\ UNCHANGED <<config, quality, sent>>

(* ... or has waited too long for one.                                     *)
StageTimesOut(e) ==
    /\ IsMuxer(e) /\ stage[e] \in {"settings", "ack"} /\ ~(wrote[e] /\ heard[e])
    /\ stage' = [stage EXCEPT ![e] = "failed"]
    /\ UNCHANGED <<config, wrote, heard, quality, sent>>

(* Something that is not a muxer answers (environment).                    *)
AlienSends(e) ==
    /\ ~IsMuxer(e) /\ ~wrote[e]
    /\ wrote' = [wrote EXCEPT ![e] = TRUE]
    /\ \E f \in { [type |-> "SETTINGS", magic |-> "none", compression |-> 0],
                  [type |-> "ACK"], [type |-> "OTHER"] } :
          sent' = [sent EXCEPT ![e] = <<f>>]
    /\ UNCHANGED <<config, stage, heard, quality>>

HandshakeNext ==
    \E e \in Ends : \/ WriteOwnFrame(e) \/ ReadPeerFrame(e) \/ StageDone(e)
                    \/ StageTimesOut(e) \/ AlienSends(e)

HandshakeSpec == HandshakeInit /\ [][HandshakeNext]_hsVars

Passed(e) == stage[e] \in {"ack", "ok"}

(***************************************************************************)
(* A handshake that succeeds was with a muxer of the other role which, as  *)
(* it acknowledged our SETTINGS, had accepted them; and two ends that have *)
(* accepted each other use the same dictionaries, or none.                 *)
(***************************************************************************)
HandshakeSound ==
    \A e \in Ends :
        /\ Passed(e) /\ IsMuxer(e) => IsMuxer(OtherEnd(e)) /\ config[OtherEnd(e)].role # config[e].role
        /\ Passed(e) /\ Passed(OtherEnd(e)) => quality[e] = quality[OtherEnd(e)]
        /\ stage[e] = "ok" => quality[e] = quality[OtherEnd(e)]
=============================================================================

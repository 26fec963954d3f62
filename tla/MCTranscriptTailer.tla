-------------------------- MODULE MCTranscriptTailer --------------------------
(* An instance of TranscriptTailer for TLC: s1 writes a transcript of any kind  *)
(* of records, s2 shares its shard and has a plain record to be ingested.       *)
EXTENDS TranscriptTailer

CONSTANTS s1, s2

Resumed == [s \in Sessions |-> IF s = s1 THEN 0 ELSE 2]
OneShard == [s \in Sessions |-> 1]
Mixed == [s \in Sessions |-> IF s = s1
            THEN {<<"event", "toxic">>, <<"poison", "event">>}
            ELSE {<<"silent", "event">>}]
=============================================================================

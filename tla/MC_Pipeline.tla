----------------------------- MODULE MC_Pipeline -----------------------------
(* A small instance of the pipeline: two subscriptions that feed two      *)
(* different objects (their instance offsets keep them apart), one BACnet *)
(* COV subscriber, room for one object only.                              *)
EXTENDS Pipeline, TLC

CONSTANTS k1, k2, c1, s1, s2

MCKeys == {k1, k2}
MCSubscribers == {c1}
MCSubs == {s1, s2}
MCValues == 0..2
MCIncrements == {0, 2}

(* Subscription s1 defines k1, moves its value and deletes it; s2 defines  *)
(* k2 with a COV increment, moves it, and carries an undecodable event    *)
(* and a device configuration.                                            *)
MCStreams ==
    [s \in MCSubs |->
        IF s = s1
          THEN << [kind |-> "def", key |-> k1, value |-> 0, inc |-> 0],
                  [kind |-> "upd", key |-> k1, value |-> 1],
                  [kind |-> "del", key |-> k1] >>
          ELSE << [kind |-> "def", key |-> k2, value |-> 0, inc |-> 2],
                  [kind |-> "bad", key |-> NoKey],
                  [kind |-> "upd", key |-> k2, value |-> 2],
                  [kind |-> "cfg", key |-> NoKey] >>]
=============================================================================

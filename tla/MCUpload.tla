------------------------------ MODULE MCUpload ------------------------------
(* Both bodies Publish makes, with a package of two pieces, and bodies of   *)
(* other clients, their tokens verified without competition and while no   *)
(* time passes; and an empty body, verified while another request is, over *)
(* a lifetime of the key set.                                              *)
EXTENDS Upload

CONSTANTS k1, v1, v2

Unsigned == <<"package", "data", "data", "end">>
SignedBody == <<"package", "data", "data", "signature", "data", "end">>
EmptyBody == <<>>
OtherBodies == {
    <<"end">>,
    <<"package", "data", "data">>,
    <<"package", "data", "data", "signature", "data">>,
    <<"signature", "data", "package", "data", "end">>,
    <<"signature", "data", "end">>,
    <<"package", "data", "package", "data", "end">>,
    <<"package", "signature", "data", "signature", "end">>,
    <<"package", "data", "other", "end">>,
    <<"unnamed", "data", "end">>,
    <<"package", "data", "data", "data", "data", "data", "end">>}
MCBodies == {Unsigned, SignedBody, EmptyBody} \cup OtherBodies

Alone ==
    /\ UploadInit
    /\ others = {} /\ clock = MaxTime
    /\ token # "scoped" => body = Unsigned

(* The upload has arrived, and other requests come to be verified.         *)
Crowded ==
    /\ KeyInit /\ clock = 0
    /\ body = EmptyBody /\ others = {v2} /\ token = "scoped"
    /\ main = "do" /\ writer = "ended" /\ writeErr = "none"
    /\ written = 0 /\ told = "nothing"
    /\ pipe = "ended" /\ reader = "closed"
    /\ answer = "nothing" /\ wire = "eof" /\ broke = FALSE
    /\ handler = "authenticate" /\ received = 0
    /\ staged = [file \in Files |-> 0] /\ parts = {}
    /\ reply = "nothing" /\ published = None

MCSpec == (Alone \/ Crowded) /\ [][UploadNext]_uploadVars

MCFairSpec == MCSpec /\ Fairness
=============================================================================

------------------------------- MODULE Upload -------------------------------
(***************************************************************************)
(* One upload, from the client to the answer: Client.Publish (client.go:   *)
(* 249-292, 1050-1086) with the goroutine that writes the multipart body   *)
(* into a pipe and the HTTP transport (external) that reads it; and on the *)
(* server authenticate (server.go:299-330), which verifies the token with  *)
(* KeySet, and the upload handler (server.go:508-568).                     *)
(*                                                                         *)
(* A body is a sequence of pieces: the header of a part, with the boundary *)
(* before it ("unnamed": no file name or no valid one), pieces of its      *)
(* data, and the final boundary.  The handler may also meet bodies Publish *)
(* does not make.  PublishUpload is one step here: RepositoryService has   *)
(* what it does.                                                           *)
(***************************************************************************)
EXTENDS KeySet, Sequences, FiniteSets

CONSTANTS
    Request,  \* the verifier that serves the upload
    Bodies,   \* what clients send
    MaxBody,  \* http.MaxBytesReader, in pieces
    Buffer,   \* pieces the network holds
    None

Files == {"package", "signature"}
Headers == {"package", "signature", "unnamed", "other"}

ASSUME UploadAssumption ==
    /\ Request \in Verifiers
    /\ \A b \in Bodies :
           /\ b \in Seq(Headers \cup {"data", "end"})
           /\ \A i \in 1..Len(b) - 1 : b[i] # "end"
    /\ MaxBody \in Nat /\ Buffer \in Nat \ {0}
    /\ None \notin [Files -> 0..MaxBody]

VARIABLES
    body,      \* what the client is to send
    others,    \* requests the server has besides
    token,     \* what its access token is worth, once its signature is verified
    (* the client *)
    main,      \* Publish
    writer,    \* its goroutine
    writeErr,  \* what writeResult gets
    written,   \* pieces that went through the pipe
    pipe,      \* the writer's end
    reader,    \* the reader's end
    answer,    \* what came back from the server
    told,      \* what Publish returns
    (* between them *)
    wire,      \* the request body's end, as the server sees it
    broke,     \* whether the connection did
    (* the server *)
    handler,
    received,  \* pieces read
    staged,    \* pieces in the staging directory
    parts,     \* parts written completely
    reply,
    published  \* the pieces PublishUpload got

request == <<body, others, token>>
publisher == <<main, writer, writeErr, written, told>>
ends == <<pipe, reader>>
connection == <<answer, wire, broke>>
upload == <<received, staged, parts>>
server == <<handler, upload, reply, published>>
uploadVars == <<keyVars, request, publisher, ends, connection, server>>

Replies ==
    {"published", "malformed", "unstaged", "refused", "unauthenticated", "forbidden"}

UploadTypeOK ==
    /\ KeyTypeOK
    /\ body \in Bodies
    /\ others \subseteq Verifiers \ {Request}
    /\ token \in {"invalid", "unscoped", "scoped"}
    /\ main \in {"authorize", "do", "join", "returned"}
    /\ writer \in {"write", "close", "ended"}
    /\ writeErr \in {"none", "file", "ErrClosedPipe"}
    /\ written \in 0..Len(body)
    /\ pipe \in {"open", "ended", "broken"}
    /\ reader \in {"open", "closed"}
    /\ answer \in Replies \cup {"nothing", "network"}
    /\ told \in Replies \cup {"nothing", "network", "authorization", "file", "ErrClosedPipe"}
    /\ wire \in {"none", "open", "eof", "cut"}
    /\ broke \in BOOLEAN
    /\ handler \in {"none", "authenticate", "next", "publish", "done"} \cup Files
    /\ received \in 0..MaxBody
    /\ staged \in [Files -> 0..MaxBody]
    /\ parts \subseteq Files
    /\ reply \in Replies \cup {"nothing"}
    /\ published = None \/ published \in [Files -> 0..MaxBody]

-----------------------------------------------------------------------------
(* The goroutine: addFile for each file, and the final boundary.           *)

Writing == writer = "write"

Complete == written = Len(body)

StopWriting(err) ==
    /\ writer' = "close"
    /\ writeErr' = err
    /\ UNCHANGED <<keyVars, request, main, written, told, ends, connection, server>>

(* Opening or reading a file fails.                                        *)
FileFails ==
    /\ Writing /\ ~Complete
    /\ body[written + 1] # "end"
    /\ StopWriting("file")

WriteFails ==
    /\ Writing /\ ~Complete
    /\ reader = "closed" \/ pipe # "open"
    /\ StopWriting("ErrClosedPipe")

WritesAll == Writing /\ Complete /\ StopWriting("none")

(* Mutant: the pipe is left open.                                          *)
LeavePipe == pipe

CloseWithError ==
    IF pipe # "open" THEN pipe ELSE IF writeErr = "none" THEN "ended" ELSE "broken"

(* CloseWithError, and the result into the buffered channel.               *)
FinishWriting ==
    /\ writer = "close"
    /\ writer' = "ended"
    /\ pipe' = CloseWithError
    /\ UNCHANGED <<keyVars, request, main, writeErr, written, told, reader, connection, server>>

(* Publish itself.                                                         *)

ClosePipe ==
    /\ reader' = "closed"
    /\ pipe' = IF pipe = "open" THEN "ended" ELSE pipe

(* authorizedClient fails: Publish returns without waiting.                *)
AuthorizeFails ==
    /\ main = "authorize"
    /\ main' = "returned"
    /\ told' = "authorization"
    /\ ClosePipe
    /\ UNCHANGED <<keyVars, request, writer, writeErr, written, connection, server>>

StartRequest ==
    /\ main = "authorize"
    /\ main' = "do"
    /\ wire' = "open"
    /\ UNCHANGED <<keyVars, request, writer, writeErr, written, told, ends, answer, broke, server>>

GetAnswer ==
    /\ main = "do" /\ answer # "nothing"
    /\ main' = "join"
    /\ UNCHANGED <<keyVars, request, writer, writeErr, written, told, ends, connection, server>>

(* Mutant: the writer's error before anything the server said.             *)
WriterFirst == IF writeErr # "none" THEN writeErr ELSE answer

Outcome ==
    IF writeErr # "none" /\ (answer = "published" \/ writeErr # "ErrClosedPipe")
    THEN writeErr ELSE answer

ReturnOutcome ==
    /\ main = "join" /\ writer = "ended"
    /\ main' = "returned"
    /\ told' = Outcome
    /\ UNCHANGED <<keyVars, request, writer, writeErr, written, ends, connection, server>>

-----------------------------------------------------------------------------
(* The transport and the network.                                          *)

Transferring == wire = "open" /\ reader = "open"

(* A Write returns when the transport has read it.  What the handler does  *)
(* not read any more is discarded.                                         *)
TransferPiece ==
    /\ Transferring /\ Writing /\ ~Complete /\ pipe = "open"
    /\ written - received < Buffer \/ handler = "done"
    /\ written' = written + 1
    /\ UNCHANGED <<keyVars, request, main, writer, writeErr, told, ends, connection, server>>

Failed == IF answer = "nothing" THEN "network" ELSE answer

(* The end of the pipe ends the body; an error from it fails the request.  *)
EndBody ==
    /\ Transferring
    /\ \/ pipe = "ended" /\ wire' = "eof" /\ UNCHANGED answer
       \/ pipe = "broken" /\ wire' = "cut" /\ answer' = Failed
    /\ UNCHANGED <<keyVars, request, publisher, ends, broke, server>>

(* The transport closes a body it is done with, or will not finish.        *)
CloseBody ==
    /\ reader = "open"
    /\ answer # "nothing" \/ wire \in {"eof", "cut"}
    /\ reader' = "closed"
    /\ wire' = IF wire = "open" THEN "cut" ELSE wire
    /\ UNCHANGED <<keyVars, request, publisher, pipe, answer, broke, server>>

DeliverReply ==
    /\ reply # "nothing" /\ answer = "nothing" /\ ~broke
    /\ answer' = reply
    /\ UNCHANGED <<keyVars, request, publisher, ends, wire, broke, server>>

Disconnect ==
    /\ wire \in {"open", "eof"} /\ answer = "nothing"
    /\ broke' = TRUE
    /\ answer' = "network"
    /\ wire' \in IF wire = "eof" THEN {"eof", "cut"} ELSE {"cut"}
    /\ UNCHANGED <<keyVars, request, publisher, ends, server>>

-----------------------------------------------------------------------------
(* The server.                                                             *)

client == <<request, publisher, ends, connection>>

Reply(code) ==
    /\ handler' = "done"
    /\ reply' = code

Arrive ==
    /\ handler = "none" /\ wire # "none"
    /\ handler' = "authenticate"
    /\ UNCHANGED <<keyVars, client, upload, reply, published>>

(* No token, a malformed one, or one with wrong claims.                    *)
RejectToken ==
    /\ handler = "authenticate"
    /\ token = "invalid" \/ phase[Request] = "refused"
    /\ Reply("unauthenticated")
    /\ UNCHANGED <<keyVars, client, upload, published>>

VerifyToken ==
    /\ handler = "authenticate" /\ token # "invalid"
    /\ TakeKeySet(Request) \/ Verification(Request)
    /\ UNCHANGED <<client, server>>

(* The rest of KeySet, for as long as it matters to this request.          *)
Verifying == handler = "authenticate" /\ phase[Request] \notin {"accepted", "refused"}

Elsewhere ==
    /\ Verifying
    /\ \/ Surroundings
       \/ GiveUp(Request)
       \/ \E v \in others : TakeKeySet(v) \/ Verification(v) \/ GiveUp(v) \/ Finish(v)
    /\ UNCHANGED <<client, server>>

(* Mutant: the handler goes on after writing 403.                          *)
AnyToken == TRUE

Granted == token = "scoped"

Authorize ==
    /\ handler = "authenticate" /\ phase[Request] = "accepted"
    /\ \/ Granted /\ handler' = "next" /\ UNCHANGED reply
       \/ ~Granted /\ Reply("forbidden")
    /\ UNCHANGED <<keyVars, client, upload, published>>

-----------------------------------------------------------------------------
(* The upload handler: NextPart and the copies into the staging directory. *)

TooLong == received = MaxBody

Arrived == received < written /\ ~TooLong

Next(piece) == Arrived /\ body[received + 1] = piece

AtEnd(how) == received = written /\ wire = how

(* The body cannot be read on: a broken connection, or the limit.          *)
Breaks == AtEnd("cut") \/ (received < written /\ TooLong)

Consume == received' = received + 1

(* Mutant: one part is enough.                                             *)
OnlyOne(file) == parts # {}

Repeated(file) == file \in parts

BeginPart(file) ==
    /\ handler = "next" /\ Next(file)
    /\ Consume
    /\ \/ Repeated(file) /\ Reply("malformed")
       \/ ~Repeated(file) /\ handler' = file /\ UNCHANGED reply
    /\ UNCHANGED <<keyVars, client, staged, parts, published>>

RejectPart ==
    /\ handler = "next" /\ (Next("unnamed") \/ Next("other"))
    /\ Consume
    /\ Reply("malformed")
    /\ UNCHANGED <<keyVars, client, staged, parts, published>>

CopyPiece(file) ==
    /\ handler = file /\ Next("data")
    /\ Consume
    /\ staged' = [staged EXCEPT ![file] = @ + 1]
    /\ UNCHANGED <<keyVars, client, handler, parts, reply, published>>

(* Mutant: a part that breaks off is taken for a whole one.                *)
EndsAnyhow == AtEnd("eof") \/ \E piece \in Headers \cup {"end"} : Next(piece)

PartEnds == \E piece \in Headers \cup {"end"} : Next(piece)

EndPart(file) ==
    /\ handler = file /\ PartEnds
    /\ handler' = "next"
    /\ parts' = parts \cup {file}
    /\ UNCHANGED <<keyVars, client, received, staged, reply, published>>

(* The staging directory cannot be made, or a file in it written.          *)
StagingFails ==
    /\ handler \in Files \/ (handler = "next" /\ received = 0)
    /\ Reply("unstaged")
    /\ UNCHANGED <<keyVars, client, upload, published>>

(* io.ErrUnexpectedEOF inside a part, or an error anywhere.                *)
BreakOff ==
    /\ \/ handler \in Files \cup {"next"} /\ Breaks
       \/ handler \in Files /\ AtEnd("eof")
    /\ Reply("malformed")
    /\ UNCHANGED <<keyVars, client, upload, published>>

(* NextPart wraps io.EOF when the body ends without the final boundary, and *)
(* errors.Is finds it.                                                     *)
EndParts ==
    /\ handler = "next"
    /\ \/ Next("end") /\ Consume
       \/ AtEnd("eof") /\ UNCHANGED received
    /\ \/ "package" \in parts /\ handler' = "publish" /\ UNCHANGED reply
       \/ "package" \notin parts /\ Reply("malformed")
    /\ UNCHANGED <<keyVars, client, staged, parts, published>>

(* Mutant: no return after the error.                                      *)
ReplyAnyway == Reply("published")

Refuse == Reply("refused")

PublishUpload ==
    /\ handler = "publish"
    /\ \/ published' = staged /\ Reply("published")
       \/ UNCHANGED published /\ Refuse
    /\ UNCHANGED <<keyVars, client, upload>>

HandleUpload ==
    \/ \E file \in Files : BeginPart(file) \/ CopyPiece(file) \/ EndPart(file)
    \/ RejectPart \/ BreakOff \/ EndParts \/ PublishUpload

-----------------------------------------------------------------------------
UploadInit ==
    /\ KeyInit
    /\ body \in Bodies
    /\ others \in SUBSET (Verifiers \ {Request})
    /\ token \in {"invalid", "unscoped", "scoped"}
    /\ main = "authorize" /\ writer = "write" /\ writeErr = "none"
    /\ written = 0 /\ told = "nothing"
    /\ pipe = "open" /\ reader = "open"
    /\ answer = "nothing" /\ wire = "none" /\ broke = FALSE
    /\ handler = "none" /\ received = 0
    /\ staged = [file \in Files |-> 0] /\ parts = {}
    /\ reply = "nothing" /\ published = None

Goroutine == WriteFails \/ WritesAll \/ FinishWriting

Caller == AuthorizeFails \/ StartRequest \/ GetAnswer \/ ReturnOutcome

Transport == TransferPiece \/ EndBody \/ CloseBody \/ DeliverReply

Handler == Arrive \/ RejectToken \/ VerifyToken \/ Authorize \/ HandleUpload

(* The upload is over on both sides, or never reached the server.          *)
Over ==
    /\ main = "returned" /\ writer = "ended"
    /\ handler \in {"none", "done"}
    /\ UNCHANGED uploadVars

UploadNext ==
    \/ FileFails \/ Goroutine \/ Caller \/ Transport \/ Disconnect
    \/ Handler \/ StagingFails \/ Elsewhere
    \/ Over

UploadSpec == UploadInit /\ [][UploadNext]_uploadVars

(* Goroutines and the handler go on when they can; the transport closes    *)
(* every body it was given (the contract of http.RoundTripper), and a      *)
(* fetch of keys comes to an end.                                          *)
Fairness ==
    /\ WF_uploadVars(Goroutine)
    /\ WF_uploadVars(Caller)
    /\ WF_uploadVars(TransferPiece \/ EndBody)
    /\ WF_uploadVars(CloseBody)
    /\ WF_uploadVars(DeliverReply)
    /\ WF_uploadVars(Handler)
    /\ \A s \in Times :
           WF_uploadVars(/\ Verifying
                         /\ ProviderAnswers(s) \/ FetchDone(s)
                         /\ UNCHANGED <<client, server>>)

-----------------------------------------------------------------------------
(* Properties.                                                             *)

(* The pieces of data that belong to parts with this header.               *)
DataOf(file) ==
    Cardinality({i \in 1..Len(body) :
        /\ body[i] = "data"
        /\ \E j \in 1..i : body[j] = file /\ \A n \in j + 1..i : body[n] = "data"})

Occurrences(piece) == Cardinality({i \in 1..Len(body) : body[i] = piece})

WellFormed ==
    /\ Len(body) \in 1..MaxBody
    /\ body[Len(body)] = "end"
    /\ Occurrences("package") = 1 /\ Occurrences("signature") <= 1
    /\ Occurrences("unnamed") = 0 /\ Occurrences("other") = 0

(* Only a complete upload is published, and with all its data, wherever    *)
(* the connection or a file of the client broke: exactly one package, at   *)
(* most one signature, and the final boundary (server.go:523-562, and      *)
(* client.go:264-274, which sends no final boundary after an error).       *)
PublishesComplete ==
    published # None =>
        WellFormed /\ published = [file \in Files |-> DataOf(file)]

(* As long as nothing breaks, the handler calls no complete upload         *)
(* malformed, whatever the order of its parts.                             *)
RejectsMalformedOnly ==
    reply = "malformed" /\ ~broke /\ writeErr # "file" => ~WellFormed

(* Publish reports success only if the upload is published, and unless the *)
(* connection breaks it does report it (client.go:283-291).                *)
TellsTheTruth ==
    /\ told = "published" => published # None
    /\ published # None /\ main = "returned" /\ ~broke => told = "published"

(* An answer the server gives before it has read the body is what Publish  *)
(* reports, not the closed pipe its goroutine meets then                   *)
(* (TestPublishReportsEarlyServerResponse, client.go:285).                 *)
ReportsEarlyAnswer ==
    main = "returned" /\ answer \in Replies /\ writeErr # "file" => told = answer

(* Nothing is staged or published for a token without the permission, or   *)
(* whose key the provider had withdrawn a lifetime before (server.go:      *)
(* 319-329 with jwt.go:50-60).                                             *)
AuthorizedOnly ==
    received > 0 \/ published # None =>
        /\ token = "scoped"
        /\ OfferedSince(signer[Request], started[Request] - Lifetime + 1)

(* Publish returns and its goroutine ends, whoever stops first: nobody     *)
(* keeps an end of the pipe open while the other side waits (client.go:    *)
(* 272-284).                                                               *)
UploadEnds == <>(main = "returned" /\ writer = "ended")
=============================================================================

------------------------------ MODULE AiSettings ------------------------------
(***************************************************************************)
(* The AI provider of the administrators (AiSettingsService): one row of   *)
(* settings that is saved whole, and calls that read it once and then ask  *)
(* the provider it names.  Calls run concurrently with saves.              *)
(*                                                                         *)
(* The provider and the network are external.  Its answer comes in chunks: *)
(* the lines of an event stream, or the pieces of one JSON body.  Whatever *)
(* ends it early is not noticed: CallAiChat drops the error of io.ReadAll, *)
(* and the LimitReader ends a long body as if it were over.                *)
(***************************************************************************)
EXTENDS Naturals, Sequences

CONSTANTS
  Calls,       \* the handler goroutines
  Values,      \* of a field
  Blank,       \* a field left blank
  Offers,      \* what administrators enter, blanks included
  ChatLimit,   \* the chunks that are read of the answer to a chat, 8 MiB,
  ListLimit,   \* and of a list of models, 2 MiB
  MaxChunks    \* MaxChunks[c]: bound on the chunks of the answer to c

Entry == [base : Values \cup {Blank}, key : Values \cup {Blank},
          model : Values \cup {Blank}]

ASSUME AiConstantsOK ==
  /\ Offers \subseteq Entry /\ {ChatLimit, ListLimit} \subseteq Nat \ {0}
  /\ MaxChunks \in [Calls -> Nat]

VARIABLES
  row,      \* ai_config
  call      \* the calls

Unset == [base |-> Blank, key |-> Blank, model |-> Blank]

(* A "data:" line of a stream, or a completion in JSON, that has a text or *)
(* has none; any other line (a comment, an event, an id), and any other    *)
(* JSON (an error).                                                        *)
Chunk == {"text", "none", "other"}

Complete(o) == Blank \notin {o.base, o.key, o.model}

(* A row that is missing is treated as one with blanks is.                 *)
NoCall == [at |-> "idle", op |-> "status", cfg |-> Unset, body |-> <<>>,
           json |-> FALSE, whole |-> FALSE, ok |-> FALSE, raw |-> FALSE,
           reply |-> {}]

AiInit == row \in Offers \cup {Unset} /\ call = [c \in Calls |-> NoCall]
-----------------------------------------------------------------------------
CallAt(c, where) == call[c].at = where

Ends(c, ok, raw, reply) ==
  /\ call' = [call EXCEPT ![c].at = "done", ![c].ok = ok, ![c].raw = raw,
                          ![c].reply = reply]
  /\ UNCHANGED row

(* Save, and the call that lists the models of a provider not saved yet.   *)
AskWith(c, op, o) ==
  /\ CallAt(c, "idle")
  /\ call' = [call EXCEPT ![c] = [NoCall EXCEPT
                !.at = IF op = "save" THEN "write" ELSE "ask",
                !.op = op, !.cfg = o]]
  /\ UNCHANGED row

Ask(c, op) ==
  /\ CallAt(c, "idle")
  /\ call' = [call EXCEPT ![c] = [NoCall EXCEPT !.at = "read", !.op = op]]
  /\ UNCHANGED row

(* Blank or malformed input, a chat whose last turn is not the user's, and *)
(* an error of the database or of the provider before it answers.          *)
Reject(c) ==
  /\ call[c].at \in {"write", "read", "ask"}
  /\ Ends(c, FALSE, FALSE, {})

(* Mutant: ON DUPLICATE KEY UPDATE without api_key.                        *)
SaveForgetsKey(c) ==
  /\ CallAt(c, "write") /\ Complete(call[c].cfg)
  /\ row' = IF row = Unset THEN call[c].cfg
            ELSE [call[c].cfg EXCEPT !.key = row.key]
  /\ call' = [call EXCEPT ![c].at = "done", ![c].ok = TRUE]

Save(c) ==
  /\ CallAt(c, "write") /\ Complete(call[c].cfg)
  /\ row' = call[c].cfg
  /\ call' = [call EXCEPT ![c].at = "done", ![c].ok = TRUE]

Status(c) ==
  /\ CallAt(c, "read") /\ call[c].op = "status"
  /\ call' = [call EXCEPT ![c].at = "done", ![c].ok = TRUE,
                          ![c].cfg = IF Complete(row) THEN row ELSE Unset]
  /\ UNCHANGED row

(* configOrFail.                                                           *)
ReadConfig(c) ==
  /\ CallAt(c, "read") /\ call[c].op = "chat" /\ Complete(row)
  /\ call' = [call EXCEPT ![c].at = "ask", ![c].cfg = row]
  /\ UNCHANGED row

(* The provider accepts the request and begins its answer, as a stream or  *)
(* as one JSON body.                                                       *)
Answers(c) ==
  /\ CallAt(c, "ask")
  /\ call[c].op = "models" => Blank \notin {call[c].cfg.base, call[c].cfg.key}
  /\ \E json \in BOOLEAN :
       /\ call[c].op = "models" => json
       /\ call' = [call EXCEPT ![c].at = "body", ![c].json = json]
  /\ UNCHANGED row

(* The pieces of a JSON body are of a kind.                                *)
Send(c, k) ==
  /\ CallAt(c, "body") /\ ~call[c].whole
  /\ Len(call[c].body) < MaxChunks[c]
  /\ call[c].json => \A i \in DOMAIN call[c].body : call[c].body[i] = k
  /\ call' = [call EXCEPT ![c].body = Append(@, k)]
  /\ UNCHANGED row

EndOfBody(c) ==
  /\ CallAt(c, "body") /\ call[c].body # <<>> /\ ~call[c].whole
  /\ call' = [call EXCEPT ![c].whole = TRUE]
  /\ UNCHANGED row

Texts(body) == {i \in DOMAIN body : body[i] = "text"}

(* Mutant: an event without text ends the loop.                            *)
ParseStops(body) ==
  {i \in Texts(body) : \A j \in 1 .. i : body[j] = "text"}

(* The loop of parseAiCompletion: the texts of the events that have one.   *)
(* Events without text, errors among them, and other lines are passed over.*)
Parse(body) == Texts(body)

Taken(body, limit) == DOMAIN body \cap (1 .. limit)

Cut(c, limit) == ~call[c].whole \/ Len(call[c].body) > limit

(* The body begins with "data:".                                           *)
Events(c) == ~call[c].json /\ call[c].body # <<>> /\ call[c].body[1] # "other"

(* It is a completion in JSON.                                             *)
Completion(c) ==
  call[c].json /\ ~Cut(c, ChatLimit) /\ call[c].body[1] # "other"

(* parseAiCompletion, by the chunks whose text it returns.  What is not    *)
(* the one or the other is returned as it stands.                          *)
Raw(c) == ~Events(c) /\ ~Completion(c)

Shown(c) ==
  Taken(call[c].body, ChatLimit) \cap
    IF Raw(c) THEN DOMAIN call[c].body ELSE Parse(call[c].body)

(* The body has ended, or the connection, or the 180 s of the client, or   *)
(* as much has come as is read.                                            *)
Receive(c) ==
  /\ CallAt(c, "body")
  /\ IF call[c].op = "models"
     THEN Ends(c, ~Cut(c, ListLimit) /\ call[c].body[1] = "text", FALSE, {})
     ELSE Ends(c, Shown(c) # {}, Raw(c), Shown(c))

Returned(c) ==
  /\ CallAt(c, "done")
  /\ call' = [call EXCEPT ![c] = NoCall]
  /\ UNCHANGED row

(* The process ends.                                                       *)
AiExit == call' = [c \in Calls |-> NoCall] /\ UNCHANGED row

Handle(c) ==
  \/ Reject(c) \/ Save(c) \/ Status(c) \/ ReadConfig(c)
  \/ Receive(c) \/ Returned(c)

Provider(c) ==
  \/ Answers(c) \/ EndOfBody(c)
  \/ \E k \in Chunk : Send(c, k)

Arrive(c) ==
  \/ \E op \in {"status", "chat"} : Ask(c, op)
  \/ \E op \in {"save", "models"}, o \in Offers : AskWith(c, op, o)

AiStep == \E c \in Calls : Handle(c) \/ Provider(c)
-----------------------------------------------------------------------------
(* The types.                                                              *)
Call == [at : {"idle", "write", "read", "ask", "body", "done"},
         op : {"status", "chat", "save", "models"}, cfg : Entry,
         body : Seq(Chunk), json : BOOLEAN, whole : BOOLEAN,
         ok : BOOLEAN, raw : BOOLEAN, reply : SUBSET Nat]

AiTypeOK ==
  /\ row \in Entry /\ call \in [Calls -> Call]
  /\ \A c \in Calls : Len(call[c].body) <= MaxChunks[c]

(* "provider tersimpan": a chat is sent to the endpoint, with the key and  *)
(* for the model, of one complete entry of an administrator, and a status  *)
(* shows one; no save that runs meanwhile makes a mixture of two.          *)
OneEntry ==
  \A c \in Calls :
    /\ call[c].at \in {"ask", "body"} /\ call[c].op = "chat" =>
         call[c].cfg \in Offers /\ Complete(call[c].cfg)
    /\ call[c].at = "done" => call[c].cfg \in Offers \cup {Unset}

(* "menangani respons JSON biasa maupun SSE": of a body that has come      *)
(* whole every text is shown that stands in the first 8 MiB, and it is an  *)
(* error if there is none.  Shown as it stands, and taken for an answer,   *)
(* is what is not recognised: a stream that begins with another line than  *)
(* data, an error in JSON with status 200, and a JSON body of more than    *)
(* 8 MiB.                                                                  *)
WholeReply ==
  \A c \in Calls :
    LET k == call[c]  read == Taken(k.body, ChatLimit)
    IN  k.at = "done" /\ k.op = "chat" /\ k.whole =>
          \/ ~k.raw /\ k.reply = Texts(k.body) \cap read /\ (k.ok <=> k.reply # {})
          \/ /\ k.raw /\ k.ok /\ k.reply = read
             /\ k.body[1] = "other" \/ (k.json /\ Len(k.body) > ChatLimit)
=============================================================================

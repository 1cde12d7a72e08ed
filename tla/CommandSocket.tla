---------------------------- MODULE CommandSocket ----------------------------
(***************************************************************************)
(* How a command gets to the command thread and its answer back             *)
(* (system/commands.c, tools/tell_iris/tell_iris.c): one thread serves one   *)
(* connection after another, and closes none of them.  What the commands do  *)
(* is in CommandThread.                                                     *)
(*                                                                          *)
(* A command is a sequence of pieces, " " among them: names of commands,     *)
(* numbers, anything else.                                                  *)
(***************************************************************************)
EXTENDS Naturals, Sequences, SequencesExt

CONSTANTS
  Clients,           \* runs of tell_iris
  Nobody,            \* no client
  Requests,          \* the commands they send; none is empty or begins with a blank
  Numbers,           \* what atoi() makes of the pieces that are numbers
  G_rss_feed_count,
  Pending,           \* 5: how many may wait in listen()
  Descriptors        \* how many connections the process can have open

ASSUME CommandSocketAssumption ==
  /\ Nobody \notin Clients
  /\ \A r \in Requests : r \in Seq(STRING) /\ r # <<>> /\ r[1] # " "
  /\ {G_rss_feed_count, Pending, Descriptors} \subseteq Nat

VARIABLES
  up,            \* the process is there
  lengthFits,    \* what the stack holds for the length of the address is one accept() takes
  commandPc, s2, command,
  connections,   \* how many are open
  waiting,       \* for accept()
  clientPc, request,
  sent,          \* has the request been written?
  response

serverVars == <<up, lengthFits, commandPc, s2, command, connections>>
commandVars == <<serverVars, waiting, clientPc, request, sent, response>>

NoRequest == <<>>
Silent == "none"   \* no answer

CommandsStart ==
  /\ up = TRUE /\ lengthFits \in BOOLEAN
  /\ commandPc = "setup" /\ s2 = Nobody /\ command = <<>> /\ connections = 0
  /\ waiting = <<>>
  /\ clientPc = [c \in Clients |-> "idle"] /\ request = [c \in Clients |-> NoRequest]
  /\ sent = [c \in Clients |-> FALSE] /\ response = [c \in Clients |-> Silent]

-----------------------------------------------------------------------------
(* PL_parse_command: the first token, and the first place in it where a name *)
(* begins; the name has to end the token, not to begin it.                  *)
AcceptedCommands ==
  {"stream_start", "stream_stop", "stream_next", "stream_prev", "vol_up", "vol_down",
   "stream_reload", "rss_reload", "tell_time", "read_rss", "stream_show"}

Tokens(text) ==
  LET blanks == {i \in DOMAIN text : text[i] = " "}
  IN IF blanks = {} THEN <<text, <<>>>>
     ELSE LET first == CHOOSE i \in blanks : \A j \in blanks : i <= j
          IN <<SubSeq(text, 1, first - 1), SubSeq(text, first + 1, Len(text))>>

Parsed(text) ==
  LET token == Tokens(text)[1]
      found == {name \in AcceptedCommands :
                  /\ token[Len(token)] = name
                  /\ \A i \in 1 .. Len(token) - 1 : token[i] # name}
  IN IF found = {} THEN "unknown" ELSE CHOOSE name \in found : TRUE

(* atoi() of the second token, in a byte.                                    *)
RssIndex(text) ==
  LET second == Tokens(Tokens(text)[2])[1]
  IN IF second # <<>> /\ second[1] \in DOMAIN Numbers THEN Numbers[second[1]] % 256 ELSE 0

(* An index that is too large gets no answer.                               *)
AnswerTo(text) ==
  LET name == Parsed(text)
  IN CASE name = "unknown"                       -> "NOK unknown command"
       [] name \in {"stream_reload", "rss_reload"} -> "NOK not implemented"
       [] name = "read_rss" /\ Tokens(text)[2] # <<>> /\ RssIndex(text) > G_rss_feed_count -> Silent
       [] OTHER                                  -> "OK"

-----------------------------------------------------------------------------
(* The command thread.                                                      *)
CommandGoes(from, to) == up /\ commandPc = from /\ commandPc' = to

(* PL_command_socket_setup; without a socket there are no commands.          *)
SocketIsSetUp ==
  /\ up /\ commandPc = "setup" /\ commandPc' \in {"accept", "disabled"}
  /\ UNCHANGED <<up, lengthFits, s2, command, connections, waiting, clientPc, request, sent,
                  response>>

(* Wrong: the buffer is not cleared.                                        *)
NotCleared == command
Cleared == <<>>

(* accept() fails for good, and at once each time, when no descriptor is left.*)
Accepts ==
  /\ CommandGoes("accept", "recv")
  /\ waiting # <<>> /\ connections < Descriptors /\ lengthFits
  /\ s2' = Head(waiting) /\ waiting' = Tail(waiting)
  /\ connections' = connections + 1
  /\ command' = Cleared
  /\ UNCHANGED <<up, lengthFits, clientPc, request, sent, response>>

(* A length that is none: accept() drops the connection, each time.          *)
Drops ==
  /\ CommandGoes("accept", "accept")
  /\ waiting # <<>> /\ connections < Descriptors /\ ~lengthFits
  /\ waiting' = Tail(waiting)
  /\ clientPc' = [clientPc EXCEPT ![Head(waiting)] = "idle"]
  /\ UNCHANGED <<up, lengthFits, s2, command, connections, request, sent, response>>

(* What is sent has no end of its own.                                      *)
Receives ==
  /\ CommandGoes("recv", "serve") /\ sent[s2]
  /\ command' = request[s2] \o SubSeq(command, Len(request[s2]) + 1, Len(command))
  /\ UNCHANGED <<up, lengthFits, s2, connections, waiting, clientPc, request, sent, response>>

(* The client has gone without a word.                                      *)
ReceivesNothing ==
  /\ CommandGoes("recv", "accept") /\ ~sent[s2] /\ clientPc[s2] = "gone"
  /\ s2' = Nobody
  /\ UNCHANGED <<up, lengthFits, command, connections, waiting, clientPc, request, sent, response>>

(* An answer to a client that has gone is a signal nobody handles.          *)
Serves ==
  /\ CommandGoes("serve", "accept")
  /\ LET answer == AnswerTo(command)
     IN IF clientPc[s2] = "gone"
        THEN up' = (answer = Silent) /\ UNCHANGED response
        ELSE response' = [response EXCEPT ![s2] = answer] /\ UNCHANGED up
  /\ s2' = Nobody
  /\ UNCHANGED <<lengthFits, command, connections, waiting, clientPc, request, sent>>

CommandServer == SocketIsSetUp \/ Accepts \/ Drops \/ Receives \/ ReceivesNothing \/ Serves

-----------------------------------------------------------------------------
(* tell_iris: it waits for an answer as long as the connection lasts.        *)
ClientGoes(c, from, to) == clientPc[c] = from /\ clientPc' = [clientPc EXCEPT ![c] = to]

Connects(c) ==
  /\ up /\ commandPc \notin {"setup", "disabled"} /\ Len(waiting) < Pending
  /\ ClientGoes(c, "idle", "writing")
  /\ waiting' = Append(waiting, c)
  /\ \E r \in Requests : request' = [request EXCEPT ![c] = r]
  /\ sent' = [sent EXCEPT ![c] = FALSE] /\ response' = [response EXCEPT ![c] = Silent]
  /\ UNCHANGED serverVars

Writes(c) ==
  /\ ClientGoes(c, "writing", "reading")
  /\ sent' = [sent EXCEPT ![c] = TRUE]
  /\ UNCHANGED <<serverVars, waiting, request, response>>

Reads(c) ==
  /\ response[c] # Silent \/ ~up
  /\ ClientGoes(c, "reading", "idle")
  /\ UNCHANGED <<serverVars, waiting, request, sent, response>>

(* It is interrupted, and another run takes its place when the program has   *)
(* noticed.                                                                 *)
IsInterrupted(c) ==
  /\ ClientGoes(c, "writing", "gone") \/ ClientGoes(c, "reading", "gone")
  /\ UNCHANGED <<serverVars, waiting, request, sent, response>>

IsForgotten(c) ==
  /\ c # s2 /\ ~Contains(waiting, c) /\ ClientGoes(c, "gone", "idle")
  /\ UNCHANGED <<serverVars, waiting, request, sent, response>>

ClientStep(c) == Writes(c) \/ Reads(c)
ClientMayStep(c) == Connects(c) \/ IsInterrupted(c) \/ IsForgotten(c)

(* The radio is switched off and on.                                        *)
IsSwitchedOn ==
  /\ up' = TRUE /\ lengthFits' \in BOOLEAN
  /\ commandPc' = "setup" /\ s2' = Nobody /\ command' = <<>> /\ connections' = 0
  /\ waiting' = <<>>
  /\ clientPc' = [c \in Clients |-> "idle"] /\ request' = [c \in Clients |-> NoRequest]
  /\ sent' = [c \in Clients |-> FALSE] /\ response' = [c \in Clients |-> Silent]

CommandsNext ==
  CommandServer \/ IsSwitchedOn \/ \E c \in Clients : ClientStep(c) \/ ClientMayStep(c)

CommandsSpec ==
  CommandsStart /\ [][CommandsNext]_commandVars
    /\ WF_commandVars(CommandServer) /\ \A c \in Clients : WF_commandVars(ClientStep(c))

-----------------------------------------------------------------------------
(* Nobody gets the answer to something else, and nobody waits for ever who   *)
(* has sent something that is answered, unless the radio has died of a       *)
(* client that went, or has no descriptor left for another connection.      *)
Waits(c) == clientPc[c] = "reading" /\ AnswerTo(request[c]) # Silent

CommandIsAnswered ==
  /\ [](\A c \in Clients : response[c] # Silent => response[c] = AnswerTo(request[c]))
  /\ \A c \in Clients : []<>(~Waits(c) \/ ~up \/ connections = Descriptors)
=============================================================================

------------------------------ MODULE WebServer ------------------------------
(***************************************************************************)
(* The web server (system/websrv.c, system/webadmin.c, system/REST.c): how   *)
(* it reads its certificate and its key, and how it answers a request.  The  *)
(* HTTP library is not part of the program: it calls the handler when it has *)
(* the headers of a request and again when it has all of it, until there is  *)
(* an answer, from one thread for all connections.                          *)
(***************************************************************************)
EXTENDS Naturals, Sequences, FiniteSets

CONSTANTS
  BUFSIZ,
  FileLengths,      \* of the certificate and of the key
  Connections,      \* of the browsers
  WebRequests,      \* what they ask for
  passwd,           \* the users of the system, in the order of the file
  ADMIN_LOGIN,      \* who asks that gives no name
  NONE              \* no name, no password, no request

ASSUME WebServerAssumption ==
  /\ BUFSIZ \in Nat \ {0} /\ FileLengths \subseteq Nat
  /\ Len(passwd) \in Nat /\ DOMAIN passwd = 1 .. Len(passwd)
  /\ \A i \in DOMAIN passwd : passwd[i].name # NONE /\ passwd[i].password # NONE
  /\ \A r \in WebRequests : r.segment = "admin" => r.path \in {"panel", "dots", "file"}

VARIABLES
  webPc,                  \* "cert", "key", "serving", "disabled", or "crashed"
  fileLength,             \* of the file that is read
  alloc, size,            \* of the buffer
  loaded,                 \* per file that was read: how much of it is missing
  con_cls,                \* per connection: is it the address of aptr?
  stage,                  \* per connection, in the library
  webRequest, reply,
  passwdNext              \* which user getpwent() returns next

fileVars == <<fileLength, alloc, size, loaded>>
connectionVars == <<con_cls, stage, webRequest, reply, passwdNext>>
webVars == <<webPc, fileVars, connectionVars>>

WebStart ==
  /\ webPc = "cert"
  /\ fileLength \in FileLengths /\ alloc = 0 /\ size = 0 /\ loaded = <<>>
  /\ con_cls = [c \in Connections |-> FALSE] /\ stage = [c \in Connections |-> "idle"]
  /\ webRequest = [c \in Connections |-> NONE] /\ reply = [c \in Connections |-> NONE]
  /\ passwdNext = 1

-----------------------------------------------------------------------------
(* read_file and fread_file.  The buffer grows by half, or to a block and a  *)
(* byte for the end of the string.                                          *)
Grown ==
  IF size + BUFSIZ + 1 <= alloc THEN alloc
  ELSE LET half == alloc + alloc \div 2
       IN IF half < size + BUFSIZ + 1 THEN size + BUFSIZ + 1 ELSE half

Requested == Grown - size - 1
Left == fileLength - size
Smaller(a, b) == IF a < b THEN a ELSE b

ReadsBlock ==
  /\ webPc \in {"cert", "key"} /\ Left >= Requested
  /\ alloc' = Grown /\ size' = size + Requested
  /\ UNCHANGED <<webPc, fileLength, loaded, connectionVars>>

(* Wrong: a block that is not full is the end.                              *)
AnyShortBlock(count) == TRUE
EndOfFile(count) == count = Left

(* The last block: up to the end, or up to an error.                         *)
ReadsLastBlock ==
  /\ webPc \in {"cert", "key"}
  /\ \E count \in 0 .. Smaller(Left, Requested - 1) :
       IF EndOfFile(count)
       THEN /\ loaded' = Append(loaded, Left - count)
            /\ webPc' = IF webPc = "cert" THEN "key" ELSE "serving"
       ELSE webPc' = "disabled" /\ UNCHANGED loaded
  /\ fileLength' \in IF webPc' = "key" THEN FileLengths ELSE {0}
  /\ alloc' = 0 /\ size' = 0
  /\ UNCHANGED connectionVars

(* A file that is not there, cannot be closed, or for which there is no       *)
(* memory; and a server that cannot be started.                             *)
WebIsDisabled ==
  /\ webPc \in {"cert", "key"} /\ webPc' = "disabled"
  /\ UNCHANGED <<fileVars, connectionVars>>

PL_websrv_thread == ReadsBlock \/ ReadsLastBlock \/ WebIsDisabled

-----------------------------------------------------------------------------
(* PL_check_webauth_pass.  Without a password nothing is looked up;          *)
(* otherwise the users are read from where the reading stands to the end,    *)
(* and the last one of the name counts.  A password that is not a salted hash *)
(* cannot be checked.                                                       *)
Asked(r) == IF r.user = NONE THEN ADMIN_LOGIN ELSE r.user

Found(r) ==
  LET named == {i \in passwdNext .. Len(passwd) : passwd[i].name = Asked(r)}
  IN {i \in named : \A j \in named : j <= i}

IsLetIn(r) ==
  r.password # NONE /\ \E i \in Found(r) : passwd[i].salted /\ passwd[i].password = r.password

(* Wrong: the reading is left at the end when the user is not found.          *)
NotRewound(r) == IF Found(r) = {} THEN Len(passwd) + 1 ELSE 1
Rewound(r) == 1

-----------------------------------------------------------------------------
(* PL_service_admin_panel_req.  What it gives to a GET of the panel or of a   *)
(* path with dots in it frees a pointer that was never set; a POST is not    *)
(* answered.                                                                *)
AdminReplies(r) ==
  CASE r.method = "POST" -> {"unanswered"}
    [] r.method = "GET" /\ r.path = "panel" -> {"panel", "crash"}
    [] r.method = "GET" /\ r.path = "dots"  -> {"400", "crash"}
    [] r.method = "GET" /\ r.path = "file"  -> {"404", "500", "file"}

(* PL_service_REST_request makes no response: what is answered is undefined.  *)
RestReplies == {"closed", "crash"}

(* A request by another method is refused.                                   *)
Replies(r) ==
  CASE r.method \notin {"GET", "POST"} -> {"closed"}
    [] r.method \in {"GET", "POST"} /\ r.segment = "none"  -> {"redirect"}
    [] r.method \in {"GET", "POST"} /\ r.segment = "other" -> {"404"}
    [] r.method \in {"GET", "POST"} /\ r.segment = "api"   ->
         IF r.key THEN RestReplies ELSE {"invalid key"}
    [] r.method \in {"GET", "POST"} /\ r.segment = "admin" ->
         IF IsLetIn(r) THEN AdminReplies(r) ELSE {"401"}

LooksUp(r) == r.method \in {"GET", "POST"} /\ r.segment = "admin" /\ r.password # NONE

(* The browser asks, and asks again on the same connection.                  *)
Asks(c) ==
  /\ webPc = "serving" /\ stage[c] = "idle"
  /\ stage' = [stage EXCEPT ![c] = "headers"]
  /\ \E r \in WebRequests : webRequest' = [webRequest EXCEPT ![c] = r]
  /\ reply' = [reply EXCEPT ![c] = NONE]
  /\ UNCHANGED <<webPc, fileVars, con_cls, passwdNext>>

(* PL_service_web_connection, the first call of a request ...                *)
FirstCall(c) ==
  /\ webPc = "serving" /\ stage[c] \in {"headers", "complete"} /\ ~con_cls[c]
  /\ con_cls' = [con_cls EXCEPT ![c] = TRUE]
  /\ stage' = [stage EXCEPT ![c] = "complete"]
  /\ UNCHANGED <<webPc, fileVars, webRequest, reply, passwdNext>>

(* Wrong: the connection keeps the mark of the request that was answered.    *)
MarkStays(c) == con_cls
MarkIsTaken(c) == [con_cls EXCEPT ![c] = FALSE]

(* ... and the second.                                                      *)
SecondCall(c) ==
  /\ webPc = "serving" /\ stage[c] \in {"headers", "complete"} /\ con_cls[c]
  /\ con_cls' = MarkIsTaken(c)
  /\ \E answer \in Replies(webRequest[c]) :
       /\ webPc' = IF answer = "crash" THEN "crashed" ELSE webPc
       /\ IF answer \in {"crash", "unanswered"} THEN UNCHANGED <<stage, reply>>
          ELSE /\ reply' = [reply EXCEPT ![c] = [answer |-> answer, at |-> stage[c]]]
               /\ stage' = [stage EXCEPT ![c] = "idle"]
  /\ passwdNext' = IF LooksUp(webRequest[c]) THEN Rewound(webRequest[c]) ELSE passwdNext
  /\ UNCHANGED <<fileVars, webRequest>>

(* The browser gives up; or the radio is switched off and on.                *)
BrowserLeaves(c) ==
  /\ stage[c] # "idle" /\ stage' = [stage EXCEPT ![c] = "idle"]
  /\ con_cls' = [con_cls EXCEPT ![c] = FALSE]
  /\ reply' = [reply EXCEPT ![c] = NONE] /\ webRequest' = [webRequest EXCEPT ![c] = NONE]
  /\ UNCHANGED <<webPc, fileVars, passwdNext>>

WebIsSwitchedOn ==
  /\ webPc' = "cert" /\ fileLength' \in FileLengths
  /\ alloc' = 0 /\ size' = 0 /\ loaded' = <<>>
  /\ con_cls' = [c \in Connections |-> FALSE] /\ stage' = [c \in Connections |-> "idle"]
  /\ webRequest' = [c \in Connections |-> NONE] /\ reply' = [c \in Connections |-> NONE]
  /\ passwdNext' = 1

Handler(c) == FirstCall(c) \/ SecondCall(c)

WebNext ==
  \/ PL_websrv_thread \/ WebIsSwitchedOn
  \/ \E c \in Connections : Asks(c) \/ Handler(c) \/ BrowserLeaves(c)

WebSpec ==
  WebStart /\ [][WebNext]_webVars
    /\ WF_webVars(PL_websrv_thread) /\ \A c \in Connections : WF_webVars(Handler(c))

-----------------------------------------------------------------------------
(* The server runs with a certificate and a key that are whole, whatever     *)
(* their lengths and wherever reading them went wrong, or not at all.        *)
FilesAreWhole ==
  /\ webPc = "serving" => Len(loaded) = 2
  /\ \A i \in DOMAIN loaded : loaded[i] = 0
  /\ size < alloc \/ alloc = 0

(* Who may see the pages of the administration: the password is that of the  *)
(* user, and the user the last of that name.                                *)
Knows(r) ==
  \E i \in DOMAIN passwd :
    /\ passwd[i].name = Asked(r) /\ passwd[i].salted /\ passwd[i].password = r.password
    /\ \A j \in i + 1 .. Len(passwd) : passwd[j].name # passwd[i].name

RepliesAreDue ==
  \A c \in Connections : reply[c] # NONE =>
    /\ reply[c].at = "complete"
    /\ webRequest[c].segment = "admin" /\ webRequest[c].method \in {"GET", "POST"} =>
         (reply[c].answer = "401" <=> ~Knows(webRequest[c]))

Unanswered(r) == r.method = "POST" /\ r.segment = "admin"

(* However the requests of two browsers follow one another, each is answered *)
(* when it is complete, by a server whose files are whole, and the pages of   *)
(* the administration are shown to those who know a password, whoever asked   *)
(* before, and to nobody else.                                              *)
RequestsAreAnswered ==
  /\ [](FilesAreWhole /\ RepliesAreDue)
  /\ \A c \in Connections :
       []<>(stage[c] = "idle" \/ webPc = "crashed" \/ Unanswered(webRequest[c]))
=============================================================================

-------------------------------- MODULE Login --------------------------------
(***************************************************************************)
(* Authentication: which password answers a server's challenge             *)
(* (cmd/go-xpra/main.go, client/client.go) and how (client/hello.go),      *)
(* against a server that may ask for what the client does not do, ask      *)
(* again, or have another password.                                        *)
(*                                                                         *)
(* An HMAC is the pair of what went into it: equal only when key and       *)
(* message are, and revealing neither.                                     *)
(***************************************************************************)
EXTENDS Naturals, Sequences

CONSTANTS
  Passwords,     \* passwords a user or the environment may give
  NoPassword,
  MaxChallenges  \* bound: challenges the server sends

\* What the constants have to satisfy.
LoginAssumption == NoPassword \notin Passwords /\ MaxChallenges \in Nat

Given == Passwords \cup {NoPassword}
Digests == {"hmac+sha256", "xor"}

VARIABLES
  transport,    \* "ssh" or "tcp": every transport but ssh treats passwords alike
  url,          \* the password in the URL
  environment,  \* XPRA_PASSWORD
  prompt,       \* what the user types: a password, nothing, or "failure"
  proxied,      \* what ssh was given to log in with
  secret,       \* the server's password
  challengeSeen,
  challenge,    \* the server's last challenge, or {}
  pending,      \* the client has not handled it yet
  sent,         \* hellos that answer one
  outcome,      \* "open", "accepted", "refused" by the server, or "stopped"
  challenges    \* bound

vars == <<transport, url, environment, prompt, proxied, secret,
          challengeSeen, challenge, pending, sent, outcome, challenges>>

given == <<transport, url, environment, prompt, secret>>

hmacHex(key, message) == <<"hmac", key, message>>

\* connect: an ssh URL's password belongs to the ssh login.
Init ==
  /\ transport \in {"ssh", "tcp"}
  /\ url \in Given /\ environment \in Given /\ prompt \in Given \cup {"failure"}
  /\ proxied = IF transport = "ssh" THEN url ELSE NoPassword
  /\ secret \in Passwords
  /\ challengeSeen = FALSE /\ challenge = {} /\ pending = FALSE /\ sent = <<>>
  /\ outcome = "open" /\ challenges = 0

clientPassword == IF transport = "ssh" THEN NoPassword ELSE url

\* challengePassword: the first of the three that is there.
challengePassword ==
  IF clientPassword # NoPassword THEN clientPassword
  ELSE IF environment # NoPassword THEN environment
  ELSE IF prompt = "failure" THEN NoPassword ELSE prompt

\* Without a fifth element the salt digest is the server's default; the digest
\* may have a suffix, the salt digest may not.  Salt 0 is an empty one.
SaltDigest(c) == IF c.length >= 5 THEN c.saltDigest ELSE <<"xor">>

Supported(c) ==
  c.salt # 0 /\ Head(c.digest) = "hmac+sha256" /\ SaltDigest(c) = <<"hmac+sha256">>

\* challengeReply: the salt's HMAC is the message of the password's.  The client
\* salt is fresh.
Reply(c, clientSalt) ==
  [response |-> hmacHex(challengePassword, hmacHex(clientSalt, c.salt)), clientSalt |-> clientSalt]

-----------------------------------------------------------------------------
Names == {<<d>> : d \in Digests} \cup {<<d, "colon", "suffix">> : d \in Digests}

ServerChallenges ==
  /\ outcome = "open" /\ challenge = {} /\ challenges < MaxChallenges
  /\ challenges' = challenges + 1
  /\ pending' = TRUE
  /\ \E salt \in {0, challenges'}, digest \in Names, saltDigest \in Names, length \in 4 .. 5 :
       challenge' = {[salt |-> salt, digest |-> digest, saltDigest |-> saltDigest,
                      length |-> length]}
  /\ UNCHANGED <<given, proxied, challengeSeen, sent, outcome>>

Stop == outcome' = "stopped" /\ UNCHANGED <<challengeSeen, sent>>

\* Mutant: a second challenge is answered like the first.
AnswerAgain(c) ==
  IF challengePassword = NoPassword \/ ~Supported(c) THEN Stop
  ELSE /\ sent' = Append(sent, Reply(c, <<"salt", Len(sent)>>))
       /\ UNCHANGED <<challengeSeen, outcome>>

\* handleChallenge: a second challenge means the password was wrong.
Answer(c) ==
  \/ challengeSeen /\ Stop
  \/ /\ ~challengeSeen
     /\ challengeSeen' = TRUE
     /\ IF challengePassword = NoPassword \/ ~Supported(c)
        THEN outcome' = "stopped" /\ UNCHANGED sent
        ELSE /\ sent' = Append(sent, Reply(c, <<"salt", Len(sent)>>))
             /\ UNCHANGED outcome

HandleChallenge ==
  /\ outcome = "open" /\ pending
  /\ \E c \in challenge : Answer(c)
  /\ pending' = FALSE
  /\ UNCHANGED <<given, proxied, challenge, challenges>>

\* The server computes the same from its own password, and may ask again rather
\* than refuse.
ServerVerifies ==
  /\ outcome = "open" /\ challenge # {} /\ ~pending
  /\ LET reply == sent[Len(sent)] IN
     \E c \in challenge :
       \/ /\ reply.response = hmacHex(secret, hmacHex(reply.clientSalt, c.salt))
          /\ outcome' = "accepted"
          /\ UNCHANGED challenge
       \/ /\ reply.response # hmacHex(secret, hmacHex(reply.clientSalt, c.salt))
          /\ \/ outcome' = "refused" /\ UNCHANGED challenge
             \/ challenge' = {} /\ UNCHANGED outcome
  /\ UNCHANGED <<given, proxied, challengeSeen, pending, sent, challenges>>

Next == ServerChallenges \/ HandleChallenge \/ ServerVerifies

Spec == Init /\ [][Next]_vars

-----------------------------------------------------------------------------
\* Not more than one challenge was answered, with the one password there is.
OneReply ==
  \/ sent = <<>>
  \/ /\ challengeSeen /\ challengePassword # NoPassword
     /\ \E salt \in 1 .. MaxChallenges : sent = <<Reply([salt |-> salt], <<"salt", 0>>)>>

\* What the server verifies is the answer to what it asked.
ReplyIsToTheChallenge ==
  /\ \A c, d \in challenge : c = d
  /\ \A c \in challenge : c.salt \in 0 .. MaxChallenges
  /\ outcome = "open" /\ ~pending =>
       \A c \in challenge : sent = <<Reply(c, <<"salt", 0>>)>>

\* The server's verdict is about that password.
VerdictIsTrue ==
  /\ outcome = "accepted" => sent # <<>> /\ secret = challengePassword
  /\ outcome = "refused" => secret # challengePassword

\* The inductive invariant behind CredentialsStayInPlace.
LoginInv ==
  /\ challenges \in 0 .. MaxChallenges
  /\ proxied = (IF transport = "ssh" THEN url ELSE NoPassword)
  /\ OneReply /\ ReplyIsToTheChallenge /\ VerdictIsTrue

\* A password goes to whom it was given for, once, and under a digest of this
\* connection's own salts only; whoever gave the server's password gets in.
CredentialsStayInPlace ==
  /\ Len(sent) <= 1
  /\ \A i \in DOMAIN sent :
       /\ sent[i].response[1] = "hmac" /\ sent[i].response[3][3] # 0
       /\ transport = "ssh" => sent[i].response[2] \in {environment, prompt}
  /\ proxied # NoPassword => transport = "ssh"
  /\ outcome = "accepted" => secret \in {url, environment, prompt}
  /\ outcome = "refused" => secret # challengePassword
=============================================================================

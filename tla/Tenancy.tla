------------------------------- MODULE Tenancy -------------------------------
(* Who may work where: accounts and their sessions (AuthService,            *)
(* AccountsService), codes sent by mail (VerificationTokenService), persons *)
(* (PersonsService), professionals and their own place (onboard,            *)
(* ensurePersonalComercio), comercios, their members and invitations        *)
(* (ComerciosService, InvitationsService), and the logical deletion of all  *)
(* of them by the administrator (AdminDeletionService).  An account is its  *)
(* e-mail, a comercio its slug.  save() of a copy writes all its columns.   *)
EXTENDS Integers, FiniteSets, FiniteSetsExt

CONSTANTS
  Emails, Slugs, People, Phones, Invites, Codes,
  Handlers,      \* calls that may run at once
  Worlds,        \* what there may be at the start
  MaxCalls,      \* bound on calls begun
  MaxDrops,       \* bound on calls cut short
  Nil            \* no row, no call

ASSUME TenancyAssumption ==
  /\ MaxCalls \in Nat /\ MaxDrops \in Nat
  /\ Nil \notin Emails \cup Slugs \cup Phones

VARIABLES
  account,    \* account[e]
  person,     \* person[p]: contacts and the account it belongs to
  pro,        \* pro[e]: the professional of account e, by the slug of its page
  place,      \* place[s]: the comercio of that slug
  member,     \* member[<<e, s>>]: membership of professional e in comercio s
  client,     \* client[<<e, p>>]: person p as a client of professional e
  invite,     \* table comercio_invitation
  code,       \* table verification_token
  handler,    \* handler[c]: the call under way
  calls, drops \* calls begun, calls cut short

tenancyVars == <<account, person, pro, place, member, client, invite, code, handler, calls, drops>>

Account == [claimed: BOOLEAN, password: BOOLEAN, google: BOOLEAN, verified: BOOLEAN,
            blocked: BOOLEAN, session: BOOLEAN]
Person == [email: Emails \cup {Nil}, phone: Phones \cup {Nil}, of: Emails \cup {Nil}, dead: BOOLEAN]
Pro == [slug: Slugs, dead: BOOLEAN]
Place == [owner: Emails, personal: BOOLEAN, dead: BOOLEAN]
Member == [active: BOOLEAN, assigned: BOOLEAN, dead: BOOLEAN]
Client == [active: BOOLEAN, dead: BOOLEAN]
Invite == [to: Emails, place: Slugs, is: {"pending", "accepted", "cancelled", "expired"}, lapsed: BOOLEAN]
Purposes == {"account_claim", "email_verify", "password_reset"}
Code == [to: Emails, for: Purposes, used: BOOLEAN, lapsed: BOOLEAN]
Handler ==
  [at: {"claim", "person", "found", "newPerson", "onboard", "comercio", "client", "issue",
        "google", "use", "apply", "reclaim", "logout", "status", "unassign",
        "join", "rejoin", "invite"},
   as: {"client", "professional", "comercial", "entry", "tenant", "block", "activate", "own"},
   e: Emails, slug: Slugs \cup {Nil}, email: Emails \cup {Nil}, phone: Phones \cup {Nil},
   id: Invites \cup Codes \cup People \cup {Nil},
   copy: Account \cup Person \cup Invite \cup {Nil}]

(* What there is at the start may have come about: somebody can enter an    *)
(* account exactly when it is claimed, whoever owns something has an        *)
(* account, and whoever accepted an invitation is a member.                 *)
Coherent(w) ==
  /\ w.account \in [Emails -> Account \cup {Nil}] /\ w.person \in [People -> Person \cup {Nil}]
  /\ w.pro \in [Emails -> Pro \cup {Nil}] /\ w.place \in [Slugs -> Place \cup {Nil}]
  /\ w.member \in [Emails \X Slugs -> Member \cup {Nil}]
  /\ w.client \in [Emails \X People -> Client \cup {Nil}]
  /\ w.invite \in [Invites -> Invite \cup {Nil}]
  /\ \A e \in Emails : w.account[e] # Nil =>
       (w.account[e].claimed <=> w.account[e].password \/ w.account[e].google)
  /\ \A e \in Emails : w.pro[e] # Nil => w.account[e] # Nil
  /\ \A s \in Slugs : w.place[s] # Nil => w.account[w.place[s].owner] # Nil
  /\ \A p \in People : w.person[p] # Nil /\ w.person[p].of # Nil => w.account[w.person[p].of] # Nil
  /\ \A i \in Invites : w.invite[i] # Nil /\ w.invite[i].is = "accepted" =>
       w.member[<<w.invite[i].to, w.invite[i].place>>] # Nil

ASSUME StartAssumption ==
  /\ Nil \notin Account \cup Member \cup Invite
  /\ \A w \in Worlds : Coherent(w)

(* A row that the queries find: not deleted by the administrator.           *)
Live(row) == row # Nil /\ ~row.dead
ThePros == {e \in Emails : Live(pro[e])}
MemberOf(e, s) == member[<<e, s>>]
NewAccount == [claimed |-> TRUE, password |-> TRUE, google |-> FALSE, verified |-> FALSE,
               blocked |-> FALSE, session |-> FALSE]
NewMember == [active |-> TRUE, assigned |-> FALSE, dead |-> FALSE]

TenancyInit ==
  /\ \E w \in Worlds :
       /\ account = w.account /\ person = w.person /\ pro = w.pro /\ place = w.place
       /\ member = w.member /\ client = w.client /\ invite = w.invite
  /\ code = [k \in Codes |-> Nil]
  /\ handler = [c \in Handlers |-> Nil] /\ calls = 0 /\ drops = 0

(* A call, and what of it the step leaves alone.                            *)
Call(at, as, e) == [at |-> at, as |-> as, e |-> e, slug |-> Nil, email |-> Nil, phone |-> Nil,
                    id |-> Nil, copy |-> Nil]
Counts == calls < MaxCalls /\ calls' = calls + 1
Begins(c, call) == handler[c] = Nil /\ Counts /\ handler' = [handler EXCEPT ![c] = call] /\ UNCHANGED drops
At(c, l) == handler[c] # Nil /\ handler[c].at = l
Goes(c, l) == handler' = [handler EXCEPT ![c].at = l] /\ UNCHANGED <<calls, drops>>
Ends(c) == handler' = [handler EXCEPT ![c] = Nil] /\ UNCHANGED <<calls, drops>>
AtOnce == Counts /\ UNCHANGED <<handler, drops>>
identityVars == <<account, person>>
workVars == <<pro, place, member, client>>
mailVars == <<invite, code>>
-----------------------------------------------------------------------------
(* Accounts.  A definition that a comment marks "bug" is a plausible defect *)
(* of the one that follows it.                                              *)

(* register, registerProfessional and registerComercial read the account    *)
(* (and the slug of the new comercio) before hashing the password.          *)
Register(c, as, e, s) ==
  /\ account[e] # Nil => ~account[e].claimed
  /\ s = Nil <=> as = "client"
  /\ as = "comercial" => ~Live(place[s])
  /\ Begins(c, [Call("claim", as, e) EXCEPT !.slug = s, !.email = e, !.copy = account[e]])
  /\ UNCHANGED <<identityVars, workVars, mailVars>>

(* The row read is saved whole, or a row is inserted, refused by the unique *)
(* index if there is one by now.                                            *)
Claim(c) ==
  LET h == handler[c]
      new == IF h.copy = Nil THEN NewAccount ELSE [h.copy EXCEPT !.password = TRUE, !.claimed = TRUE]
  IN  /\ At(c, "claim")
      /\ IF h.copy = Nil /\ account[h.e] # Nil
         THEN Ends(c) /\ UNCHANGED account
         ELSE /\ account' = [account EXCEPT ![h.e] = new]
              /\ Goes(c, IF h.as = "comercial" THEN "comercio" ELSE "person")
      /\ UNCHANGED <<person, workVars, mailVars>>

(* onboard(): a professional, its own place (an existing comercio of that   *)
(* slug is taken for it) and its membership there, in one transaction;      *)
(* unique indexes count deleted rows too.                                   *)
CanOnboard(e, s) ==
  /\ pro[e] = Nil /\ \A f \in Emails : pro[f] # Nil => pro[f].slug # s
  /\ place[s] # Nil => ~place[s].dead
Onboards(e, s) ==
  /\ pro' = [pro EXCEPT ![e] = [slug |-> s, dead |-> FALSE]]
  /\ place' = IF place[s] # Nil THEN place
              ELSE [place EXCEPT ![s] = [owner |-> e, personal |-> TRUE, dead |-> FALSE]]
  /\ member' = [member EXCEPT ![<<e, s>>] = NewMember]
Onboard(c) ==
  LET h == handler[c]
  IN  /\ At(c, "onboard")
      /\ IF CanOnboard(h.e, h.slug)
         THEN Onboards(h.e, h.slug) /\ (IF h.as = "professional" THEN Goes(c, "issue") ELSE Ends(c))
         ELSE Ends(c) /\ UNCHANGED <<pro, place, member>>
      /\ UNCHANGED <<identityVars, client, mailVars>>

(* The panel's own onboarding, and the administrator's, who loads the       *)
(* account unclaimed (findOrCreateUnclaimed) if there is none.              *)
BeginOnboard(c, e, s) ==
  /\ Begins(c, [Call("onboard", "own", e) EXCEPT !.slug = s])
  /\ account' = IF account[e] # Nil THEN account
                ELSE [account EXCEPT ![e] = [NewAccount EXCEPT !.claimed = FALSE, !.password = FALSE]]
  /\ UNCHANGED <<person, workVars, mailVars>>

(* createComercialWithComercio inserts the comercio of the account.         *)
NewComercio(c) ==
  LET h == handler[c]
  IN  /\ At(c, "comercio")
      /\ IF place[h.slug] # Nil THEN Ends(c) /\ UNCHANGED place
         ELSE /\ place' = [place EXCEPT ![h.slug] = [owner |-> h.e, personal |-> FALSE, dead |-> FALSE]]
              /\ Goes(c, "issue")
      /\ UNCHANGED <<identityVars, pro, member, client, mailVars>>

(* login with the password, refresh with the session: not if blocked.       *)
StartSession(c, e) ==
  /\ account[e] # Nil /\ ~account[e].blocked /\ (account[e].password \/ account[e].session)
  /\ Begins(c, Call("issue", "entry", e))
  /\ UNCHANGED <<identityVars, workVars, mailVars>>
(* issueAndPersist updates the column of the session alone.                 *)
Issue(c) ==
  /\ At(c, "issue") /\ Ends(c)
  /\ account' = [account EXCEPT ![handler[c].e].session = TRUE]
  /\ UNCHANGED <<person, workVars, mailVars>>
Logout(e) ==
  /\ account[e] # Nil /\ account[e].session /\ AtOnce
  /\ account' = [account EXCEPT ![e].session = FALSE]
  /\ UNCHANGED <<person, workVars, mailVars>>

(* validateGoogleUser: links the account of that e-mail, or creates one.    *)
BeginGoogle(c, e) ==
  /\ account[e] # Nil => ~(account[e].google /\ account[e].blocked)
  /\ Begins(c, [Call(IF account[e] # Nil /\ account[e].google THEN "issue" ELSE "google", "entry", e)
                EXCEPT !.email = e, !.copy = account[e]])
  /\ UNCHANGED <<identityVars, workVars, mailVars>>
Google(c) ==
  LET h == handler[c]
      new == [(IF h.copy = Nil THEN [NewAccount EXCEPT !.password = FALSE] ELSE h.copy)
              EXCEPT !.google = TRUE, !.claimed = TRUE, !.verified = TRUE]
  IN  /\ At(c, "google")
      /\ IF h.copy = Nil /\ account[h.e] # Nil THEN Ends(c) /\ UNCHANGED account
         ELSE /\ account' = [account EXCEPT ![h.e] = new]
              /\ IF h.copy = Nil THEN Goes(c, "person") ELSE IF new.blocked THEN Ends(c) ELSE Goes(c, "issue")
      /\ UNCHANGED <<person, workVars, mailVars>>

(* setStatus reads the row and saves it whole.                              *)
BeginSetStatus(c, e, as) ==
  /\ account[e] # Nil
  /\ Begins(c, [Call("status", as, e) EXCEPT !.copy = account[e]])
  /\ UNCHANGED <<identityVars, workVars, mailVars>>
SetStatus(c) ==
  LET h == handler[c]   blocks == h.as = "block"
  IN  /\ At(c, "status") /\ Ends(c)
      /\ account' = [account EXCEPT ![h.e] = [h.copy EXCEPT !.blocked = blocks, !.session = @ /\ ~blocks]]
      /\ UNCHANGED <<person, workVars, mailVars>>
-----------------------------------------------------------------------------
(* Codes sent by mail.                                                      *)

RequestCode(k, e, for) ==
  /\ code[k] = Nil /\ AtOnce
  /\ code' = [code EXCEPT ![k] = [to |-> e, for |-> for, used |-> FALSE, lapsed |-> FALSE]]
  /\ UNCHANGED <<identityVars, workVars, invite>>
CodeLapses(k) ==
  /\ code[k] # Nil /\ ~code[k].lapsed
  /\ code' = [code EXCEPT ![k].lapsed = TRUE]
  /\ UNCHANGED <<identityVars, workVars, invite, handler, calls, drops>>

(* consume: an unused code is found, then saved as used.                    *)
BeginConsume(c, k) ==
  /\ code[k] # Nil /\ ~code[k].used /\ ~code[k].lapsed
  /\ Begins(c, [Call("use", "entry", code[k].to) EXCEPT !.id = k])
  /\ UNCHANGED <<identityVars, workVars, mailVars>>
Consume(c) ==
  LET k == handler[c].id
  IN  /\ At(c, "use")
      /\ code' = [code EXCEPT ![k].used = TRUE] /\ Goes(c, "apply")
      /\ UNCHANGED <<identityVars, workVars, invite>>

(* bug: setting the password leaves the account unclaimed *)
WithPasswordOnly(row) == [row EXCEPT !.password = TRUE]
WithPassword(row) == [row EXCEPT !.password = TRUE, !.claimed = TRUE]

(* verifyEmail and resetPassword update columns; claimAccount reads the     *)
(* account, hashes and saves it whole.                                      *)
Apply(c) ==
  LET e == handler[c].e   for == code[handler[c].id].for
  IN  /\ At(c, "apply")
      /\ \/ account[e] = Nil /\ Ends(c) /\ UNCHANGED account
         \/ /\ account[e] # Nil /\ for = "email_verify" /\ Ends(c)
            /\ account' = [account EXCEPT ![e].verified = TRUE]
         \/ /\ account[e] # Nil /\ for = "password_reset" /\ Goes(c, "logout")
            /\ account' = [account EXCEPT ![e] = WithPassword(@)]
         \/ /\ account[e] # Nil /\ for = "account_claim"
            /\ handler' = [handler EXCEPT ![c].at = "reclaim", ![c].copy = account[e]]
            /\ UNCHANGED <<account, calls, drops>>
      /\ UNCHANGED <<person, workVars, mailVars>>
Reclaim(c) ==
  LET h == handler[c]
  IN  /\ At(c, "reclaim") /\ Goes(c, "issue")
      /\ account' = [account EXCEPT ![h.e] = [WithPassword(h.copy) EXCEPT !.verified = TRUE]]
      /\ UNCHANGED <<person, workVars, mailVars>>
ResetLogsOut(c) ==
  /\ At(c, "logout") /\ Ends(c)
  /\ account' = [account EXCEPT ![handler[c].e].session = FALSE]
  /\ UNCHANGED <<person, workVars, mailVars>>
-----------------------------------------------------------------------------
(* Persons.  A lookup finds any live person of that contact, e-mail first.  *)

Of(field, x) == {p \in People : Live(person[p]) /\ x # Nil /\ person[p][field] = x}
Matches(email, phone) == IF Of("email", email) # {} THEN Of("email", email) ELSE Of("phone", phone)

(* findOrCreate: the person found is reused as it is, whoever it belongs to.*)
AfterPerson(h) == [client |-> "issue", entry |-> "issue", professional |-> "onboard", tenant |-> "client"][h.as]
FindPerson(c) ==
  LET h == handler[c]   found == Matches(h.email, h.phone)
  IN  /\ At(c, "person")
      /\ \/ found = {} /\ Goes(c, "newPerson")
         \/ \E p \in found : /\ handler' = [handler EXCEPT ![c].at = AfterPerson(h), ![c].id = p]
                             /\ UNCHANGED <<calls, drops>>
      /\ UNCHANGED <<identityVars, workVars, mailVars>>
InsertPerson(c, p) ==
  LET h == handler[c]
  IN  /\ At(c, "newPerson") /\ person[p] = Nil
      /\ person' = [person EXCEPT ![p] = [email |-> h.email, phone |-> h.phone,
                                          of |-> IF h.as = "tenant" THEN Nil ELSE h.e, dead |-> FALSE]]
      /\ IF h.as = "own" THEN Ends(c)
         ELSE /\ handler' = [handler EXCEPT ![c].at = AfterPerson(h), ![c].id = p]
              /\ UNCHANGED <<calls, drops>>
      /\ UNCHANGED <<account, workVars, mailVars>>

(* findOrCreateForAccount, when the client books logged in: the person of   *)
(* the account; or one of its contacts that belongs to nobody, saved as its *)
(* own; or a new one.                                                       *)
PersonForAccount(c, e, ph) ==
  LET loose == Matches(e, ph)
      call == [Call("newPerson", "own", e) EXCEPT !.email = e, !.phone = ph]
  IN  /\ account[e] # Nil /\ ~\E p \in People : Live(person[p]) /\ person[p].of = e
      /\ \/ loose = {} /\ Begins(c, call)
         \/ \E p \in loose :
              Begins(c, IF person[p].of # Nil THEN call
                        ELSE [call EXCEPT !.at = "found", !.id = p, !.copy = person[p]])
      /\ UNCHANGED <<identityVars, workVars, mailVars>>
LinkPerson(c) ==
  LET h == handler[c]
  IN  /\ At(c, "found") /\ Ends(c)
      /\ person' = [person EXCEPT ![h.id] = [h.copy EXCEPT !.of = h.e]]
      /\ UNCHANGED <<account, workVars, mailVars>>

(* createClient of the panel; one row for a person and a professional.      *)
CreateClient(c, e, email, ph) ==
  /\ e \in ThePros /\ {email, ph} # {Nil}
  /\ Begins(c, [Call("person", "tenant", e) EXCEPT !.email = email, !.phone = ph])
  /\ UNCHANGED <<identityVars, workVars, mailVars>>
InsertClient(c) ==
  LET k == <<handler[c].e, handler[c].id>>
  IN  /\ At(c, "client") /\ Ends(c)
      /\ client' = IF client[k] # Nil THEN client
                   ELSE [client EXCEPT ![k] = [active |-> TRUE, dead |-> FALSE]]
      /\ UNCHANGED <<identityVars, pro, place, member, mailVars>>
ArchiveClient(k) ==
  /\ Live(client[k]) /\ client[k].active /\ AtOnce
  /\ client' = [client EXCEPT ![k].active = FALSE]
  /\ UNCHANGED <<identityVars, pro, place, member, mailVars>>
-----------------------------------------------------------------------------
(* Members and invitations.                                                 *)

(* The catalog gives a service to an active member; deactivateMembership    *)
(* saves the membership, then takes its services away.                      *)
AssignServices(e, s) ==
  /\ Live(MemberOf(e, s)) /\ MemberOf(e, s).active /\ ~MemberOf(e, s).assigned /\ AtOnce
  /\ member' = [member EXCEPT ![<<e, s>>].assigned = TRUE]
  /\ UNCHANGED <<identityVars, pro, place, client, mailVars>>
DeactivateMembership(c, e, s) ==
  /\ Live(MemberOf(e, s)) /\ Begins(c, [Call("unassign", "own", e) EXCEPT !.slug = s])
  /\ member' = [member EXCEPT ![<<e, s>>].active = FALSE]
  /\ UNCHANGED <<identityVars, pro, place, client, mailVars>>
Unassign(c) ==
  /\ At(c, "unassign") /\ Ends(c)
  /\ member' = [member EXCEPT ![<<handler[c].e, handler[c].slug>>].assigned = FALSE]
  /\ UNCHANGED <<identityVars, pro, place, client, mailVars>>

SendInvitation(i, e, s) ==
  /\ Live(place[s]) /\ invite[i] = Nil /\ AtOnce
  /\ invite' = [invite EXCEPT ![i] = [to |-> e, place |-> s, is |-> "pending", lapsed |-> FALSE]]
  /\ UNCHANGED <<identityVars, workVars, code>>
InviteLapses(i) ==
  /\ invite[i] # Nil /\ ~invite[i].lapsed
  /\ invite' = [invite EXCEPT ![i].lapsed = TRUE]
  /\ UNCHANGED <<identityVars, workVars, code, handler, calls, drops>>

(* A call about an invitation, and the status it will save.                 *)
InviteCall(c, at, i, is) ==
  /\ Begins(c, [Call(at, "own", invite[i].to) EXCEPT
                !.slug = invite[i].place, !.id = i, !.copy = [invite[i] EXCEPT !.is = is]])
  /\ UNCHANGED <<identityVars, workVars, mailVars>>
BeginCancel(c, i) ==
  invite[i] # Nil /\ invite[i].is # "accepted" /\ InviteCall(c, "invite", i, "cancelled")

(* accept: the professional of the e-mail invited.  One who accepted before *)
(* joins again; what lapsed is saved as expired.                            *)
CanAccept(i) == invite[i] # Nil /\ invite[i].is # "cancelled" /\ invite[i].to \in ThePros
AcceptAt(i) == IF invite[i].is = "accepted" THEN "rejoin" ELSE IF invite[i].lapsed THEN "invite" ELSE "join"
BeginAccept(c, i) ==
  CanAccept(i) /\ InviteCall(c, AcceptAt(i), i, IF AcceptAt(i) = "invite" THEN "expired" ELSE "accepted")

(* addMembership: the live membership made active, or a new one; a deleted  *)
(* one is not found and its row refuses the insert.                         *)
Refused(e, s) == MemberOf(e, s) # Nil /\ MemberOf(e, s).dead
Joined(e, s) ==
  IF MemberOf(e, s) = Nil THEN [member EXCEPT ![<<e, s>>] = NewMember]
  ELSE [member EXCEPT ![<<e, s>>].active = TRUE]
(* bug: what addMembership answers is not looked at *)
JoinRegardless(c) ==
  LET h == handler[c]
  IN  /\ At(c, "join") \/ At(c, "rejoin")
      /\ member' = member /\ (IF h.at = "join" THEN Goes(c, "invite") ELSE Ends(c))
      /\ UNCHANGED <<identityVars, pro, place, client, mailVars>>
Join(c) ==
  LET h == handler[c]
  IN  /\ At(c, "join") \/ At(c, "rejoin")
      /\ member' = IF Refused(h.e, h.slug) THEN member ELSE Joined(h.e, h.slug)
      /\ IF h.at = "join" /\ ~Refused(h.e, h.slug) THEN Goes(c, "invite") ELSE Ends(c)
      /\ UNCHANGED <<identityVars, pro, place, client, mailVars>>
SaveInvite(c) ==
  /\ At(c, "invite") /\ Ends(c)
  /\ invite' = [invite EXCEPT ![handler[c].id].is = handler[c].copy.is]
  /\ UNCHANGED <<identityVars, workVars, code>>
-----------------------------------------------------------------------------
(* Logical deletion by the administrator; each call is one transaction.     *)

Dies(f, S, d) == [k \in DOMAIN f |-> IF k \in S /\ f[k] # Nil THEN [f[k] EXCEPT !.dead = d] ELSE f[k]]
Revoked(e) ==
  IF account[e] = Nil THEN account
  ELSE [account EXCEPT ![e].blocked = TRUE, ![e].session = FALSE]
Reactivated(e) == [account EXCEPT ![e].blocked = FALSE]

(* Its memberships and clients go and return with the professional,         *)
(* whatever had deleted them; its account is blocked and reactivated.       *)
SetProfessionalDead(e, d) ==
  /\ pro[e] # Nil /\ (d => ~pro[e].dead) /\ AtOnce
  /\ pro' = Dies(pro, {e}, d) /\ member' = Dies(member, {e} \X Slugs, d)
  /\ client' = Dies(client, {e} \X People, d)
  /\ account' = IF d THEN Revoked(e) ELSE Reactivated(e)
  /\ UNCHANGED <<person, place, mailVars>>
SetComercioDead(s, d) ==
  /\ place[s] # Nil /\ (d => ~place[s].dead) /\ AtOnce
  /\ place' = Dies(place, {s}, d) /\ member' = Dies(member, Emails \X {s}, d)
  /\ account' = IF d THEN Revoked(place[s].owner) ELSE Reactivated(place[s].owner)
  /\ UNCHANGED <<person, pro, client, mailVars>>

(* A client of nobody else goes with its person and account.                *)
LastClientOf(k) == \A e \in Emails : <<e, k[2]>> # k => ~Live(client[<<e, k[2]>>])
DeleteClient(k) ==
  LET owner == IF person[k[2]] = Nil THEN Nil ELSE person[k[2]].of
      gone == LastClientOf(k) /\ Live(person[k[2]])
  IN  /\ Live(client[k]) /\ AtOnce
      /\ client' = Dies(client, {k}, TRUE)
      /\ person' = IF gone THEN Dies(person, {k[2]}, TRUE) ELSE person
      /\ account' = IF gone /\ owner # Nil THEN Revoked(owner) ELSE account
      /\ UNCHANGED <<pro, place, member, mailVars>>
RestoreClient(k) ==
  LET p == person[k[2]]
      returns == p # Nil /\ p.dead
  IN  /\ client[k] # Nil /\ AtOnce
      /\ client' = Dies(client, {k}, FALSE)
      /\ person' = Dies(person, {k[2]}, FALSE)
      /\ account' = IF returns /\ p.of # Nil THEN Reactivated(p.of) ELSE account
      /\ UNCHANGED <<pro, place, member, mailVars>>
-----------------------------------------------------------------------------
(* A call cut short leaves what it wrote.                                   *)
HandlerCut(c) ==
  /\ handler[c] # Nil /\ drops < MaxDrops /\ drops' = drops + 1
  /\ handler' = [handler EXCEPT ![c] = Nil]
  /\ UNCHANGED <<identityVars, workVars, mailVars, calls>>

HandlerStep(c) ==
  \/ Claim(c) \/ FindPerson(c) \/ (\E p \in People : InsertPerson(c, p)) \/ Onboard(c)
  \/ NewComercio(c) \/ Issue(c) \/ Google(c) \/ SetStatus(c)
  \/ Consume(c) \/ Apply(c) \/ Reclaim(c) \/ ResetLogsOut(c)
  \/ LinkPerson(c) \/ InsertClient(c) \/ Unassign(c) \/ Join(c) \/ SaveInvite(c)

HandlerBegins(c) ==
  \/ \E e \in Emails, s \in Slugs \cup {Nil}, as \in {"client", "professional", "comercial"} :
       Register(c, as, e, s)
  \/ \E e \in Emails, s \in Slugs : BeginOnboard(c, e, s) \/ DeactivateMembership(c, e, s)
  \/ \E e \in Emails : StartSession(c, e) \/ BeginGoogle(c, e)
  \/ \E e \in Emails, as \in {"block", "activate"} : BeginSetStatus(c, e, as)
  \/ \E k \in Codes : BeginConsume(c, k)
  \/ \E e \in Emails, ph \in Phones \cup {Nil} : PersonForAccount(c, e, ph)
  \/ \E e \in Emails, x \in Emails \cup {Nil}, ph \in Phones \cup {Nil} : CreateClient(c, e, x, ph)
  \/ \E i \in Invites : BeginCancel(c, i) \/ BeginAccept(c, i)

TenancyNext ==
  \/ \E c \in Handlers : HandlerBegins(c) \/ HandlerStep(c) \/ HandlerCut(c)
  \/ \E e \in Emails : Logout(e)
  \/ \E k \in Codes, e \in Emails, for \in Purposes : RequestCode(k, e, for)
  \/ \E k \in Codes : CodeLapses(k)
  \/ \E k \in Emails \X People : ArchiveClient(k) \/ DeleteClient(k) \/ RestoreClient(k)
  \/ \E e \in Emails, s \in Slugs : AssignServices(e, s)
  \/ \E i \in Invites, e \in Emails, s \in Slugs : SendInvitation(i, e, s)
  \/ \E i \in Invites : InviteLapses(i)
  \/ \E e \in Emails, d \in BOOLEAN : SetProfessionalDead(e, d)
  \/ \E s \in Slugs, d \in BOOLEAN : SetComercioDead(s, d)

TenancySpec == TenancyInit /\ [][TenancyNext]_tenancyVars
-----------------------------------------------------------------------------
(* Properties.                                                              *)

(* Every variable holds a value of its kind.                                *)
TenancyTypeOK ==
  /\ account \in [Emails -> Account \cup {Nil}] /\ person \in [People -> Person \cup {Nil}]
  /\ pro \in [Emails -> Pro \cup {Nil}] /\ place \in [Slugs -> Place \cup {Nil}]
  /\ member \in [Emails \X Slugs -> Member \cup {Nil}]
  /\ client \in [Emails \X People -> Client \cup {Nil}]
  /\ invite \in [Invites -> Invite \cup {Nil}] /\ code \in [Codes -> Code \cup {Nil}]
  /\ handler \in [Handlers -> Handler \cup {Nil}] /\ calls \in Nat /\ drops \in Nat

(* An account counts as claimed (so register refuses its e-mail) exactly    *)
(* when somebody can enter it, whatever stale copies of it are saved.       *)
ClaimedCanEnter ==
  \A e \in Emails : account[e] # Nil =>
    (account[e].claimed <=> account[e].password \/ account[e].google)

(* Who is shown to have accepted has a membership there, however the        *)
(* acceptance was cut short and whatever was deleted or restored meanwhile. *)
AcceptedIsMember ==
  \A i \in Invites : invite[i] # Nil /\ invite[i].is = "accepted" =>
    MemberOf(invite[i].to, invite[i].place) # Nil
=============================================================================

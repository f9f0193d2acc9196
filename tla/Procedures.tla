----------------------------- MODULE Procedures -----------------------------
(***************************************************************************)
(* The procedures library: controlled documents whose versions are written *)
(* as drafts, endorsed by publishing and kept once replaced.  One document *)
(* is modelled.  saveProcedureDraft, publishProcedure and                  *)
(* setProcedureEndorsement each run in one transaction that locks what it  *)
(* reads (a save asks who may write just before it, which is one step with *)
(* it here); requestProcedureApproval reads the draft and writes the request *)
(* in two statements with nothing held between them.  People act from the  *)
(* screen getProcedures last gave them, which may be old.                  *)
(***************************************************************************)
EXTENDS Naturals, Sequences, FiniteSets

CONSTANTS Writers,      \* the people who open the library
          RoleOf,       \* the role each of them holds
          Audiences,    \* the audiences a new document may be written for
          NoSheet,      \* no screen open, nobody asked
          MaxVersions,  \* bound: versions of the document
          MaxSecond,    \* bound: seconds told apart by a draft's save time
          MaxPolicies   \* bound: changes of its endorsement authority

ProcedureRoles == {"facilities_manager", "accounts_manager", "cfo", "director", "admin"}

ASSUME ProceduresAssumption ==
    /\ RoleOf \in [Writers -> ProcedureRoles]
    /\ Audiences \subseteq {"all", "facilities", "accounts"} /\ "all" \in Audiences
    /\ {MaxVersions, MaxSecond, MaxPolicies} \subseteq Nat
    /\ NoSheet \notin Writers

VARIABLES document,   \* the dbo.Procedures row
          editions,   \* its dbo.ProcedureVersions rows, by VersionNo
          sheets,     \* what each person has on the screen
          second,     \* the time, as DATETIME2(0) keeps it
          asking      \* a request for approval between its read and its write

procedureVars == <<document, editions, sheets, second, asking>>

Authorities == {"team", "executive"}

ProceduresInit ==
    /\ document = [made |-> FALSE, audience |-> "all", authority |-> "team", policy |-> 0]
    /\ editions = << >>
    /\ sheets = [p \in Writers |-> NoSheet]
    /\ second = 0
    /\ asking = [p \in Writers |-> NoSheet]

-----------------------------------------------------------------------------
(* Who may do what.                                                        *)

SatisfiedBy(entry) ==
    IF entry = "accounts" THEN {"accounts_manager", "cfo"} ELSE {"facilities_manager"}

canReadProcedure(role, audience) ==
    audience = "all" \/ role \in {"admin", "director"} \/ role \in SatisfiedBy(audience)

canAccessProcedure(role, audience, authority) ==
    canReadProcedure(role, audience) \/ (role = "cfo" /\ authority = "executive")

canEndorseProcedure(role, audience, authority) ==
    \/ role = "director"
    \/ role = "cfo" /\ (authority = "executive" \/ canReadProcedure(role, audience))
    \/ /\ role \in {"facilities_manager", "accounts_manager"}
       /\ authority = "team" /\ canReadProcedure(role, audience)

Accesses(p) == canAccessProcedure(RoleOf[p], document.audience, document.authority)

Endorses(p) == canEndorseProcedure(RoleOf[p], document.audience, document.authority)

\* Admin alone neither publishes nor is asked to (ENDORSER_ROLES).
EndorserRoles == ProcedureRoles \ {"admin"}

MayPublish(p) == RoleOf[p] \in EndorserRoles

OpenDrafts == {v \in DOMAIN editions : editions[v].status = "draft"}

InForce == {v \in DOMAIN editions : editions[v].status = "published"}

-----------------------------------------------------------------------------
(* getProcedures: the screen holds the draft, or the newest version when    *)
(* there is none, and the endorsement policy as it stood.                   *)

GetProcedures(p) ==
    /\ document.made /\ Accesses(p)
    /\ sheets' = [sheets EXCEPT ![p] =
            [edition |-> IF OpenDrafts = {} THEN Len(editions) ELSE CHOOSE v \in OpenDrafts : TRUE,
             at |-> IF OpenDrafts = {} THEN NoSheet ELSE editions[CHOOSE v \in OpenDrafts : TRUE].at,
             authority |-> document.authority, policy |-> document.policy]]
    /\ UNCHANGED <<document, editions, second, asking>>

\* The first save of a new document makes it, for an audience the writer is in.
MakeDocument(audience) ==
    document' = IF document.made THEN document
                ELSE [document EXCEPT !.made = TRUE, !.audience = audience]

\* The audience in force: the stored one, or the one asked for when there is none.
AudienceInForce(audience) == IF document.made THEN document.audience ELSE audience

\* The one draft is rewritten and its request withdrawn; without one the next version is made.
WriteDraft(blank) ==
    LET text == [status |-> "draft", blank |-> blank, at |-> second, asked |-> NoSheet]
    IN  IF OpenDrafts = {} THEN Len(editions) < MaxVersions /\ editions' = Append(editions, text)
                       ELSE editions' = [v \in DOMAIN editions |->
                                IF v \in OpenDrafts THEN text ELSE editions[v]]

\* The draft was last saved in the second the screen shows.
AsShown(p) == sheets[p] # NoSheet /\ \E v \in OpenDrafts : editions[v].at = sheets[p].at

\* A save with no token is last writer wins; one with a token needs the draft as it was shown.
SaveProcedureDraft(p, audience, blank, token) ==
    /\ token => AsShown(p)
    /\ canAccessProcedure(RoleOf[p], AudienceInForce(audience), document.authority)
    /\ MakeDocument(audience)
    /\ WriteDraft(blank)
    /\ UNCHANGED <<sheets, second, asking>>

-----------------------------------------------------------------------------
(* requestProcedureApproval.  The same director is not asked again within   *)
(* ten minutes: the refusal writes nothing, and the ten minutes may be over. *)

\* The version asked about is still the draft.
StillADraft(v) == v \in OpenDrafts

AskReads(p, approver) ==
    /\ asking[p] = NoSheet
    /\ sheets[p] # NoSheet /\ StillADraft(sheets[p].edition)
    /\ RoleOf[approver] \in EndorserRoles
    /\ Accesses(p) /\ Endorses(approver)
    /\ ~editions[sheets[p].edition].blank
    /\ asking' = [asking EXCEPT ![p] = [edition |-> sheets[p].edition, approver |-> approver]]
    /\ UNCHANGED <<document, editions, sheets, second>>

\* The write looks only at whether the version is still a draft: a save since the read has
\* withdrawn the request it then makes.
AskWrites(p) ==
    /\ asking[p] # NoSheet
    /\ editions' = IF StillADraft(asking[p].edition)
                     THEN [editions EXCEPT ![asking[p].edition].asked = asking[p].approver]
                     ELSE editions
    /\ asking' = [asking EXCEPT ![p] = NoSheet]
    /\ UNCHANGED <<document, sheets, second>>

-----------------------------------------------------------------------------
(* publishProcedure and setProcedureEndorsement.                           *)

DraftUnread(v) == TRUE

\* The draft is read and locked before anything is archived.
DraftThere(v) == v \in OpenDrafts

\* The incumbent is retired, then the draft promoted.
PublishProcedure(p) ==
    LET v == sheets[p].edition
    IN  /\ sheets[p] # NoSheet /\ MayPublish(p) /\ Endorses(p)
        /\ DraftThere(v)
        /\ editions' = [w \in DOMAIN editions |->
               IF w \in InForce THEN [editions[w] EXCEPT !.status = "archived"]
               ELSE IF w = v /\ w \in OpenDrafts THEN [editions[w] EXCEPT !.status = "published"]
               ELSE editions[w]]
        /\ UNCHANGED <<document, sheets, second, asking>>

\* The screen's policy is still the one stored: the authority and its version.
PolicyAsShown(p) ==
    /\ sheets[p] # NoSheet
    /\ sheets[p].authority = document.authority /\ sheets[p].policy = document.policy

SetProcedureEndorsement(p, authority) ==
    /\ RoleOf[p] \in {"cfo", "director"} /\ PolicyAsShown(p)
    /\ document.policy < MaxPolicies
    /\ document' = [document EXCEPT !.authority = authority, !.policy = @ + 1]
    /\ UNCHANGED <<editions, sheets, second, asking>>

\* The seed import adds a document the library has not, in any status, with content.
InsertSeedEntry(audience, status) ==
    /\ ~document.made
    /\ document' = [document EXCEPT !.made = TRUE, !.audience = audience]
    /\ editions' = <<[status |-> status, blank |-> FALSE, at |-> second, asked |-> NoSheet]>>
    /\ UNCHANGED <<sheets, second, asking>>

SecondPasses ==
    /\ second < MaxSecond
    /\ second' = second + 1
    /\ UNCHANGED <<document, editions, sheets, asking>>

ProceduresNext ==
    \/ \E p \in Writers :
         \/ GetProcedures(p)
         \/ \E audience \in Audiences, blank, token \in BOOLEAN :
              SaveProcedureDraft(p, audience, blank, token)
         \/ \E approver \in Writers : AskReads(p, approver)
         \/ AskWrites(p)
         \/ PublishProcedure(p)
         \/ \E authority \in Authorities : SetProcedureEndorsement(p, authority)
    \/ \E audience \in Audiences, status \in {"draft", "published", "archived"} :
         InsertSeedEntry(audience, status)
    \/ SecondPasses

ProceduresSpec == ProceduresInit /\ [][ProceduresNext]_procedureVars

-----------------------------------------------------------------------------
(* Properties.                                                             *)

\* A procedure staff could read stays in the library: once a version is in force some version
\* always is, however many people publish the same draft, twice or from an old screen (the
\* fault publishProcedure's header says the locked read of the draft repairs).
StaysInForce == [][InForce # {} => InForce' # {}]_procedureVars

=============================================================================

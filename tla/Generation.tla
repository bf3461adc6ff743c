----------------------------- MODULE Generation -----------------------------
(***************************************************************************)
(* The newsletter generator of a campaign.  A request creates a template   *)
(* or asks for new mails; a background thread deletes the template's mails,*)
(* has OpenAI write new ones and saves them, and reports through a key in  *)
(* Redis.  Meanwhile other requests send, rewrite and delete the same rows.*)
(*                                                                         *)
(* A worker is a background thread, or a request that lasts longer than a  *)
(* step.  It is cut at each commit, each Redis command and each slow call. *)
(***************************************************************************)
EXTENDS Integers, FiniteSets

CONSTANTS
    TemplateId,   \* primary keys of email_templates
    MaxMail,      \* bound: rows ever inserted in generated_emails
    MaxBody,      \* bound: texts a row goes through
    Variations,   \* mails a run writes (3 in the code)
    Worker,       \* threads and requests that run at the same time
    MayCrash      \* whether the server may be restarted

ASSUME TemplateIdAssumption == TemplateId \subseteq Nat \ {0}
ASSUME BoundsAssumption ==
    MaxMail \in Nat /\ MaxBody \in Nat \ {0} /\ Variations \in Nat \ {0}
ASSUME MayCrashAssumption == MayCrash \in BOOLEAN
ASSUME WorkerAssumption == IsFiniteSet(Worker)

MailId == 1..MaxMail

(* Templates and mails have their status under the same prefix,            *)
(* "email_generation_status:<id>", whichever table the id is of.           *)
Key == TemplateId \cup MailId

VARIABLES
    template,   \* TemplateId -> whether the row exists
    mail,       \* MailId -> row of generated_emails
    lastMail,   \* the AUTO_INCREMENT counter of generated_emails
    status,     \* Key -> value in Redis
    ttl,        \* keys with an expiry set
    task,       \* Worker -> what it is doing
    broadcast   \* history: <<mail, text, got>>, a loop over the subscribers that
                \* ran to its end, and whether anybody got the mail

vars == <<template, mail, lastMail, status, ttl, task, broadcast>>

(* A row: its template (0: no row), its text, counted from 1, and is_sent. *)
MailRow == [template : TemplateId \cup {0}, body : 0..MaxBody, sent : BOOLEAN]
NoMail  == [template |-> 0, body |-> 0, sent |-> FALSE]

Mails(t) == {m \in MailId : mail[m].template = t}

PC == {"idle",
       "start", "delete", "compose", "save",   \* generate_and_save_emails
       "load", "rewrite",                      \* regenerate_email_task
       "completed", "failed", "expire",        \* the end of both
       "send", "mark",                         \* send_generated_email
       "drop"}                                 \* delete_email_template

Task == [pc   : PC,
         id   : Key \cup {0},          \* the template or mail it is about
         n    : 0..Variations,         \* mails written
         body : 0..MaxBody,            \* text as loaded
         seen : BOOLEAN,               \* is_sent as loaded
         kids : SUBSET MailId]         \* mails as loaded

Idle == [pc |-> "idle", id |-> 0, n |-> 0, body |-> 0, seen |-> FALSE, kids |-> {}]

TypeOK ==
    /\ template \in [TemplateId -> {"new", "present", "deleted"}]
    /\ mail \in [MailId -> MailRow]
    /\ lastMail \in 0..MaxMail
    /\ status \in [Key -> {"none", "in-progress", "completed", "failed"}]
    /\ ttl \in SUBSET Key
    /\ task \in [Worker -> Task]
    /\ broadcast \in SUBSET (MailId \X (1..MaxBody) \X BOOLEAN)

Init ==
    /\ template = [t \in TemplateId |-> "new"]
    /\ mail = [m \in MailId |-> NoMail]
    /\ lastMail = 0
    /\ status = [k \in Key |-> "none"]
    /\ ttl = {}
    /\ task = [w \in Worker |-> Idle]
    /\ broadcast = {}

-----------------------------------------------------------------------------
(* Helpers *)

Goto(w, p) == task' = [task EXCEPT ![w].pc = p]
Begin(w, t) == /\ task[w].pc = "idle"
               /\ task' = [task EXCEPT ![w] = t]
End(w) == task' = [task EXCEPT ![w] = Idle]

(* redis SET: the old expiry goes with the old value. *)
SetStatus(k, s) ==
    /\ status' = [status EXCEPT ![k] = s]
    /\ ttl' = ttl \ {k}

-----------------------------------------------------------------------------
(* Requests that start a run *)

(* generate_all_emails, and dashboard with a submitted form: the template  *)
(* is committed, then the thread started.                                  *)
CreateTemplate(w, t) ==
    /\ template[t] = "new"
    /\ template' = [template EXCEPT ![t] = "present"]
    /\ Begin(w, [Idle EXCEPT !.pc = "start", !.id = t])
    /\ UNCHANGED <<mail, lastMail, status, ttl, broadcast>>

(* regenerate_all_emails: 404 without the template; the status is left to  *)
(* the thread.                                                             *)
RegenerateAll(w, t) ==
    /\ template[t] = "present"
    /\ Begin(w, [Idle EXCEPT !.pc = "start", !.id = t])
    /\ UNCHANGED <<template, mail, lastMail, status, ttl, broadcast>>

(* regenerate_email: the status is set at once; whether there is such a    *)
(* mail is not checked.                                                    *)
RegenerateEmail(w, m) ==
    /\ SetStatus(m, "in-progress")
    /\ Begin(w, [Idle EXCEPT !.pc = "load", !.id = m])
    /\ UNCHANGED <<template, mail, lastMail, broadcast>>

-----------------------------------------------------------------------------
(* generate_and_save_emails *)

GenStart(w) ==
    /\ task[w].pc = "start"
    /\ SetStatus(task[w].id, "in-progress")
    /\ Goto(w, "delete")
    /\ UNCHANGED <<template, mail, lastMail, broadcast>>

(* Mutant: the old mails are kept. *)
KeepOld(w) ==
    /\ task[w].pc = "delete"
    /\ Goto(w, "compose")
    /\ UNCHANGED <<template, mail, lastMail, status, ttl, broadcast>>

(* The old mails go, and this is committed, before there are new ones. *)
GenDelete(w) ==
    /\ task[w].pc = "delete"
    /\ mail' = [m \in MailId |-> IF mail[m].template = task[w].id THEN NoMail ELSE mail[m]]
    /\ Goto(w, "compose")
    /\ UNCHANGED <<template, lastMail, status, ttl, broadcast>>

(* generate_response: any answer, an error text too, is made a mail.  A    *)
(* call that raises is logged and leaves its mail out; all do so if the    *)
(* template is gone when its row is read again.                            *)
Answers(t) == IF template[t] = "present" THEN 0..Variations ELSE {0}

(* Mutant: one mail too many. *)
OneMore(w) ==
    /\ task[w].pc = "compose"
    /\ \E n \in Answers(task[w].id) \cup {Variations + 1} :
        task' = [task EXCEPT ![w].n = n, ![w].pc = IF n = 0 THEN "completed" ELSE "save"]
    /\ UNCHANGED <<template, mail, lastMail, status, ttl, broadcast>>

(* The calls to OpenAI. *)
GenCompose(w) ==
    /\ task[w].pc = "compose"
    /\ \E n \in Answers(task[w].id) :
        task' = [task EXCEPT ![w].n = n, ![w].pc = IF n = 0 THEN "completed" ELSE "save"]
    /\ UNCHANGED <<template, mail, lastMail, status, ttl, broadcast>>

(* The foreign key holds only while the template is there. *)
GenSave(w) ==
    LET t == task[w].id
        new == (lastMail + 1)..(lastMail + task[w].n)
    IN  /\ task[w].pc = "save"
        /\ template[t] = "present"
        /\ lastMail + task[w].n <= MaxMail
        /\ mail' = [m \in MailId |-> IF m \in new
                                     THEN [template |-> t, body |-> 1, sent |-> FALSE]
                                     ELSE mail[m]]
        /\ lastMail' = lastMail + task[w].n
        /\ Goto(w, "completed")
        /\ UNCHANGED <<template, status, ttl, broadcast>>

(* Mutant: the exception is not caught. *)
GenDies(w) ==
    /\ task[w].pc \in {"delete", "save"}
    /\ End(w)
    /\ UNCHANGED <<template, mail, lastMail, status, ttl, broadcast>>

(* A query or commit raises. *)
GenError(w) ==
    /\ task[w].pc \in {"delete", "save"}
    /\ Goto(w, "failed")
    /\ UNCHANGED <<template, mail, lastMail, status, ttl, broadcast>>

-----------------------------------------------------------------------------
(* regenerate_email_task *)

RegenLoad(w) ==
    LET r == mail[task[w].id] IN
    /\ task[w].pc = "load"
    /\ r.template # 0
    /\ task' = [task EXCEPT ![w].pc = "rewrite", ![w].seen = r.sent]
    /\ UNCHANGED <<template, mail, lastMail, status, ttl, broadcast>>

(* Mutant: is_sent is not reset. *)
RewriteKeepsMark(w) ==
    LET m == task[w].id IN
    /\ task[w].pc = "rewrite"
    /\ mail[m].template # 0
    /\ mail[m].body < MaxBody
    /\ mail' = [mail EXCEPT ![m].body = @ + 1]
    /\ Goto(w, "completed")
    /\ UNCHANGED <<template, lastMail, status, ttl, broadcast>>

(* The new text is always written, is_sent only if it was loaded as True:  *)
(* SQLAlchemy leaves out a column that gets the value it had.              *)
RegenCommit(w) ==
    LET m == task[w].id IN
    /\ task[w].pc = "rewrite"
    /\ mail[m].template # 0
    /\ mail[m].body < MaxBody
    /\ mail' = [mail EXCEPT ![m].body = @ + 1,
                            ![m].sent = IF task[w].seen THEN FALSE ELSE @]
    /\ Goto(w, "completed")
    /\ UNCHANGED <<template, lastMail, status, ttl, broadcast>>

(* Mutant: a missing mail ends the task without a word. *)
RegenReturns(w) ==
    /\ task[w].pc \in {"load", "rewrite"}
    /\ End(w)
    /\ UNCHANGED <<template, mail, lastMail, status, ttl, broadcast>>

(* No such mail, no campaign or key for it, a failed query, or an UPDATE   *)
(* that matches no row.                                                    *)
RegenError(w) ==
    /\ task[w].pc \in {"load", "rewrite"}
    /\ Goto(w, "failed")
    /\ UNCHANGED <<template, mail, lastMail, status, ttl, broadcast>>

-----------------------------------------------------------------------------
(* The end of both threads: the outcome, then an hour's expiry. *)

Report(w) ==
    /\ task[w].pc \in {"completed", "failed"}
    /\ SetStatus(task[w].id, task[w].pc)
    /\ Goto(w, "expire")
    /\ UNCHANGED <<template, mail, lastMail, broadcast>>

SetExpiry(w) ==
    /\ task[w].pc = "expire"
    /\ ttl' = ttl \cup {k \in {task[w].id} : status[k] # "none"}
    /\ End(w)
    /\ UNCHANGED <<template, mail, lastMail, status, broadcast>>

(* Redis drops the key. *)
Expire(k) ==
    /\ k \in ttl
    /\ SetStatus(k, "none")
    /\ UNCHANGED <<template, mail, lastMail, task, broadcast>>

-----------------------------------------------------------------------------
(* send_generated_email *)

SendLoad(w, m) ==
    /\ mail[m].template # 0
    /\ Begin(w, [Idle EXCEPT !.pc = "send", !.id = m, !.body = mail[m].body,
                             !.seen = mail[m].sent])
    /\ UNCHANGED <<template, mail, lastMail, status, ttl, broadcast>>

(* send_emails, for one subscriber after the other.  It catches whatever   *)
(* the mail server raises, and there may be no subscriber: the loop ends   *)
(* in the same way whether anybody got the mail or nobody did.             *)
SendEmails(m, b) == \E got \in BOOLEAN : broadcast' = broadcast \cup {<<m, b, got>>}

Send(w) ==
    /\ task[w].pc = "send"
    /\ SendEmails(task[w].id, task[w].body)
    /\ Goto(w, "mark")
    /\ UNCHANGED <<template, mail, lastMail, status, ttl>>

(* Once the loop is over the row is marked, whoever got the mail.  Nothing *)
(* is written if it was loaded as sent; the commit fails if the row has    *)
(* gone in the meantime.                                                   *)
SendMark(w) ==
    LET m == task[w].id IN
    /\ task[w].pc = "mark"
    /\ mail' = IF task[w].seen \/ mail[m].template = 0 THEN mail
               ELSE [mail EXCEPT ![m].sent = TRUE]
    /\ End(w)
    /\ UNCHANGED <<template, lastMail, status, ttl, broadcast>>

-----------------------------------------------------------------------------
(* delete_email_template and delete_compain *)

DropLoad(w, t) ==
    /\ template[t] = "present"
    /\ Begin(w, [Idle EXCEPT !.pc = "drop", !.id = t, !.kids = Mails(t)])
    /\ UNCHANGED <<template, mail, lastMail, status, ttl, broadcast>>

(* Mutant: the mails that came after the query are left behind. *)
DropLoaded(w) ==
    LET t == task[w].id IN
    /\ task[w].pc = "drop"
    /\ template' = [template EXCEPT ![t] = "deleted"]
    /\ mail' = [m \in MailId |-> IF m \in task[w].kids THEN NoMail ELSE mail[m]]
    /\ End(w)
    /\ UNCHANGED <<lastMail, status, ttl, broadcast>>

(* Only the mails loaded are deleted; one more and the foreign key makes   *)
(* the whole transaction fail.                                             *)
DropCommit(w) ==
    LET t == task[w].id IN
    /\ task[w].pc = "drop"
    /\ IF template[t] = "present" /\ Mails(t) \subseteq task[w].kids
       THEN /\ template' = [template EXCEPT ![t] = "deleted"]
            /\ mail' = [m \in MailId |-> IF m \in Mails(t) THEN NoMail ELSE mail[m]]
       ELSE UNCHANGED <<template, mail>>
    /\ End(w)
    /\ UNCHANGED <<lastMail, status, ttl, broadcast>>

(* delete_compain would set the mails' template_id to NULL, which the      *)
(* column refuses: it works only on a template without mails.              *)
DeleteCompain(t) ==
    /\ template[t] = "present"
    /\ Mails(t) = {}
    /\ template' = [template EXCEPT ![t] = "deleted"]
    /\ UNCHANGED <<mail, lastMail, status, ttl, task, broadcast>>

-----------------------------------------------------------------------------
(* The server is restarted: every thread and request is lost. *)
Restart ==
    /\ MayCrash
    /\ task' = [w \in Worker |-> Idle]
    /\ UNCHANGED <<template, mail, lastMail, status, ttl, broadcast>>

Step(w) ==
    \/ GenStart(w) \/ GenDelete(w) \/ GenCompose(w) \/ GenSave(w) \/ GenError(w)
    \/ RegenLoad(w) \/ RegenCommit(w) \/ RegenError(w)
    \/ Report(w) \/ SetExpiry(w)
    \/ Send(w) \/ SendMark(w)
    \/ DropCommit(w)

Ask(w) ==
    \/ \E t \in TemplateId : CreateTemplate(w, t) \/ RegenerateAll(w, t) \/ DropLoad(w, t)
    \/ \E m \in MailId : RegenerateEmail(w, m) \/ SendLoad(w, m)

Next ==
    \/ \E w \in Worker : Ask(w) \/ Step(w)
    \/ \E k \in Key : Expire(k)
    \/ \E t \in TemplateId : DeleteCompain(t)
    \/ Restart

Spec == Init /\ [][Next]_vars

-----------------------------------------------------------------------------
(* Safety *)

(* The program counters between the two status writes of a thread. *)
Working == {"delete", "compose", "save", "load", "rewrite", "completed", "failed"}

(* "in-progress" is the only value without an expiry: unless the server is *)
(* restarted it never outlives the last thread that works under the key,   *)
(* however runs on one id, or on the ids of both tables, overlap.          *)
InProgressHasWorker ==
    \A k \in Key :
        status[k] = "in-progress"
            => \E w \in Worker : task[w].id = k /\ task[w].pc \in Working

(* Runs that overlap leave more mails than one run writes, but never more  *)
(* than all workers together write in one run each: every run deletes what *)
(* finished runs have left.                                                *)
BoundedMails ==
    \A t \in TemplateId : Cardinality(Mails(t)) <= Variations * Cardinality(Worker)

(* No mail survives its template, and none is added to a deleted one, when *)
(* delete_email_template races with a run.                                 *)
NoOrphans ==
    \A m \in MailId : mail[m].template # 0 => template[mail[m].template] = "present"

(* is_sent is right about the row's text: the loop over the subscribers    *)
(* has run with it.                                                        *)
FlagRight(m) ==
    mail[m].sent => \E got \in BOOLEAN : <<m, mail[m].body, got>> \in broadcast

(* The worker is about to commit to a row that another one has changed     *)
(* since it was loaded.                                                    *)
Overtaken(w) ==
    \/ task[w].pc = "mark" /\ task[w].body # mail[task[w].id].body
    \/ task[w].pc = "rewrite" /\ task[w].seen # mail[task[w].id].sent

(* Only an overlap of a send and a rewrite of one mail makes is_sent wrong *)
(* about the text: the step that does so is that of a request or thread    *)
(* which has been overtaken.  Sends and rewrites that do not overlap, two  *)
(* sends or two rewrites at once, new batches and deletions never do.      *)
FlagWrongByOverlap ==
    [][\A m \in MailId :
          FlagRight(m) /\ ~ FlagRight(m)'
             => \E w \in Worker : task[w].id = m /\ Overtaken(w) /\ task'[w] # task[w]]_vars

-----------------------------------------------------------------------------
(* Liveness: threads run on. *)
LiveSpec == Spec /\ \A w \in Worker : WF_vars(Step(w))

(* Whoever polls a status learns an outcome: "in-progress" ends. *)
InProgressEnds ==
    \A k \in Key : status[k] = "in-progress" ~> status[k] # "in-progress"

-----------------------------------------------------------------------------
(* What comments and pages say, and the code does not ensure. *)

(* emails/models.py, is_sent "Indicates if the email is sent": somebody    *)
(* got the text the row holds.  A rewrite while it is being sent replaces  *)
(* the text before it is marked, and a loop without subscribers, or whose  *)
(* mails the server all refused, marks the row as any other does.          *)
SentFlagTruthful ==
    \A m \in MailId : mail[m].sent => <<m, mail[m].body, TRUE>> \in broadcast

(* templates/compaigndashboard.html, "Regeneration completed               *)
(* successfully!" for the status "completed": then there are mails.  With  *)
(* every call to OpenAI failing, the old ones are gone and none has come.  *)
CompletedHasMails ==
    \A t \in TemplateId :
        status[t] = "completed" /\ template[t] = "present" => Mails(t) # {}
=============================================================================

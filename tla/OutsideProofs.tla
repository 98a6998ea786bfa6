---------------------------- MODULE OutsideProofs ----------------------------
(***************************************************************************)
(* TLAPS proofs about what sofka makes outside itself.                     *)
(*                                                                         *)
(* First PvcExplore, for any number of clusters, claims, pods and requests *)
(* under way: every helper pod is accounted for, the pane shows what       *)
(* copies and shells act on, and recovery never widens a mount.  What      *)
(* carries them is the number a request is made under.  At most one        *)
(* request can still open the browser as it is now; while one can, no      *)
(* helper is mounted that it would displace, and what it would mount is no *)
(* wider than what the claim was opened through.                           *)
(*                                                                         *)
(* Then PluginInstall, for any plugins, catalogs and number of commands,   *)
(* failures, crashes and edits: recovery can finish what was interrupted   *)
(* anywhere, and the file system implements PluginSet.  What carries them  *)
(* is that what is left over is told apart by its kind, its plugin and the *)
(* command that left it: a plugin has one backup at most, and of what the  *)
(* command at work left, every stage is known.                             *)
(***************************************************************************)
EXTENDS MCOutside, TLAPS

USE DEF Dirs, Helpers

Pods == Workloads \cup Helpers \cup {NoPod}
Subs == {WholeVolume} \cup {SubPath[w] : w \in Workloads}
Mount == [pod : Pods, helper : BOOLEAN, ro : BOOLEAN, sub : Subs]
Recovery ==
  [original : Mount, candidates : SUBSET Mount, helper : {"none", "allowed", "refused"}]
Browser ==
  [active : BOOLEAN, claim : Claims \cup {NoClaim}, intent : {"browse", "shell"},
   mount : Mount, run : Nat, path : Dirs, displayed : Dirs,
   entries : [pod : Pods, dir : Dirs], listed : BOOLEAN, loading : BOOLEAN,
   error : BOOLEAN, shell : BOOLEAN, recovery : Recovery, first : Mount]
Kinds == {"resolve", "recover", "list", "create", "created", "copy", "clean"}
Requests ==
  [kind : Kinds, gen : Nat, run : Nat, ctx : Contexts, claim : Claims \cup {NoClaim},
   dir : Dirs, mount : Mount]
Modes == {"Table", "Browser", "Overlay", "Dialog", "Away", "Quit"}
Dialogs ==
  [what : {"none", "helper", "shell", "copy", "clean", "delete"}, back : {"Table", "Browser"}]
Homes == [ctx : Contexts, claim : Claims \cup {NoClaim}]
Deletes == [pod : Pods, ctx : Contexts]

Types ==
  /\ ctx \in Contexts /\ switching \in Contexts /\ gen \in Nat
  /\ mode \in Modes /\ under \in Modes \ {"Quit"} /\ dialog \in Dialogs
  /\ pvc \in Browser /\ tasks \in SUBSET Requests /\ deletes \in SUBSET Deletes
  /\ DOMAIN home \subseteq Helpers /\ \A h \in DOMAIN home : home[h] \in Homes
  /\ alive \subseteq DOMAIN home /\ warned \subseteq DOMAIN home

-----------------------------------------------------------------------------
(* The inductive invariant.                                                *)

NoWider(m, f) == m.sub = f.sub /\ (f.ro => m.ro)

\* The browser on its own: what it shows is of its mount, and whatever recovery may
\* still mount is no wider than what the claim was opened through.
Sound(p) ==
  IF p.active
  THEN /\ p.intent = "browse" /\ p.mount.pod # NoPod /\ p.first.pod # NoPod
       /\ NoWider(p.mount, p.first)
       /\ p.entries # NoEntries => p.entries = [pod |-> p.mount.pod, dir |-> p.displayed]
       /\ p.recovery # NoRecovery =>
            /\ p.recovery.original.pod # NoPod /\ NoWider(p.recovery.original, p.first)
            /\ \A m \in p.recovery.candidates :
                 m.pod # NoPod /\ ~m.helper /\ NoWider(m, p.first)
  ELSE p.first = NoMount /\ p.recovery = NoRecovery /\ p.entries = NoEntries

Waits(t) == t.kind \notin {"copy", "clean"}
Targets == {"resolve", "create", "created"}

\* The request the browser waits for brings nothing that does not fit it.
Serves(t, p) ==
  IF p.active
  THEN /\ t.kind # "resolve"
       /\ t.kind \in {"create", "created"} =>
            ~p.mount.helper /\ t.mount.pod # NoPod /\ NoWider(t.mount, p.first)
       /\ t.kind \in {"list", "recover"} => t.mount = p.mount
       /\ t.kind = "recover" => p.mount.pod \in Toolless /\ ~p.mount.helper
  ELSE t.kind \in Targets => p.mount = NoMount

\* It waits for one at most, the last one made.
Serving(T, p) ==
  /\ \A t \in T : t.run <= p.run
  /\ \A t \in T : t.run = p.run => Serves(t, p)
  /\ \A t, u \in T : t.run = p.run /\ u.run = p.run /\ Waits(t) /\ Waits(u) => t = u

\* A helper is offered, or will be when an overlay closes.
Asked(m, u, d) == d.what = "helper" /\ (m = "Dialog" \/ (m = "Overlay" /\ u = "Dialog"))

\* Until that is answered the browser waits for no pod.
Offered(T, p) ==
  /\ \A t \in T : Waits(t) /\ t.run = p.run => t.kind = "list" /\ p.active
  /\ IF p.active
     THEN p.recovery # NoRecovery /\ ~p.mount.helper /\ p.mount.pod \in Toolless
     ELSE p.mount = NoMount

\* A helper is where the request that made it says, and a mounted one is in the
\* cluster connected now.
At(m, c) == m.pod \in DOMAIN home /\ home[m.pod].ctx = c
Placed(T, p, g, c) ==
  /\ \A t \in T : /\ t.gen <= g /\ (t.gen = g => t.ctx = c)
                  /\ t.kind = "created" => t.mount.helper /\ At(t.mount, t.ctx)
  /\ p.mount.helper => At(p.mount, c)

\* While the cluster changes nothing is mounted and nothing will be.
Resting(T, p, g) ==
  p.mount = NoMount /\ ~p.active /\ \A t \in T : t.kind \in Targets => t.gen # g

DeletesPlaced == \A d \in deletes : At(d, d.ctx)
NoneForgotten == \A h \in alive : Owned(h) \/ h \in warned

Inv ==
  /\ Types /\ DeletesPlaced
  /\ IF mode = "Quit" THEN tasks = {} /\ deletes = {}
     ELSE /\ Sound(pvc) /\ Serving(tasks, pvc) /\ Placed(tasks, pvc, gen, ctx)
          /\ pvc.active => mode \in OverBrowser
          /\ Asked(mode, under, dialog) => Offered(tasks, pvc)
          /\ switching # ctx => Resting(tasks, pvc, gen) /\ ~Asked(mode, under, dialog)
          /\ NoneForgotten

-----------------------------------------------------------------------------
(* The shapes of the browser's operators.                                  *)

\* What stands for no mount, no recovery and no rows has its type.
LEMMA Nothing ==
  /\ NoMount \in Mount /\ NoMount.pod = NoPod /\ ~NoMount.helper
  /\ NoRecovery \in Recovery /\ NoRecovery.original = NoMount
  /\ NoEntries \in [pod : Pods, dir : Dirs]
  BY DEF NoMount, NoRecovery, NoEntries, Mount, Recovery, Pods, Subs

\* Leaving the browser forgets all it had, and keeps its number.
LEMMA LeftIs ==
  ASSUME NEW p \in Browser
  PROVE  /\ Left(p) \in Browser /\ ~Left(p).active /\ Left(p).mount = NoMount
         /\ Left(p).first = NoMount /\ Left(p).recovery = NoRecovery
         /\ Left(p).entries = NoEntries /\ Left(p).run = p.run
         /\ Left(p).claim = p.claim /\ Left(p).intent = p.intent
  BY Nothing DEF Left, Browser

\* A shell that ends gives its pod back unless the browser has it too.
LEMMA SuspendedIs ==
  ASSUME NEW p \in Browser
  PROVE  LET q == Suspended(p)
         IN /\ q \in Browser /\ q.active = p.active /\ q.first = p.first
            /\ q.recovery = p.recovery /\ q.entries = p.entries /\ q.run = p.run
            /\ q.intent = p.intent /\ q.displayed = p.displayed /\ q.claim = p.claim
            /\ IF p.shell /\ ~p.active THEN q.mount = NoMount ELSE q.mount = p.mount
            /\ ~q.shell
  BY Nothing DEF Suspended, Browser

\* Another directory is a new number.
LEMMA OpenRemoteDirIs ==
  ASSUME NEW p \in Browser, NEW d \in Dirs
  PROVE  LET q == OpenRemoteDir(p, d)
         IN /\ q \in Browser /\ q.active = p.active /\ q.first = p.first
            /\ q.recovery = p.recovery /\ q.entries = p.entries /\ q.run = p.run + 1
            /\ q.intent = p.intent /\ q.displayed = p.displayed /\ q.mount = p.mount
            /\ q.path = d /\ q.claim = p.claim
<1>1. p.run + 1 \in Nat
  BY DEF Browser
<1> QED
  BY <1>1 DEF OpenRemoteDir, Browser

\* A request of the browser says when and where it was made.
LEMMA RequestIs ==
  ASSUME NEW kind \in Kinds, NEW p \in Browser, NEW m \in Mount,
         gen \in Nat, ctx \in Contexts
  PROVE  LET r == Request(kind, p, m)
         IN /\ r \in Requests /\ r.kind = kind /\ r.gen = gen /\ r.ctx = ctx
            /\ r.run = p.run /\ r.mount = m
  BY DEF Request, Requests, Browser

\* A helper is deleted where sofka is connected; nothing else is.
LEMMA DeleteOfIs ==
  ASSUME NEW m \in Mount, ctx \in Contexts
  PROVE  /\ DeleteOf(m) \in SUBSET Deletes
         /\ m.helper => [pod |-> m.pod, ctx |-> ctx] \in DeleteOf(m)
         /\ \A d \in DeleteOf(m) : m.helper /\ d.pod = m.pod /\ d.ctx = ctx
         /\ ~m.helper => DeleteOf(m) = {}
  BY DEF DeleteOf, Deletes, Mount

-----------------------------------------------------------------------------
(* What keeps a browser and its requests together.                         *)

\* Fewer requests fit as well.
LEMMA Fewer ==
  ASSUME NEW p, NEW T, NEW S \in SUBSET T, NEW g, NEW c
  PROVE  /\ Serving(T, p) => Serving(S, p)
         /\ Placed(T, p, g, c) => Placed(S, p, g, c)
         /\ Offered(T, p) => Offered(S, p)
         /\ Resting(T, p, g) => Resting(S, p, g)
  BY DEF Serving, Placed, Offered, Resting

\* So does a browser with the same mount and number.
LEMMA Alike ==
  ASSUME NEW p, NEW q, NEW T, NEW g, NEW c,
         q.active = p.active, q.mount = p.mount, q.first = p.first, q.run = p.run
  PROVE  /\ Serving(T, p) => Serving(T, q)
         /\ Placed(T, p, g, c) => Placed(T, q, g, c)
         /\ Resting(T, p, g) => Resting(T, q, g)
  BY DEF Serving, Serves, Placed, Resting

\* A new number leaves all earlier requests behind.
LEMMA NewRun ==
  ASSUME NEW p \in Browser, NEW q \in Browser, NEW T \in SUBSET Requests,
         NEW r \in Requests, Serving(T, p), q.run = p.run + 1, r.run = q.run,
         Serves(r, q)
  PROVE  Serving(T \cup {r}, q)
<1>1. \A t \in T : t.run \in Nat /\ p.run \in Nat /\ t.run <= p.run
  BY DEF Serving, Requests, Browser
<1>2. \A t \in T : t.run <= q.run /\ t.run # q.run
  BY <1>1
<1>3. r.run <= q.run
  BY DEF Requests
<1> QED
  BY <1>2, <1>3 DEF Serving

\* A request made now is placed.
LEMMA NewPlaced ==
  ASSUME NEW p, NEW q, NEW T, NEW r \in Requests, NEW g \in Nat, NEW c, Placed(T, p, g, c),
         r.gen = g, r.ctx = c, r.kind # "created", q.mount.helper => At(q.mount, c)
  PROVE  Placed(T \cup {r}, q, g, c)
  BY DEF Placed, Requests

\* Requests of an earlier generation stay placed.
LEMMA Later ==
  ASSUME NEW p, NEW T \in SUBSET Requests, NEW g \in Nat, NEW c, NEW e,
         Placed(T, p, g, c), p.mount.helper => c = e
  PROVE  Placed(T, p, g + 1, e)
  BY DEF Placed, Requests

\* None of them is of the new one.
LEMMA LaterRests ==
  ASSUME NEW p, NEW T \in SUBSET Requests, NEW g \in Nat, NEW c, Placed(T, p, g, c),
         p.mount = NoMount, ~p.active
  PROVE  Resting(T, p, g + 1)
<1>1. \A t \in T : t.gen \in Nat /\ t.gen <= g
  BY DEF Placed, Requests
<1>2. \A t \in T : t.gen # g + 1
  BY <1>1
<1> QED
  BY <1>2 DEF Resting

\* Leaving the browser keeps it all.
LEMMA LeftKeeps ==
  ASSUME NEW p \in Browser, NEW T, NEW g, NEW c
  PROVE  /\ Sound(Left(p))
         /\ Serving(T, p) => Serving(T, Left(p))
         /\ Placed(T, p, g, c) => Placed(T, Left(p), g, c)
         /\ Resting(T, p, g) => Resting(T, Left(p), g)
  BY LeftIs, Nothing DEF Sound, Serving, Serves, Placed, Resting

\* So does giving a shell's pod back.
LEMMA SuspendedKeeps ==
  ASSUME NEW p \in Browser, NEW T, NEW g, NEW c
  PROVE  /\ Sound(p) => Sound(Suspended(p))
         /\ Serving(T, p) => Serving(T, Suspended(p))
         /\ Placed(T, p, g, c) => Placed(T, Suspended(p), g, c)
         /\ Resting(T, p, g) => Resting(T, Suspended(p), g)
         /\ Offered(T, p) => Offered(T, Suspended(p))
<1> DEFINE q == Suspended(p)
<1> HIDE DEF q
<1>1. /\ q \in Browser /\ q.active = p.active /\ q.first = p.first
      /\ q.recovery = p.recovery /\ q.entries = p.entries /\ q.run = p.run
      /\ q.intent = p.intent /\ q.displayed = p.displayed
      /\ q.mount = p.mount \/ (~p.active /\ q.mount = NoMount)
  BY SuspendedIs DEF q
<1>2. Sound(p) => Sound(q)
  BY <1>1 DEF Sound
<1>3. Serving(T, p) => Serving(T, q)
  BY <1>1 DEF Serving, Serves
<1>4. Placed(T, p, g, c) => Placed(T, q, g, c)
  BY <1>1, Nothing DEF Placed
<1>5. Resting(T, p, g) => Resting(T, q, g)
  BY <1>1 DEF Resting
<1>6. Offered(T, p) => Offered(T, q)
  BY <1>1 DEF Offered
<1> QED
  BY <1>2, <1>3, <1>4, <1>5, <1>6 DEF q

\* Whatever a key leads to, what follows it is one of these.
LEMMA AfterKeyKeeps ==
  ASSUME NEW p \in Browser, NEW m \in Modes, NEW T, NEW g, NEW c
  PROVE  LET q == AfterKey(p, m)
         IN /\ q \in Browser /\ (q.mount = p.mount \/ q.mount = NoMount)
            /\ Sound(p) => Sound(q)
            /\ Serving(T, p) => Serving(T, q)
            /\ Placed(T, p, g, c) => Placed(T, q, g, c)
            /\ Resting(T, p, g) => Resting(T, q, g)
            /\ m \in {"Dialog", "Overlay"} /\ Offered(T, p) => Offered(T, q)
            /\ q.active => m \in OverBrowser
<1>1. AfterKey(p, m) \in {p, Left(p), Suspended(p), Suspended(Left(p))}
  BY DEF AfterKey
<1>2. m \in {"Dialog", "Overlay"} => AfterKey(p, m) \in {p, Suspended(p)}
  BY DEF AfterKey, OverBrowser
<1>3. Left(p) \in Browser /\ Suspended(p) \in Browser /\ Suspended(Left(p)) \in Browser
  BY LeftIs, SuspendedIs
<1>4. /\ Left(p).mount = NoMount /\ Suspended(Left(p)).mount = NoMount
      /\ Suspended(p).mount \in {p.mount, NoMount}
  BY LeftIs, SuspendedIs
<1>5. AfterKey(p, m).active => m \in OverBrowser
  BY LeftIs, SuspendedIs DEF AfterKey
<1> QED
  BY <1>1, <1>2, <1>3, <1>4, <1>5, LeftKeeps, SuspendedKeeps

\* So is what follows a message.
LEMMA AfterMsgKeeps ==
  ASSUME NEW p \in Browser, NEW m \in Modes, NEW T, NEW g, NEW c
  PROVE  LET q == AfterMsg(p, m)
         IN /\ q \in Browser /\ (q = p \/ q.mount = NoMount)
            /\ Sound(p) => Sound(q)
            /\ Serving(T, p) => Serving(T, q)
            /\ Placed(T, p, g, c) => Placed(T, q, g, c)
            /\ Resting(T, p, g) => Resting(T, q, g)
            /\ m \in {"Dialog", "Overlay"} /\ Offered(T, p) => Offered(T, q)
            /\ q.active => m \in OverBrowser
<1>1. AfterMsg(p, m) \in {p, Left(p)} /\ (m \in {"Dialog", "Overlay"} => AfterMsg(p, m) = p)
  BY DEF AfterMsg, OverBrowser
<1>2. AfterMsg(p, m).active => m \in OverBrowser
  BY LeftIs DEF AfterMsg
<1> QED
  BY <1>1, <1>2, LeftIs, LeftKeeps

-----------------------------------------------------------------------------
(* What a step owes: the same for every key, and for every answer.         *)

\* A helper stays accounted for when whoever had it keeps it or hands it on.
LEMMA HandedOn ==
  ASSUME Types, NoneForgotten, home' = home, alive' \subseteq alive,
         warned \subseteq warned', deletes \subseteq deletes',
         pvc.mount.helper /\ pvc.mount.pod \in alive' =>
           \/ pvc'.mount = pvc.mount
           \/ [pod |-> pvc.mount.pod, ctx |-> home[pvc.mount.pod].ctx] \in deletes',
         \A t \in tasks : t.kind = "created" /\ t.mount.pod \in alive' =>
           \/ t \in tasks'
           \/ [pod |-> t.mount.pod, ctx |-> home[t.mount.pod].ctx] \in deletes'
           \/ pvc'.mount.helper /\ pvc'.mount.pod = t.mount.pod
           \/ t.mount.pod \in warned'
  PROVE  NoneForgotten'
<1> SUFFICES ASSUME NEW h \in alive' PROVE Owned(h)' \/ h \in warned'
  BY DEF NoneForgotten
<1>1. h \in warned \/ Owned(h)
  BY DEF NoneForgotten
<1>2. CASE \E t \in tasks : t.kind = "created" /\ t.mount.pod = h
  BY <1>2 DEF Owned
<1>3. CASE pvc.mount.helper /\ pvc.mount.pod = h
  BY <1>3 DEF Owned
<1>4. CASE [pod |-> h, ctx |-> home[h].ctx] \in deletes
  BY <1>4 DEF Owned
<1> QED
  BY <1>1, <1>2, <1>3, <1>4 DEF Owned

\* A mount that is dropped is deleted.
LEMMA DroppedIs ==
  ASSUME Types, NEW p \in Browser
  PROVE  /\ Dropped(p) \in SUBSET Deletes
         /\ \A d \in Dropped(p) : pvc.mount.helper /\ d.pod = pvc.mount.pod /\ d.ctx = ctx
         /\ p.mount = NoMount /\ pvc.mount.helper =>
              [pod |-> pvc.mount.pod, ctx |-> ctx] \in Dropped(p)
  BY DeleteOfIs DEF Dropped, Types, Browser

\* A key that gives no mount and starts requests that fit keeps the invariant.
LEMMA Keyed ==
  ASSUME Inv, mode # "Quit", NEW p \in Browser, NEW m \in Modes \ {"Quit"},
         NEW S \in SUBSET Requests, Key(p, m, S), cluster' = cluster, ctx' = ctx,
         switching' \in Contexts, gen' \in Nat, under' \in Modes \ {"Quit"},
         dialog' \in Dialogs,
         p.mount = pvc.mount \/ p.mount = NoMount,
         Sound(p), Serving(tasks \cup S, p), Placed(tasks \cup S, p, gen', ctx),
         Asked(m, under', dialog') => Offered(tasks \cup S, p),
         switching' # ctx => Resting(tasks \cup S, p, gen') /\ ~Asked(m, under', dialog')
  PROVE  Inv'
<1> DEFINE q == AfterKey(p, m)
<1>1. /\ mode' = m /\ pvc' = q /\ deletes' = deletes \cup Dropped(q)
      /\ tasks' = tasks \cup S /\ alive' = alive /\ home' = home /\ warned' = warned
  BY DEF Key, cluster
<1> HIDE DEF q
<1>2. /\ q \in Browser /\ (q.mount = p.mount \/ q.mount = NoMount)
      /\ Sound(q) /\ Serving(tasks', q) /\ Placed(tasks', q, gen', ctx)
      /\ Resting(tasks', p, gen') => Resting(tasks', q, gen')
      /\ m \in {"Dialog", "Overlay"} /\ Offered(tasks', p) => Offered(tasks', q)
      /\ q.active => m \in OverBrowser
  BY <1>1, AfterKeyKeeps DEF q
<1>3. Types'
  BY <1>1, <1>2, DroppedIs DEF Inv, Types
<1>4. pvc.mount.helper => At(pvc.mount, ctx)
  BY DEF Inv, Placed
<1>5. DeletesPlaced'
  BY <1>1, <1>2, <1>4, DroppedIs DEF Inv, DeletesPlaced, At
<1>6. q.mount = pvc.mount \/ q.mount = NoMount
  BY <1>2
<1>7. NoneForgotten'
  BY <1>1, <1>2, <1>4, <1>6, DroppedIs, HandedOn DEF Inv, At
<1>8. Placed(tasks, pvc, gen, ctx)' <=> Placed(tasks', q, gen', ctx)
  BY <1>1 DEF Placed, At
<1>9. Asked(m, under', dialog') => m \in {"Dialog", "Overlay"}
  BY DEF Asked
<1> QED
  BY <1>1, <1>2, <1>3, <1>5, <1>7, <1>8, <1>9 DEF Inv

\* An answer that leaves what it brings with somebody keeps it too.
LEMMA Answered ==
  ASSUME Inv, mode # "Quit", NEW t \in tasks, NEW p \in Browser, NEW m \in Modes \ {"Quit"},
         NEW S \in SUBSET Requests, NEW gone \in SUBSET Deletes, Msg(p, m, t, S, gone),
         UNCHANGED <<world, home, warned, under>>, alive' \subseteq alive,
         dialog' \in Dialogs,
         \A d \in gone : At(d, d.ctx),
         p.mount = pvc.mount \/ p.mount = NoMount \/ ~pvc.mount.helper,
         t.kind = "created" /\ t.mount.pod \in alive' =>
           \/ [pod |-> t.mount.pod, ctx |-> t.ctx] \in gone
           \/ p.mount = t.mount /\ AfterMsg(p, m) = p,
         Sound(p), Serving((tasks \ {t}) \cup S, p), Placed((tasks \ {t}) \cup S, p, gen, ctx),
         Asked(m, under, dialog') => Offered((tasks \ {t}) \cup S, p),
         switching # ctx => Resting((tasks \ {t}) \cup S, p, gen) /\ ~Asked(m, under, dialog')
  PROVE  Inv'
<1> DEFINE q == AfterMsg(p, m)
<1>1. /\ mode' = m /\ pvc' = q /\ deletes' = deletes \cup gone \cup Dropped(q)
      /\ tasks' = (tasks \ {t}) \cup S /\ home' = home /\ warned' = warned
      /\ ctx' = ctx /\ gen' = gen /\ switching' = switching /\ under' = under
  BY DEF Msg, world
<1>0. AfterMsg(p, m) = q
  OBVIOUS
<1> HIDE DEF q
<1>2. /\ q \in Browser /\ (q = p \/ q.mount = NoMount)
      /\ Sound(q) /\ Serving(tasks', q) /\ Placed(tasks', q, gen, ctx)
      /\ Resting(tasks', p, gen) => Resting(tasks', q, gen)
      /\ m \in {"Dialog", "Overlay"} /\ Offered(tasks', p) => Offered(tasks', q)
      /\ q.active => m \in OverBrowser
  BY <1>1, AfterMsgKeeps DEF q
<1>3. Types'
  BY <1>1, <1>2, DroppedIs DEF Inv, Types
<1>4. /\ pvc.mount.helper => At(pvc.mount, ctx)
      /\ t.kind = "created" => t.mount.helper /\ At(t.mount, t.ctx)
  BY DEF Inv, Placed
<1>5. DeletesPlaced'
  BY <1>1, <1>2, <1>4, DroppedIs DEF Inv, DeletesPlaced, At
<1>6. q.mount = pvc.mount \/ q.mount = NoMount \/ ~pvc.mount.helper
  BY <1>2
<1>7. NoneForgotten'
  <2>1. pvc.mount.helper /\ pvc.mount.pod \in alive' =>
           \/ pvc'.mount = pvc.mount
           \/ [pod |-> pvc.mount.pod, ctx |-> home[pvc.mount.pod].ctx] \in deletes'
    BY <1>1, <1>2, <1>4, <1>6, DroppedIs DEF Inv, At
  <2>2. t.kind = "created" /\ t.mount.pod \in alive' =>
           \/ [pod |-> t.mount.pod, ctx |-> home[t.mount.pod].ctx] \in deletes'
           \/ pvc'.mount.helper /\ pvc'.mount.pod = t.mount.pod
    BY <1>0, <1>1, <1>4 DEF At
  <2> QED
    BY <1>1, <2>1, <2>2, HandedOn DEF Inv
<1>8. Placed(tasks, pvc, gen, ctx)' <=> Placed(tasks', q, gen, ctx)
  BY <1>1 DEF Placed, At
<1>9. Asked(m, under', dialog') => m \in {"Dialog", "Overlay"}
  BY DEF Asked
<1> QED
  BY <1>1, <1>2, <1>3, <1>5, <1>7, <1>8, <1>9 DEF Inv

-----------------------------------------------------------------------------
(* Keys.                                                                   *)

\* A key that starts nothing keeps the invariant, into a new generation too.
LEMMA StillKey ==
  ASSUME Inv, mode # "Quit", NEW p \in {pvc, Suspended(pvc)}, NEW m \in Modes \ {"Quit"},
         Key(p, m, {}), cluster' = cluster, ctx' = ctx, switching' = switching,
         gen' \in {gen, gen + 1}, under' \in Modes \ {"Quit"}, dialog' \in Dialogs,
         Asked(m, under', dialog') => Asked(mode, under, dialog)
  PROVE  Inv'
<1>1. pvc \in Browser /\ tasks \in SUBSET Requests /\ gen \in Nat /\ ctx \in Contexts
  BY DEF Inv, Types
<1>2. /\ p \in Browser /\ (p.mount = pvc.mount \/ p.mount = NoMount)
      /\ Sound(p) /\ Serving(tasks, p) /\ Placed(tasks, p, gen, ctx)
      /\ Offered(tasks, pvc) => Offered(tasks, p)
      /\ Resting(tasks, pvc, gen) => Resting(tasks, p, gen)
  BY <1>1, SuspendedIs, SuspendedKeeps DEF Inv
<1>3. Placed(tasks, p, gen', ctx)
  BY <1>1, <1>2, Later
<1>4. Resting(tasks, p, gen) => Resting(tasks, p, gen')
  BY <1>1, <1>2, LaterRests DEF Resting
<1>5. gen' \in Nat /\ switching' \in Contexts /\ tasks \cup {} = tasks
  BY <1>1 DEF Inv, Types
<1> QED
  BY <1>2, <1>3, <1>4, <1>5, Keyed DEF Inv

\* So does one that starts a copy or a cleaning.
LEMMA PlainKey ==
  ASSUME Inv, mode # "Quit", NEW m \in Modes \ {"Quit"}, NEW kind \in {"copy", "clean"},
         Key(pvc, m, {Request(kind, pvc, pvc.mount)}), UNCHANGED <<world, cluster, under>>,
         dialog' \in Dialogs, Asked(m, under, dialog') => Asked(mode, under, dialog)
  PROVE  Inv'
<1> DEFINE r == Request(kind, pvc, pvc.mount)
<1>1. pvc \in Browser /\ tasks \in SUBSET Requests /\ gen \in Nat /\ ctx \in Contexts
  BY DEF Inv, Types
<1>2. r \in Requests /\ r.kind = kind /\ r.gen = gen /\ r.ctx = ctx /\ r.run = pvc.run
  BY <1>1, RequestIs DEF Kinds, Browser
<1> HIDE DEF r
<1>3. Serving(tasks \cup {r}, pvc)
  BY <1>1, <1>2 DEF Inv, Serving, Serves, Waits, Targets, Browser
<1>4. Placed(tasks \cup {r}, pvc, gen, ctx)
  BY <1>1, <1>2, NewPlaced DEF Inv, Placed
<1>5. /\ Offered(tasks, pvc) => Offered(tasks \cup {r}, pvc)
      /\ Resting(tasks, pvc, gen) => Resting(tasks \cup {r}, pvc, gen)
  BY <1>2 DEF Offered, Resting, Waits, Targets
<1>6. Key(pvc, m, {r}) /\ {r} \in SUBSET Requests
  BY <1>2 DEF r
<1>7. gen' = gen /\ ctx' = ctx /\ switching' = switching /\ under' = under
  BY DEF world
<1> QED
  BY <1>1, <1>3, <1>4, <1>5, <1>6, <1>7, Keyed DEF Inv, Types

\* Another directory.
LEMMA GoToKeeps == ASSUME Inv, NEW d \in Dirs, GoTo(d) PROVE Inv'
<1> DEFINE q == OpenRemoteDir(pvc, d)
           r == Listing(q)
<1>1. /\ pvc \in Browser /\ tasks \in SUBSET Requests /\ gen \in Nat /\ ctx \in Contexts
      /\ mode = "Browser" /\ Key(q, mode, {r}) /\ UNCHANGED <<world, cluster, under, dialog>>
  BY DEF Inv, Types, GoTo
<1>2. /\ q \in Browser /\ q.active = pvc.active /\ q.first = pvc.first
      /\ q.recovery = pvc.recovery /\ q.entries = pvc.entries /\ q.run = pvc.run + 1
      /\ q.intent = pvc.intent /\ q.displayed = pvc.displayed /\ q.mount = pvc.mount
  BY <1>1, OpenRemoteDirIs
<1> HIDE DEF q
<1>3. /\ r \in Requests /\ r.kind = "list" /\ r.gen = gen /\ r.ctx = ctx
      /\ r.run = q.run /\ r.mount = q.mount
  BY <1>1, <1>2, RequestIs DEF Listing, Kinds, Browser
<1> HIDE DEF r
<1>4. Sound(q)
  BY <1>1, <1>2 DEF Inv, Sound
<1>5. Serving(tasks \cup {r}, q)
  BY <1>1, <1>2, <1>3, NewRun DEF Inv, Serves, Targets
<1>6. Placed(tasks \cup {r}, q, gen, ctx)
  BY <1>1, <1>2, <1>3, NewPlaced DEF Inv, Placed
<1>7. Resting(tasks, pvc, gen) => Resting(tasks \cup {r}, q, gen)
  BY <1>2, <1>3 DEF Resting, Targets
<1>8. ~Asked(mode, under, dialog)
  BY <1>1 DEF Asked
<1>9. gen' = gen /\ ctx' = ctx /\ switching' = switching /\ under' = under /\ dialog' = dialog
  BY <1>1 DEF world
<1> QED
  BY <1>1, <1>2, <1>3, <1>4, <1>5, <1>6, <1>7, <1>8, <1>9, Keyed DEF Inv, Types, Modes

\* A helper the user agreed to is asked for as what it stands in for.
LEMMA CreateHelperKeeps ==
  ASSUME Inv, Asked(mode, under, dialog), NEW m \in Modes \ {"Quit"}, CreateHelper(pvc, m),
         UNCHANGED <<world, cluster, under>>, dialog' = NoDialog
  PROVE  Inv'
<1> DEFINE q == [pvc EXCEPT !.run = @ + 1]
           r == Request("create", q, pvc.recovery.original)
<1>1. /\ pvc \in Browser /\ tasks \in SUBSET Requests /\ gen \in Nat /\ ctx \in Contexts
      /\ mode # "Quit" /\ Key(q, m, {r})
  BY DEF Inv, Types, Asked, CreateHelper
<1>2. pvc.run + 1 \in Nat /\ pvc.recovery.original \in Mount
  BY <1>1 DEF Browser, Recovery
<1>3. /\ q \in Browser /\ q.active = pvc.active /\ q.first = pvc.first
      /\ q.recovery = pvc.recovery /\ q.entries = pvc.entries /\ q.run = pvc.run + 1
      /\ q.intent = pvc.intent /\ q.displayed = pvc.displayed /\ q.mount = pvc.mount
  BY <1>1, <1>2 DEF Browser
<1> HIDE DEF q
<1>4. /\ r \in Requests /\ r.kind = "create" /\ r.gen = gen /\ r.ctx = ctx
      /\ r.run = q.run /\ r.mount = pvc.recovery.original
  BY <1>1, <1>2, <1>3, RequestIs DEF Kinds, Browser
<1> HIDE DEF r
<1>5. Sound(q)
  BY <1>1, <1>3 DEF Inv, Sound
<1>6. Offered(tasks, pvc) /\ switching = ctx
  BY <1>1 DEF Inv
<1>7. Serves(r, q)
  BY <1>1, <1>3, <1>4, <1>6 DEF Inv, Serves, Sound, Offered
<1>8. Serving(tasks \cup {r}, q)
  BY <1>1, <1>3, <1>4, <1>7, NewRun DEF Inv
<1>9. Placed(tasks \cup {r}, q, gen, ctx)
  BY <1>1, <1>3, <1>4, NewPlaced DEF Inv, Placed
<1>10. ~Asked(m, under, NoDialog) /\ NoDialog \in Dialogs
  BY DEF Asked, NoDialog, Dialogs
<1>11. gen' = gen /\ ctx' = ctx /\ switching' = switching /\ under' = under
  BY DEF world
<1> QED
  BY <1>1, <1>3, <1>4, <1>5, <1>6, <1>8, <1>9, <1>10, <1>11, Keyed DEF Inv, Types

\* An answered dialog.
LEMMA AcceptKeeps == ASSUME Inv, Accept PROVE Inv'
<1> DEFINE back == IF pvc.active THEN dialog.back ELSE "Table"
<1>1. mode = "Dialog" /\ dialog' = NoDialog /\ UNCHANGED <<world, cluster, under>>
  BY DEF Accept
<1>2. back \in Modes \ {"Quit"} /\ NoDialog \in Dialogs
  BY DEF Inv, Types, Dialogs, Modes, NoDialog
<1>3. ~Asked(back, under, NoDialog)
  BY DEF Asked, NoDialog
<1>4. /\ gen' = gen /\ ctx' = ctx /\ switching' = switching /\ under' = under
      /\ under \in Modes \ {"Quit"} /\ cluster' = cluster
  BY <1>1 DEF world, Inv, Types
<1>5. CASE dialog.what = "helper"
  <2>1. CreateHelper(pvc, back)
    BY <1>5 DEF Accept
  <2> QED
    BY <1>1, <1>2, <1>5, <2>1, CreateHelperKeeps DEF Asked
<1>6. CASE dialog.what = "shell"
  <2>1. Key(Suspended(pvc), back, {})
    BY <1>6 DEF Accept
  <2> QED
    BY <1>1, <1>2, <1>3, <1>4, <2>1, StillKey
<1>7. CASE dialog.what \in {"copy", "clean"}
  <2>1. \E kind \in {"copy", "clean"} : Key(pvc, back, {Request(kind, pvc, pvc.mount)})
    BY <1>7 DEF Accept
  <2> QED
    BY <1>1, <1>2, <1>3, <2>1, PlainKey
<1>8. CASE dialog.what \notin {"helper", "shell", "copy", "clean"}
  <2>1. Key(pvc, back, {})
    BY <1>8 DEF Accept
  <2> QED
    BY <1>1, <1>2, <1>3, <1>4, <2>1, StillKey
<1> QED
  BY <1>5, <1>6, <1>7, <1>8

\* Another claim: the browser is left, and its new number is the resolution's alone.
LEMMA OpenClaimKeeps ==
  ASSUME Inv, NEW claim \in Claims, NEW intent \in {"browse", "shell"},
         OpenClaim(claim, intent)
  PROVE  Inv'
<1> DEFINE l == Left(pvc)
           q == [l EXCEPT !.claim = claim, !.intent = intent, !.run = @ + 1]
           r == Request("resolve", q, NoMount)
<1>1. /\ pvc \in Browser /\ tasks \in SUBSET Requests /\ gen \in Nat /\ ctx \in Contexts
      /\ mode = "Table" /\ switching = ctx /\ pvc' = q /\ tasks' = tasks \cup {r}
      /\ deletes' = deletes \cup DeleteOf(pvc.mount)
      /\ UNCHANGED <<world, cluster, mode, under, dialog>>
  BY DEF Inv, Types, OpenClaim
<1>2. /\ l \in Browser /\ l.run = pvc.run /\ l.mount = NoMount /\ ~l.active
      /\ l.first = NoMount /\ l.recovery = NoRecovery /\ l.entries = NoEntries
      /\ Serving(tasks, l) /\ Placed(tasks, l, gen, ctx)
  BY <1>1, LeftIs, LeftKeeps DEF Inv
<1> HIDE DEF l
<1>3. l.run + 1 \in Nat
  BY <1>2 DEF Browser
<1>4. /\ q \in Browser /\ q.run = l.run + 1 /\ q.mount = NoMount /\ ~q.active
      /\ q.first = NoMount /\ q.recovery = NoRecovery /\ q.entries = NoEntries
  BY <1>2, <1>3 DEF Browser
<1> HIDE DEF q
<1>5. /\ r \in Requests /\ r.kind = "resolve" /\ r.gen = gen /\ r.ctx = ctx /\ r.run = q.run
  BY <1>1, <1>4, Nothing, RequestIs DEF Kinds
<1> HIDE DEF r
<1>6. Sound(q) /\ Serving(tasks \cup {r}, q) /\ Placed(tasks \cup {r}, q, gen, ctx)
  BY <1>1, <1>2, <1>4, <1>5, Nothing, NewRun, NewPlaced DEF Sound, Serves
<1>7. /\ mode' = mode /\ gen' = gen /\ ctx' = ctx /\ switching' = switching /\ under' = under
      /\ dialog' = dialog /\ alive' = alive /\ home' = home /\ warned' = warned
  BY <1>1 DEF world, cluster
<1>8. pvc.mount.helper => At(pvc.mount, ctx)
  BY <1>1 DEF Inv, Placed
<1>9. pvc.mount \in Mount
  BY <1>1 DEF Browser
<1>10. Types'
  BY <1>1, <1>4, <1>5, <1>7, <1>9, DeleteOfIs DEF Inv, Types
<1>11. DeletesPlaced'
  BY <1>1, <1>7, <1>8, <1>9, DeleteOfIs DEF Inv, DeletesPlaced, At
<1>12. NoneForgotten'
  BY <1>1, <1>7, <1>8, <1>9, DeleteOfIs, HandedOn DEF Inv, At
<1>13. ~Asked(mode, under, dialog) /\ Placed(tasks, pvc, gen, ctx)'
  BY <1>1, <1>6, <1>7 DEF Asked, Placed, At
<1> QED
  BY <1>1, <1>4, <1>6, <1>7, <1>10, <1>11, <1>12, <1>13 DEF Inv

\* A switch begins: what is mounted is deleted in the cluster it is in.
LEMMA SwitchContextKeeps == ASSUME Inv, NEW c \in Contexts, SwitchContext(c) PROVE Inv'
<1> DEFINE l == Left(pvc)
<1>1. /\ pvc \in Browser /\ tasks \in SUBSET Requests /\ gen \in Nat /\ ctx \in Contexts
      /\ mode # "Quit" /\ mode' = "Table" /\ under' = "Table"
      /\ pvc' = l /\ tasks' = tasks /\ gen' = gen + 1 /\ ctx' = ctx /\ switching' = c
      /\ deletes' = deletes \cup DeleteOf(pvc.mount) /\ dialog' = dialog
      /\ alive' = alive /\ home' = home /\ warned' = warned
  BY DEF Inv, Types, SwitchContext, cluster
<1>2. /\ l \in Browser /\ l.mount = NoMount /\ ~l.active /\ Sound(l)
      /\ Serving(tasks, l) /\ Placed(tasks, l, gen, ctx)
  BY <1>1, LeftIs, LeftKeeps DEF Inv
<1> HIDE DEF l
<1>3. Placed(tasks, l, gen + 1, ctx) /\ Resting(tasks, l, gen + 1)
  BY <1>1, <1>2, Later, LaterRests
<1>4. pvc.mount.helper => At(pvc.mount, ctx)
  BY <1>1 DEF Inv, Placed
<1>5. pvc.mount \in Mount
  BY <1>1 DEF Browser
<1>6. Types'
  <2>1. deletes' \in SUBSET Deletes
    BY <1>1, <1>5, DeleteOfIs DEF Inv, Types
  <2>2. gen + 1 \in Nat /\ "Table" \in Modes \ {"Quit"}
    BY <1>1 DEF Modes
  <2> QED
    BY <1>1, <1>2, <2>1, <2>2 DEF Inv, Types
<1>7. DeletesPlaced'
  BY <1>1, <1>4, <1>5, DeleteOfIs DEF Inv, DeletesPlaced, At
<1>8. NoneForgotten'
  BY <1>1, <1>4, <1>5, DeleteOfIs, HandedOn DEF Inv, At
<1>9. ~Asked("Table", "Table", dialog) /\ Placed(tasks, pvc, gen, ctx)'
  BY <1>1, <1>3 DEF Asked, Placed, At
<1> QED
  BY <1>1, <1>2, <1>3, <1>6, <1>7, <1>8, <1>9 DEF Inv

\* Nothing is under way once sofka is gone.
LEMMA QuitKeeps == ASSUME Inv, Quit PROVE Inv'
<1>1. /\ mode' = "Quit" /\ tasks' = {} /\ deletes' = {} /\ alive' \subseteq alive
      /\ pvc' = [pvc EXCEPT !.mount = NoMount]
      /\ UNCHANGED <<world, home, warned, under, dialog>>
  BY DEF Quit
<1>2. pvc' \in Browser
  BY <1>1, Nothing DEF Inv, Types, Browser
<1> QED
  BY <1>1, <1>2 DEF Inv, Types, DeletesPlaced, world, Modes

\* Every key keeps the invariant.
LEMMA KeysKeep == ASSUME Inv, Keys PROVE Inv'
<1>1. /\ pvc \in {pvc, Suspended(pvc)} /\ under \in Modes \ {"Quit"} /\ mode \in Modes
      /\ dialog \in Dialogs
  BY DEF Inv, Types
<1>2. ASSUME UNCHANGED world
      PROVE  gen' = gen /\ ctx' = ctx /\ switching' = switching
  BY <1>2 DEF world
<1>3. ASSUME NEW c \in Claims, NEW intent \in {"browse", "shell"}, OpenClaim(c, intent)
      PROVE  Inv'
  BY <1>3, OpenClaimKeeps
<1>4. ASSUME NEW d \in Dirs, GoTo(d) PROVE Inv'
  BY <1>4, GoToKeeps
<1>5. ASSUME NEW upload \in BOOLEAN, NEW level \in Levels, Copy(upload, level) PROVE Inv'
  <2>1. mode = "Browser" /\ UNCHANGED <<world, cluster, under>>
    BY <1>5 DEF Copy
  <2>2. CASE level = "ask"
    <3>1. Key(pvc, "Dialog", {}) /\ dialog' = Ask("copy")
      BY <1>5, <2>2 DEF Copy
    <3>2. Ask("copy") \in Dialogs /\ ~Asked("Dialog", under, Ask("copy"))
      BY DEF Ask, Dialogs, Asked
    <3> QED
      BY <1>1, <1>2, <2>1, <3>1, <3>2, StillKey DEF Modes
  <2>3. CASE level # "ask"
    <3>1. Key(pvc, mode, {Request("copy", pvc, pvc.mount)}) /\ dialog' = dialog
      BY <1>5, <2>3 DEF Copy
    <3> QED
      BY <1>1, <2>1, <3>1, PlainKey
  <2> QED
    BY <2>2, <2>3
<1>6. CASE Escape
  <2>1. ~Asked("Table", under, dialog)
    BY DEF Asked
  <2> QED
    BY <1>1, <1>2, <1>6, <2>1, StillKey DEF Escape, Modes
<1>7. CASE ShellHere \/ AskOther
  <2>1. PICK what \in {"shell", "delete"} :
          Key(pvc, "Dialog", {}) /\ dialog' = Ask(what) /\ mode # "Quit"
          /\ UNCHANGED <<world, cluster, under>>
    BY <1>7 DEF ShellHere, AskOther
  <2>2. Ask(what) \in Dialogs /\ ~Asked("Dialog", under, Ask(what))
    BY DEF Ask, Dialogs, Asked
  <2> QED
    BY <1>1, <1>2, <2>1, <2>2, StillKey DEF Modes
<1>8. CASE AskClean
  <2> DEFINE d == [what |-> "clean", back |-> "Table"]
  <2>1. d \in Dialogs /\ ~Asked("Dialog", under, d)
    BY DEF Dialogs, Asked
  <2> QED
    BY <1>1, <1>2, <1>8, <2>1, StillKey DEF AskClean, Modes
<1>9. CASE Accept
  BY <1>9, AcceptKeeps
<1>10. CASE Decline
  <2> DEFINE back == IF pvc.active THEN dialog.back ELSE "Table"
             p == IF dialog.what = "shell" THEN Suspended(pvc) ELSE pvc
  <2>1. back \in Modes \ {"Quit"} /\ NoDialog \in Dialogs /\ ~Asked(back, under, NoDialog)
    BY <1>1 DEF Dialogs, Modes, NoDialog, Asked
  <2>2. /\ mode = "Dialog" /\ dialog' = NoDialog /\ Key(p, back, {})
        /\ UNCHANGED <<world, cluster, under>> /\ p \in {pvc, Suspended(pvc)}
    BY <1>10 DEF Decline
  <2> QED
    BY <1>1, <1>2, <2>1, <2>2, StillKey
<1>11. CASE OpenOverlay
  <2>1. /\ mode \in {"Table", "Browser", "Dialog"} /\ Key(pvc, "Overlay", {})
        /\ under' = mode /\ dialog' \in {dialog, NoDialog} /\ UNCHANGED <<world, cluster>>
    BY <1>11 DEF OpenOverlay
  <2>2. /\ Asked("Overlay", mode, dialog') => Asked(mode, under, dialog)
        /\ NoDialog \in Dialogs
    BY <2>1 DEF Asked, NoDialog, Dialogs
  <2> QED
    BY <1>1, <1>2, <2>1, <2>2, StillKey DEF Modes
<1>12. CASE CloseOverlay
  <2>1. /\ mode = "Overlay" /\ Key(pvc, under, {}) /\ under' = "Table" /\ dialog' = dialog
        /\ UNCHANGED <<world, cluster>>
    BY <1>12 DEF CloseOverlay
  <2>2. Asked(under, "Table", dialog) => Asked(mode, under, dialog)
    BY <2>1 DEF Asked
  <2> QED
    BY <1>1, <1>2, <2>1, <2>2, StillKey DEF Modes
<1>13. CASE Navigate
  <2>1. /\ mode # "Quit" /\ Key(pvc, "Table", {}) /\ under' = "Table" /\ gen' = gen + 1
        /\ ctx' = ctx /\ switching' = switching /\ dialog' = dialog /\ cluster' = cluster
    BY <1>13 DEF Navigate
  <2>2. ~Asked("Table", "Table", dialog)
    BY DEF Asked
  <2> QED
    BY <1>1, <2>1, <2>2, StillKey DEF Modes
<1>14. CASE OpenDocument
  <2>1. ~Asked("Away", "Table", dialog)
    BY DEF Asked
  <2> QED
    BY <1>1, <1>2, <1>14, <2>1, StillKey DEF OpenDocument, Modes
<1>15. CASE CloseDocument
  <2>1. ~Asked("Table", under, dialog)
    BY DEF Asked
  <2> QED
    BY <1>1, <1>2, <1>15, <2>1, StillKey DEF CloseDocument, Modes
<1>16. ASSUME NEW c \in Contexts, SwitchContext(c) PROVE Inv'
  BY <1>16, SwitchContextKeeps
<1>17. CASE Quit
  BY <1>17, QuitKeeps
<1> QED
  BY <1>3, <1>4, <1>5, <1>6, <1>7, <1>8, <1>9, <1>10, <1>11, <1>12, <1>13, <1>14, <1>15,
     <1>16, <1>17 DEF Keys

-----------------------------------------------------------------------------
(* Answers.                                                                *)

\* The answer the browser waits for is the only one.
LEMMA OnlyOne ==
  ASSUME NEW T, NEW p, NEW t \in T, Serving(T, p), t.run = p.run, Waits(t)
  PROVE  \A u \in T \ {t} : u.run = p.run => ~Waits(u)
  BY DEF Serving

\* An answer that mounts nothing, whatever it shows.
LEMMA NothingMounted ==
  ASSUME Inv, mode # "Quit", NEW t \in tasks, NEW q \in Browser,
         NEW gone \in SUBSET Deletes, Msg(q, mode, t, {}, gone),
         UNCHANGED <<world, home, warned, under, dialog>>, alive' \subseteq alive,
         \A d \in gone : At(d, d.ctx),
         t.kind = "created" /\ t.mount.pod \in alive' =>
           [pod |-> t.mount.pod, ctx |-> t.ctx] \in gone,
         q.active = pvc.active, q.mount = pvc.mount, q.first = pvc.first, q.run = pvc.run,
         Sound(q),
         Asked(mode, under, dialog) /\ pvc.active => q.recovery # NoRecovery
  PROVE  Inv'
<1>1. /\ mode \in Modes \ {"Quit"} /\ dialog' = dialog /\ dialog \in Dialogs
      /\ (tasks \ {t}) \cup {} \in SUBSET tasks
  BY DEF Inv, Types
<1> DEFINE T == (tasks \ {t}) \cup {}
<1>2. Serving(T, q) /\ Placed(T, q, gen, ctx) /\ (Resting(tasks, pvc, gen) => Resting(T, q, gen))
  BY <1>1, Alike, Fewer DEF Inv
<1>3. Asked(mode, under, dialog) => Offered(T, q)
  BY <1>1 DEF Inv, Offered
<1> HIDE DEF T
<1> QED
  BY <1>1, <1>2, <1>3, Answered DEF Inv, T

\* A mount the browser waits for displaces none, and fits it.
LEMMA TargetEntered ==
  ASSUME Inv, mode # "Quit", NEW t \in tasks, NEW p \in Browser, NEW m \in Mount,
         EnterTarget(p, m, t), UNCHANGED <<world, alive, home, warned, under>>,
         t.run = pvc.run, Waits(t), switching = ctx,
         p.active = pvc.active, p.mount = pvc.mount, p.first = pvc.first, p.run = pvc.run,
         ~pvc.mount.helper, Sound(p), ~p.active => t.kind \in Targets,
         m.pod # NoPod, m.helper => At(m, ctx), p.active => NoWider(m, p.first),
         t.kind = "created" => m = t.mount /\ t.ctx = ctx
  PROVE  Inv'
<1>1. /\ pvc \in Browser /\ tasks \in SUBSET Requests /\ gen \in Nat /\ ctx \in Contexts
      /\ mode \in Modes \ {"Quit"} /\ dialog \in Dialogs /\ alive' \subseteq alive
  BY DEF Inv, Types
<1> DEFINE T == tasks \ {t}
<1>2. /\ Serving(T, p) /\ Placed(T, p, gen, ctx) /\ T \in SUBSET Requests
      /\ \A u \in T : u.run = p.run => ~Waits(u)
  BY <1>1, Alike, Fewer, OnlyOne DEF Inv
<1>3. T \cup {} = T /\ tasks \ {t} = T
  OBVIOUS
<1> HIDE DEF T
<1>4. ~p.active => ~Asked(mode, under, dialog)
  BY DEF Inv, Offered, Targets
<1>5. /\ DeleteOf(m) \in SUBSET Deletes /\ \A d \in DeleteOf(m) : At(d, d.ctx)
      /\ m.helper => [pod |-> m.pod, ctx |-> ctx] \in DeleteOf(m)
  BY <1>1, DeleteOfIs DEF At
<1>6. t.kind = "created" => t.mount.helper
  BY DEF Inv, Placed
<1>7. CASE MovedOn(p)
  <2> DEFINE q == [p EXCEPT !.shell = FALSE]
  <2>1. /\ q \in Browser /\ q.active = p.active /\ q.mount = p.mount /\ q.first = p.first
        /\ q.run = p.run /\ q.recovery = p.recovery /\ q.entries = p.entries
    BY DEF Browser
  <2>2. EnterTarget(p, m, t) => Msg(q, mode, t, {}, DeleteOf(m)) /\ dialog' = dialog
    BY <1>7 DEF EnterTarget
  <2>3. ~p.active
    BY <1>7 DEF MovedOn
  <2> HIDE DEF q
  <2>4. Sound(q)
    BY <2>1, <2>3 DEF Sound
  <2> QED
    BY <1>1, <1>4, <1>5, <1>6, <2>1, <2>2, <2>3, <2>4, NothingMounted
<1>8. CASE ~MovedOn(p) /\ p.intent = "shell"
  <2> DEFINE q == [p EXCEPT !.mount = m, !.shell = TRUE]
  <2>1. ~p.active
    BY <1>8 DEF Sound
  <2>2. /\ q \in Browser /\ q.active = p.active /\ q.mount = m /\ q.first = p.first
        /\ q.run = p.run /\ q.recovery = p.recovery /\ q.entries = p.entries /\ q.shell
    BY DEF Browser
  <2>3. \/ /\ Msg(q, "Dialog", t, {}, {}) /\ dialog' = [what |-> "shell", back |-> "Table"]
        \/ /\ Msg(Suspended(q), mode, t, {}, IF q.active THEN {} ELSE DeleteOf(m))
           /\ dialog' = dialog
    BY <1>8 DEF EnterTarget
  <2> HIDE DEF q
  <2>4. Sound(q) /\ Placed(T, q, gen, ctx)
    BY <1>2, <2>1, <2>2 DEF Sound, Placed
  <2>5. Serving(T, q)
    BY <1>2, <2>1, <2>2 DEF Serving, Serves, Waits, Targets
  <2>6. CASE Msg(q, "Dialog", t, {}, {}) /\ dialog' = [what |-> "shell", back |-> "Table"]
    <3>1. dialog' \in Dialogs /\ ~Asked("Dialog", under, dialog') /\ AfterMsg(q, "Dialog") = q
      BY <2>6 DEF Dialogs, Asked, AfterMsg, OverBrowser
    <3>2. /\ Serving((tasks \ {t}) \cup {}, q) /\ Placed((tasks \ {t}) \cup {}, q, gen, ctx)
          /\ {} \in SUBSET Requests /\ {} \in SUBSET Deletes /\ "Dialog" \in Modes \ {"Quit"}
      BY <1>3, <2>4, <2>5 DEF Modes
    <3>3. t.kind = "created" /\ t.mount.pod \in alive' => q.mount = t.mount
      BY <2>2
    <3> QED
      BY <1>1, <2>2, <2>4, <2>6, <3>1, <3>2, <3>3, Answered
  <2>7. CASE /\ Msg(Suspended(q), mode, t, {}, IF q.active THEN {} ELSE DeleteOf(m))
             /\ dialog' = dialog
    <3>1. /\ Suspended(q) \in Browser /\ Suspended(q).mount = NoMount /\ Sound(Suspended(q))
          /\ Serving(T, Suspended(q)) /\ Placed(T, Suspended(q), gen, ctx)
      BY <2>1, <2>2, <2>4, <2>5, SuspendedIs, SuspendedKeeps
    <3>2. Msg(Suspended(q), mode, t, {}, DeleteOf(m))
      BY <2>1, <2>2, <2>7
    <3> QED
      BY <1>1, <1>3, <1>4, <1>5, <1>6, <2>1, <2>7, <3>1, <3>2, Answered
  <2> QED
    BY <2>3, <2>6, <2>7
<1>9. CASE ~MovedOn(p) /\ p.intent = "browse"
  <2> DEFINE n == [p EXCEPT !.active = TRUE, !.mount = m, !.displayed = "root",
                            !.entries = NoEntries, !.error = p.recovery # NoRecovery,
                            !.first = IF @ = NoMount THEN m ELSE @]
             q == OpenRemoteDir(n, "root")
             r == Listing(q)
  <2>1. Msg(q, "Browser", t, {r}, {}) /\ dialog' = dialog
    BY <1>9 DEF EnterTarget
  <2>2. /\ n \in Browser /\ n.active /\ n.mount = m /\ n.run = p.run
        /\ n.first = (IF p.first = NoMount THEN m ELSE p.first)
        /\ n.recovery = p.recovery /\ n.entries = NoEntries /\ n.intent = "browse"
    BY <1>9, Nothing DEF Browser
  <2> HIDE DEF n
  <2>3. /\ q \in Browser /\ q.active /\ q.mount = m /\ q.run = n.run + 1
        /\ q.first = n.first /\ q.recovery = p.recovery /\ q.entries = NoEntries
        /\ q.intent = "browse"
    BY <2>2, OpenRemoteDirIs
  <2> HIDE DEF q
  <2>4. /\ r \in Requests /\ r.kind = "list" /\ r.gen = gen /\ r.ctx = ctx
        /\ r.run = q.run /\ r.mount = q.mount
    BY <1>1, <2>3, RequestIs DEF Listing, Kinds, Browser
  <2> HIDE DEF r
  <2>5. IF p.active THEN n.first = p.first ELSE n.first = m /\ p.recovery = NoRecovery
    BY <2>2, Nothing DEF Sound
  <2>6. Sound(q)
    BY <2>3, <2>5 DEF Sound, NoWider
  <2>7. n.run + 1 = p.run + 1 /\ Serving(T \cup {r}, q)
    <3>1. q.run = p.run + 1 /\ Serves(r, q)
      BY <2>2, <2>3, <2>4 DEF Serves
    <3> QED
      BY <1>2, <2>2, <2>3, <2>4, <3>1, NewRun
  <2>8. Placed(T \cup {r}, q, gen, ctx)
    BY <1>1, <1>2, <2>3, <2>4, NewPlaced
  <2>9. AfterMsg(q, "Browser") = q /\ ~Asked("Browser", under, dialog)
    BY DEF AfterMsg, OverBrowser, Asked
  <2>10. /\ Serving((tasks \ {t}) \cup {r}, q) /\ Placed((tasks \ {t}) \cup {r}, q, gen, ctx)
         /\ {r} \in SUBSET Requests /\ {} \in SUBSET Deletes
         /\ "Browser" \in Modes \ {"Quit"}
    BY <1>3, <2>4, <2>7, <2>8 DEF Modes
  <2>11. t.kind = "created" /\ t.mount.pod \in alive' => q.mount = t.mount
    BY <2>3
  <2> QED
    BY <1>1, <2>1, <2>3, <2>6, <2>9, <2>10, <2>11, Answered
<1> QED
  BY <1>7, <1>8, <1>9 DEF Browser

\* A browser whose recovery failed shows the failure.
LEMMA RecoveryErrorIs ==
  ASSUME NEW p \in Browser, Sound(p)
  PROVE  LET q == RecoveryError(p)
         IN /\ q \in Browser /\ q.active = p.active /\ q.mount = p.mount
            /\ q.first = p.first /\ q.run = p.run /\ q.recovery = p.recovery
            /\ Sound(q)
<1> DEFINE q == RecoveryError(p)
<1>1. /\ q \in Browser /\ q.active = p.active /\ q.mount = p.mount /\ q.intent = p.intent
      /\ q.first = p.first /\ q.run = p.run /\ q.recovery = p.recovery
      /\ q.entries = p.entries /\ q.displayed = p.displayed
  BY DEF RecoveryError, Browser
<1> HIDE DEF q
<1>2. Sound(q)
  BY <1>1 DEF Sound
<1> QED
  BY <1>1, <1>2 DEF q

\* A helper is offered only to a browser that waits for no pod.
LEMMA HelperOffered ==
  ASSUME Inv, mode # "Quit", NEW t \in tasks, NEW p \in Browser, NEW level \in Levels,
         OfferHelper(p, t, level), UNCHANGED <<world, alive, home, warned, under>>,
         t.run = pvc.run, Waits(t), t.kind # "created", switching = ctx,
         p.active = pvc.active, p.mount = pvc.mount, p.first = pvc.first, p.run = pvc.run,
         Sound(p),
         IF p.active THEN /\ p.recovery # NoRecovery /\ ~p.mount.helper
                          /\ p.mount.pod \in Toolless
         ELSE p.mount = NoMount
  PROVE  Inv'
<1>1. /\ mode \in Modes \ {"Quit"} /\ dialog \in Dialogs /\ alive' \subseteq alive
      /\ {} \in SUBSET Deletes /\ {} \in SUBSET Requests
  BY DEF Inv, Types
<1>2. CASE level = "refuse"
  <2>1. /\ dialog' = dialog
        /\ \/ Msg(p, mode, t, {}, {}) \/ Msg(RecoveryError(p), mode, t, {}, {})
    BY <1>2 DEF OfferHelper
  <2>2. CASE Msg(p, mode, t, {}, {})
    BY <1>1, <2>1, <2>2, NothingMounted
  <2>3. CASE Msg(RecoveryError(p), mode, t, {}, {})
    BY ZenonT(40), <1>1, <2>1, <2>3, NothingMounted, RecoveryErrorIs
  <2> QED
    BY <2>1, <2>2, <2>3
<1>3. CASE level # "refuse"
  <2> DEFINE T == (tasks \ {t}) \cup {}
  <2>1. Msg(p, "Dialog", t, {}, {}) /\ dialog' = Ask("helper") /\ Ask("helper") \in Dialogs
    BY <1>3 DEF OfferHelper, Ask, Dialogs
  <2>2. T \in SUBSET tasks /\ Serving(T, p) /\ Placed(T, p, gen, ctx)
    BY Alike, Fewer DEF Inv
  <2>3. Offered(T, p)
    BY OnlyOne DEF Inv, Offered
  <2> HIDE DEF T
  <2> QED
    BY <1>1, <2>1, <2>2, <2>3, Answered DEF T, Modes
<1> QED
  BY <1>2, <1>3

-----------------------------------------------------------------------------
(* What an answer brings.                                                  *)

\* The running consumers of a claim are pods.
LEMMA ConsumersArePods ==
  ASSUME Types, NEW c, NEW claim, NEW up \in SUBSET Workloads
  PROVE  Consumers(c, claim, up) \in SUBSET (Workloads \cup Helpers)
  BY DEF Consumers, Types

\* A consumer's mount is of a pod, and no helper to be deleted.
LEMMA MountOfIs ==
  ASSUME NEW p \in Workloads \cup Helpers
  PROVE  MountOf(p) \in Mount /\ MountOf(p).pod # NoPod /\ ~MountOf(p).helper
<1>1. CASE p \in Helpers
  BY <1>1, PvcExploreAssumption DEF MountOf, Mount, Pods, Subs, PvcExploreAssumption
<1>2. CASE p \notin Helpers
  <2>1. p \in Workloads /\ SubPath[p] \in Subs
    BY <1>2 DEF Subs
  <2> QED
    BY <1>2, <2>1, PvcExploreAssumption DEF MountOf, Mount, Pods, PvcExploreAssumption
<1> QED
  BY <1>1, <1>2

\* So is each that find_mount may take.
LEMMA FoundMountsAre ==
  ASSUME NEW pods \in SUBSET (Workloads \cup Helpers), NEW m \in FoundMounts(pods)
  PROVE  m \in Mount /\ m.pod # NoPod /\ ~m.helper
  BY MountOfIs DEF FoundMounts

\* A candidate is no wider than the mount it may stand in for.
LEMMA CandidatesAre ==
  ASSUME NEW claim, NEW pods \in SUBSET (Workloads \cup Helpers), NEW o \in Mount,
         NEW c \in Candidates(claim, pods, o)
  PROVE  c \in Mount /\ c.pod # NoPod /\ ~c.helper /\ NoWider(c, o)
<1>1. PICK p \in pods : /\ c = [MountOf(p) EXCEPT !.ro = MountOf(p).ro \/ o.ro]
                        /\ MountOf(p).sub = o.sub
  BY DEF Candidates
<1> DEFINE m == MountOf(p)
<1>2. m \in Mount /\ m.pod # NoPod /\ ~m.helper
  BY MountOfIs
<1> HIDE DEF m
<1>3. c = [m EXCEPT !.ro = m.ro \/ o.ro] /\ m.sub = o.sub
  BY <1>1 DEF m
<1> QED
  BY <1>2, <1>3 DEF Mount, NoWider

\* Nor is a new helper.
LEMMA HelperMountIs ==
  ASSUME NEW h \in Helpers, NEW claim, NEW o \in Mount
  PROVE  LET m == HelperMount(h, claim, o)
         IN /\ m \in Mount /\ m.pod = h /\ m.helper /\ m.pod # NoPod
            /\ o # NoMount => NoWider(m, o)
  BY PvcExploreAssumption
     DEF HelperMount, Mount, Pods, Subs, NoWider, PvcExploreAssumption

\* A browser that differs only in what it says.
SameInside(p, q) ==
  /\ q.active = p.active /\ q.mount = p.mount /\ q.first = p.first /\ q.run = p.run
  /\ q.intent = p.intent /\ q.recovery = p.recovery /\ q.entries = p.entries
  /\ q.displayed = p.displayed

\* It is as sound.
LEMMA SameSound ==
  ASSUME NEW p, NEW q, Sound(p), SameInside(p, q) PROVE Sound(q)
  BY DEF Sound, SameInside

\* An answer that changes only what the browser says.
LEMMA OnlySaid ==
  ASSUME Inv, mode # "Quit", NEW t \in tasks, NEW q \in Browser, SameInside(pvc, q),
         Msg(q, mode, t, {}, {}), UNCHANGED <<world, home, warned, under, dialog>>,
         alive' \subseteq alive, t.kind = "created" => t.mount.pod \notin alive'
  PROVE  Inv'
<1>1. Sound(q) /\ {} \in SUBSET Deletes /\ (\A d \in {} : At(d, d.ctx))
  BY SameSound DEF Inv
<1>2. Asked(mode, under, dialog) /\ pvc.active => q.recovery # NoRecovery
  BY DEF Inv, Offered, SameInside
<1> QED
  BY <1>1, <1>2, NothingMounted DEF SameInside

\* A failure is reported.
LEMMA TargetFailsKeeps ==
  ASSUME Inv, mode # "Quit", NEW t \in tasks, TargetFails(t),
         UNCHANGED <<world, home, under>>, alive' \subseteq alive,
         t.kind = "created" => t.mount.pod \notin alive'
  PROVE  Inv'
<1>1. pvc \in Browser /\ Sound(pvc) /\ UNCHANGED <<warned, dialog>>
  BY DEF Inv, Types, TargetFails
<1>2. Msg(pvc, mode, t, {}, {}) \/ Msg(RecoveryError(pvc), mode, t, {}, {})
  BY DEF TargetFails
<1>3. RecoveryError(pvc) \in Browser /\ SameInside(pvc, RecoveryError(pvc))
  BY <1>1 DEF RecoveryError, Browser, SameInside
<1>4. SameInside(pvc, pvc)
  BY DEF SameInside
<1> QED
  BY <1>1, <1>2, <1>3, <1>4, OnlySaid

\* A mount nobody waits for any more is deleted where it is, or reported.
LEMMA DiscardKeeps ==
  ASSUME Inv, mode # "Quit", NEW t \in tasks, NEW m \in Mount, Discard(t, m),
         UNCHANGED <<world, alive, home, under>>,
         IF t.kind = "created" THEN m = t.mount ELSE ~m.helper
  PROVE  Inv'
<1>1. /\ pvc \in Browser /\ ctx \in Contexts
      /\ AfterMsg(pvc, mode) = pvc /\ tasks' = tasks \ {t} /\ pvc' = pvc
      /\ mode' = mode /\ dialog' = dialog /\ alive' = alive /\ home' = home
      /\ ctx' = ctx /\ gen' = gen /\ switching' = switching /\ under' = under
      /\ tasks' \in SUBSET tasks
  BY DEF Inv, Types, Discard, AfterMsg, world
<1>2. /\ Serving(tasks', pvc) /\ Placed(tasks', pvc, gen, ctx)
      /\ Offered(tasks, pvc) => Offered(tasks', pvc)
      /\ Resting(tasks, pvc, gen) => Resting(tasks', pvc, gen)
  BY <1>1, Fewer DEF Inv
<1>3. Placed(tasks, pvc, gen, ctx)'
  BY <1>1, <1>2 DEF Placed, At
<1>4. m.helper => t.kind = "created" /\ At(m, t.ctx)
  BY DEF Inv, Placed
<1>5. t.kind = "created" => m = t.mount /\ m.helper
  BY DEF Inv, Placed
<1>6. CASE t.ctx # ctx
  <2>1. deletes' = deletes /\ warned' = IF m.helper THEN warned \cup {m.pod} ELSE warned
    BY <1>6 DEF Discard
  <2>2. Types' /\ DeletesPlaced'
    BY <1>1, <1>4, <2>1 DEF Inv, Types, DeletesPlaced, At
  <2>3. NoneForgotten'
    BY <1>1, <1>5, <2>1, HandedOn DEF Inv
  <2> QED
    BY <1>1, <1>2, <1>3, <2>2, <2>3 DEF Inv
<1>7. CASE t.ctx = ctx
  <2>1. deletes' = deletes \cup DeleteOf(m) /\ warned' = warned
    BY <1>7 DEF Discard
  <2>2. Types' /\ DeletesPlaced'
    BY <1>1, <1>4, <1>7, <2>1, DeleteOfIs DEF Inv, Types, DeletesPlaced, At
  <2>3. NoneForgotten'
    BY <1>1, <1>4, <1>5, <1>7, <2>1, DeleteOfIs, HandedOn DEF Inv, At
  <2> QED
    BY <1>1, <1>2, <1>3, <2>2, <2>3 DEF Inv
<1> QED
  BY <1>6, <1>7

\* A mount is entered, or finds its way to a deletion.
LEMMA TargetFoundKeeps ==
  ASSUME Inv, mode # "Quit", NEW t \in tasks, NEW m \in Mount, TargetFound(t, m),
         UNCHANGED <<world, alive, home, under>>, t.kind \in {"resolve", "created"},
         m.pod # NoPod, IF t.kind = "created" THEN m = t.mount ELSE ~m.helper
  PROVE  Inv'
<1>1. /\ pvc \in Browser /\ Sound(pvc) /\ Serving(tasks, pvc) /\ Placed(tasks, pvc, gen, ctx)
      /\ ctx \in Contexts /\ alive' \subseteq alive
  BY DEF Inv, Types
<1>2. CASE t.gen # gen
  BY <1>2, DiscardKeeps DEF TargetFound
<1>3. CASE t.gen = gen
  <2>1. t.ctx = ctx /\ (m.helper => At(m, ctx)) /\ (t.kind = "created" => m.helper)
    BY <1>1, <1>3 DEF Placed
  <2>2. CASE t.run # pvc.run
    <3>1. Msg(pvc, mode, t, {}, DeleteOf(m)) /\ UNCHANGED <<warned, dialog>>
      BY <1>3, <2>2 DEF TargetFound, Superseded
    <3>2. /\ DeleteOf(m) \in SUBSET Deletes /\ \A d \in DeleteOf(m) : At(d, d.ctx)
          /\ m.helper => [pod |-> m.pod, ctx |-> ctx] \in DeleteOf(m)
      BY <1>1, <2>1, DeleteOfIs DEF At
    <3>3. Asked(mode, under, dialog) /\ pvc.active => pvc.recovery # NoRecovery
      BY DEF Inv, Offered
    <3> QED
      BY <1>1, <2>1, <3>1, <3>2, <3>3, NothingMounted
  <2>3. CASE t.run = pvc.run
    <3>1. EnterTarget(pvc, m, t) /\ UNCHANGED warned
      BY <1>3, <2>3 DEF TargetFound
    <3>2. Serves(t, pvc) /\ t.kind \in Targets /\ Waits(t)
      BY <1>1, <2>3 DEF Serving, Targets, Waits
    <3>3. switching = ctx
      BY <1>3, <3>2 DEF Inv, Resting
    <3>4. ~pvc.mount.helper
      BY <3>2, Nothing DEF Serves, Targets
    <3>5. pvc.active => NoWider(m, pvc.first)
      BY <3>2 DEF Serves
    <3> QED
      BY <1>1, <2>1, <2>3, <3>1, <3>2, <3>3, <3>4, <3>5, TargetEntered
  <2> QED
    BY <2>2, <2>3
<1> QED
  BY <1>2, <1>3

\* The resolution of a claim.
LEMMA ResolveAnswersKeeps ==
  ASSUME Inv, mode # "Quit", NEW t \in tasks, NEW up \in SUBSET Workloads,
         ResolveAnswers(t, up)
  PROVE  Inv'
<1> DEFINE pods == Consumers(t.ctx, t.claim, up)
<1>1. /\ t.kind = "resolve" /\ UNCHANGED <<world, alive, home, under>> /\ alive' \subseteq alive
      /\ pods \in SUBSET (Workloads \cup Helpers)
      /\ pvc \in Browser /\ Sound(pvc) /\ Serving(tasks, pvc)
  BY ConsumersArePods DEF ResolveAnswers, Inv, Types
<1>2. \/ \E m \in FoundMounts(pods) : TargetFound(t, m)
      \/ /\ pods = {} /\ UNCHANGED warned
         /\ IF t.gen # gen \/ t.run # pvc.run THEN Msg(pvc, mode, t, {}, {}) /\ dialog' = dialog
            ELSE \E level \in Levels : OfferHelper(pvc, t, level)
      \/ TargetFails(t)
  BY DEF ResolveAnswers
<1> HIDE DEF pods
<1>3. CASE \E m \in FoundMounts(pods) : TargetFound(t, m)
  BY <1>1, <1>3, FoundMountsAre, TargetFoundKeeps
<1>4. CASE (t.gen # gen \/ t.run # pvc.run) /\ Msg(pvc, mode, t, {}, {})
             /\ dialog' = dialog /\ UNCHANGED warned
  BY <1>1, <1>4, OnlySaid DEF SameInside
<1>5. CASE /\ t.gen = gen /\ t.run = pvc.run /\ UNCHANGED warned
           /\ \E level \in Levels : OfferHelper(pvc, t, level)
  <2>1. Serves(t, pvc) /\ t.kind \in Targets /\ Waits(t)
    BY <1>1, <1>5 DEF Serving, Targets, Waits
  <2>2. switching = ctx
    BY <1>5, <2>1 DEF Inv, Resting
  <2>3. ~pvc.active /\ pvc.mount = NoMount
    BY <1>1, <2>1 DEF Serves
  <2> QED
    BY <1>1, <1>5, <2>1, <2>2, <2>3, HelperOffered
<1>6. CASE TargetFails(t)
  BY <1>1, <1>6, TargetFailsKeeps
<1> QED
  BY <1>2, <1>3, <1>4, <1>5, <1>6

\* A helper is made: its request has it until it runs.
LEMMA PodCreatedKeeps == ASSUME Inv, mode # "Quit", NEW t \in tasks, PodCreated(t) PROVE Inv'
<1>1. PICK h \in Helpers \ DOMAIN home :
        /\ t.kind = "create" /\ alive' = alive \cup {h}
        /\ home' = [g \in DOMAIN home \cup {h} |->
                      IF g = h THEN [ctx |-> t.ctx, claim |-> t.claim] ELSE home[g]]
        /\ tasks' = (tasks \ {t}) \cup
                     {[t EXCEPT !.kind = "created", !.mount = HelperMount(h, t.claim, t.mount)]}
        /\ UNCHANGED <<world, warned, mode, under, dialog, pvc, deletes>>
  BY DEF PodCreated
<1> DEFINE u == [t EXCEPT !.kind = "created", !.mount = HelperMount(h, t.claim, t.mount)]
<1>2. /\ t \in Requests /\ pvc \in Browser /\ Sound(pvc) /\ Serving(tasks, pvc)
      /\ Placed(tasks, pvc, gen, ctx) /\ DOMAIN home \subseteq Helpers
  BY DEF Inv, Types
<1> DEFINE n == HelperMount(h, t.claim, t.mount)
<1>3. /\ n \in Mount /\ n.pod = h /\ n.helper /\ n.pod # NoPod
      /\ (t.mount # NoMount => NoWider(n, t.mount))
  BY <1>2, HelperMountIs DEF Requests
<1> HIDE DEF n
<1>4. u = [t EXCEPT !.kind = "created", !.mount = n]
  BY DEF n
<1>5. /\ u \in Requests /\ u.kind = "created" /\ u.mount = n /\ u.run = t.run /\ u.gen = t.gen
      /\ u.ctx = t.ctx
  BY <1>2, <1>3, <1>4 DEF Requests, Kinds
<1> HIDE DEF u
<1>6. /\ tasks' = (tasks \ {t}) \cup {u}
      /\ mode' = mode /\ under' = under /\ dialog' = dialog /\ pvc' = pvc /\ deletes' = deletes
      /\ warned' = warned /\ ctx' = ctx /\ gen' = gen /\ switching' = switching
  BY <1>1 DEF world, u
<1>7. /\ DOMAIN home' = DOMAIN home \cup {h} /\ home'[h].ctx = t.ctx
      /\ \A g \in DOMAIN home : home'[g] = home[g]
  BY <1>1
<1>8. Types'
  <2>1. \A g \in DOMAIN home' : home'[g] \in Homes
    BY <1>1, <1>2 DEF Inv, Types, Homes, Requests
  <2> QED
    BY <1>1, <1>2, <1>5, <1>6, <1>7, <2>1 DEF Inv, Types
<1>9. DeletesPlaced'
  BY <1>6, <1>7 DEF Inv, DeletesPlaced, At
<1>10. t.run = pvc.run => Serves(u, pvc)
  <2>1. pvc.active /\ t.run = pvc.run => t.mount # NoMount
    BY <1>1, <1>2, Nothing DEF Serving, Serves
  <2> QED
    BY <1>1, <1>2, <1>3, <1>5, <2>1 DEF Serving, Serves, NoWider, Targets
<1>11. Serving(tasks', pvc)
  <2>1. Waits(t) /\ Waits(u)
    BY <1>1, <1>5 DEF Waits
  <2> QED
    BY <1>2, <1>5, <1>6, <1>10, <2>1 DEF Serving
<1>12. Placed(tasks, pvc, gen, ctx)'
  <2>1. At(u.mount, u.ctx)'
    BY <1>3, <1>5, <1>6, <1>7 DEF At
  <2>2. \A m, c : At(m, c) => At(m, c)'
    BY <1>7 DEF At
  <2>3. \A x \in tasks \ {t} :
          /\ x.gen <= gen /\ (x.gen = gen => x.ctx = ctx)
          /\ x.kind = "created" => x.mount.helper /\ At(x.mount, x.ctx)'
    BY <1>2, <2>2 DEF Placed
  <2>4. u.gen <= gen /\ (u.gen = gen => u.ctx = ctx)
    BY <1>2, <1>5 DEF Placed
  <2> QED
    BY <1>2, <1>3, <1>5, <1>6, <2>1, <2>2, <2>3, <2>4 DEF Placed, At
<1>13. Asked(mode, under, dialog) => Offered(tasks', pvc)
  BY <1>1, <1>2, <1>5, <1>6 DEF Inv, Offered, Waits
<1>14. Resting(tasks, pvc, gen) => Resting(tasks', pvc, gen)
  BY <1>1, <1>5, <1>6 DEF Resting, Targets
<1>15. NoneForgotten'
  <2>1. Owned(h)'
    BY <1>3, <1>5, <1>6 DEF Owned
  <2>2. ASSUME NEW g \in alive PROVE Owned(g)' \/ g \in warned'
    <3>1. g \in DOMAIN home
      BY DEF Inv, Types
    <3>2. Owned(g) \/ g \in warned
      BY DEF Inv, NoneForgotten
    <3> QED
      BY <1>1, <1>6, <1>7, <3>1, <3>2 DEF Owned
  <2> QED
    BY <1>1, <2>1, <2>2 DEF NoneForgotten
<1> QED
  BY <1>2, <1>6, <1>8, <1>9, <1>11, <1>12, <1>13, <1>14, <1>15 DEF Inv

\* It runs, or never does.
LEMMA PodStartsKeeps ==
  ASSUME Inv, mode # "Quit", NEW t \in tasks,
         CreateRefused(t) \/ PodReady(t) \/ PodNeverReady(t)
  PROVE  Inv'
<1>1. t \in Requests /\ Placed(tasks, pvc, gen, ctx) /\ DOMAIN home \subseteq Helpers
  BY DEF Inv, Types
<1>2. CASE CreateRefused(t)
  BY <1>2, TargetFailsKeeps DEF CreateRefused
<1>3. CASE PodReady(t)
  <2>1. t.kind = "created" /\ TargetFound(t, t.mount) /\ UNCHANGED <<world, alive, home, under>>
    BY <1>3 DEF PodReady
  <2>2. t.mount \in Mount /\ t.mount.pod # NoPod
    BY <1>1, <2>1, PvcExploreAssumption DEF Requests, Placed, At, PvcExploreAssumption
  <2> QED
    BY <2>1, <2>2, TargetFoundKeeps
<1>4. CASE PodNeverReady(t)
  BY <1>4, TargetFailsKeeps DEF PodNeverReady
<1> QED
  BY <1>2, <1>3, <1>4

\* The next candidate is entered, or a helper offered when there is none.
LEMMA NextCandidateKeeps ==
  ASSUME Inv, mode # "Quit", NEW t \in tasks, NEW p \in Browser, NextCandidate(p, t),
         UNCHANGED <<world, alive, home, warned, under>>,
         t.kind \in {"list", "recover"}, t.run = pvc.run, p.active,
         p.active = pvc.active, p.mount = pvc.mount, p.first = pvc.first, p.run = pvc.run,
         ~p.mount.helper, p.mount.pod \in Toolless, p.recovery # NoRecovery, Sound(p)
  PROVE  Inv'
<1>1. Waits(t) /\ t.kind # "created" /\ switching = ctx
  BY DEF Waits, Inv, Resting
<1>2. ASSUME NEW m \in p.recovery.candidates,
             EnterTarget([p EXCEPT !.recovery.candidates = @ \ {m}], m, t)
      PROVE  Inv'
  <2> DEFINE q == [p EXCEPT !.recovery.candidates = @ \ {m}]
  <2>1. /\ q \in Browser /\ q.active = p.active /\ q.mount = p.mount /\ q.first = p.first
        /\ q.run = p.run /\ q.intent = p.intent /\ q.entries = p.entries
        /\ q.displayed = p.displayed /\ q.recovery.original = p.recovery.original
        /\ q.recovery.candidates = p.recovery.candidates \ {m}
    BY DEF Browser, Recovery
  <2> HIDE DEF q
  <2>2. Sound(q)
    BY <2>1 DEF Sound
  <2>3. m \in Mount /\ m.pod # NoPod /\ ~m.helper /\ NoWider(m, q.first)
    BY <2>1 DEF Sound, Browser, Recovery
  <2>4. EnterTarget(q, m, t)
    BY <1>2 DEF q
  <2> QED
    BY <1>1, <2>1, <2>2, <2>3, <2>4, TargetEntered
<1>3. ASSUME p.recovery.candidates = {},
             LET q == [p EXCEPT !.recovery.helper = "none", !.loading = FALSE]
             IN IF p.recovery.helper = "allowed"
                THEN \E level \in {"ask", "refuse"} : OfferHelper(q, t, level)
                ELSE Msg(RecoveryError(q), mode, t, {}, {}) /\ dialog' = dialog
      PROVE  Inv'
  <2> DEFINE q == [p EXCEPT !.recovery.helper = "none", !.loading = FALSE]
  <2>1. /\ q \in Browser /\ q.active = p.active /\ q.mount = p.mount /\ q.first = p.first
        /\ q.run = p.run /\ q.intent = p.intent /\ q.entries = p.entries
        /\ q.displayed = p.displayed /\ q.recovery.original = p.recovery.original
        /\ q.recovery.candidates = p.recovery.candidates
    BY DEF Browser, Recovery
  <2>2. \/ \E level \in {"ask", "refuse"} : OfferHelper(q, t, level)
        \/ Msg(RecoveryError(q), mode, t, {}, {}) /\ dialog' = dialog
    BY <1>3
  <2> HIDE DEF q
  <2>3. Sound(q)
    BY <2>1 DEF Sound
  <2>4. q.recovery # NoRecovery
    BY <2>1, Nothing DEF Sound
  <2>5. CASE \E level \in {"ask", "refuse"} : OfferHelper(q, t, level)
    BY <1>1, <2>1, <2>3, <2>4, <2>5, HelperOffered DEF Levels
  <2>6. CASE Msg(RecoveryError(q), mode, t, {}, {}) /\ dialog' = dialog
    <3>1. /\ RecoveryError(q) \in Browser /\ Sound(RecoveryError(q))
          /\ RecoveryError(q).active = pvc.active /\ RecoveryError(q).mount = pvc.mount
          /\ RecoveryError(q).first = pvc.first /\ RecoveryError(q).run = pvc.run
          /\ RecoveryError(q).recovery # NoRecovery
      BY <2>1, <2>3, <2>4, RecoveryErrorIs
    <3>2. alive' \subseteq alive /\ {} \in SUBSET Deletes
      OBVIOUS
    <3> QED
      BY <1>1, <2>6, <3>1, <3>2, NothingMounted
  <2> QED
    BY <2>2, <2>5, <2>6
<1> QED
  BY <1>2, <1>3 DEF NextCandidate

\* What is no longer waited for changes nothing but what the browser says.
LEMMA IgnoredIs ==
  ASSUME pvc \in Browser, NEW t
  PROVE  Ignored(t) \in Browser /\ SameInside(pvc, Ignored(t))
  BY ZenonT(40) DEF Ignored, Browser, SameInside

\* A current answer is about the mount the browser has.
LEMMA CurrentIs ==
  ASSUME Inv, mode # "Quit", NEW t \in tasks, Current(t), t.kind \in {"list", "recover"}
  PROVE  /\ t.run = pvc.run /\ pvc.active /\ t.mount = pvc.mount /\ switching = ctx
         /\ t.kind = "recover" => pvc.mount.pod \in Toolless /\ ~pvc.mount.helper
  BY DEF Inv, Current, Serving, Serves, Resting

\* The rows of a directory are those of the browser's own mount.
LEMMA ListingArrivesKeeps ==
  ASSUME Inv, mode # "Quit", NEW t \in tasks, ListingArrives(t) PROVE Inv'
<1>1. /\ t.kind = "list" /\ t.mount.pod \notin Toolless /\ t \in Requests /\ pvc \in Browser
      /\ Sound(pvc) /\ UNCHANGED <<world, cluster, under, dialog>>
  BY DEF ListingArrives, Inv, Types
<1>2. UNCHANGED <<world, home, warned, under, dialog>> /\ alive' \subseteq alive
  BY <1>1 DEF cluster
<1>3. CASE ~Current(t)
  <2>1. Msg(Ignored(t), mode, t, {}, {})
    BY <1>3 DEF ListingArrives
  <2> QED
    BY <1>1, <1>2, <2>1, IgnoredIs, OnlySaid
<1>4. CASE Current(t)
  <2> DEFINE q == [pvc EXCEPT !.loading = FALSE, !.listed = TRUE, !.recovery = NoRecovery,
                              !.error = FALSE, !.path = t.dir, !.displayed = t.dir,
                              !.entries = [pod |-> t.mount.pod, dir |-> t.dir]]
  <2>1. Msg(q, mode, t, {}, {})
    BY <1>4 DEF ListingArrives
  <2>2. t.dir \in Dirs /\ t.mount \in Mount /\ t.mount.pod \in Pods
    BY <1>1 DEF Requests, Mount
  <2>3. /\ q \in Browser /\ q.active = pvc.active /\ q.mount = pvc.mount /\ q.first = pvc.first
        /\ q.run = pvc.run /\ q.intent = pvc.intent /\ q.recovery = NoRecovery
        /\ q.displayed = t.dir /\ q.entries = [pod |-> t.mount.pod, dir |-> t.dir]
    BY <1>1, <2>2, Nothing DEF Browser
  <2> HIDE DEF q
  <2>4. t.mount = pvc.mount
    BY <1>1, <1>4, CurrentIs
  <2>5. Sound(q)
    BY <1>1, <1>4, <2>3, <2>4 DEF Sound, Current
  <2>6. ~(Asked(mode, under, dialog) /\ pvc.active)
    BY <1>1, <2>4 DEF Inv, Offered
  <2>7. {} \in SUBSET Deletes /\ (\A d \in {} : At(d, d.ctx))
    OBVIOUS
  <2> QED
    BY <1>1, <1>2, <2>1, <2>3, <2>5, <2>6, <2>7, NothingMounted
<1> QED
  BY <1>3, <1>4

\* A failed one tries another mount, plans a recovery, or says so.
LEMMA ListingFailsKeeps ==
  ASSUME Inv, mode # "Quit", NEW t \in tasks, ListingFails(t) PROVE Inv'
<1> DEFINE p == [pvc EXCEPT !.loading = FALSE, !.path = t.dir]
           recovers == /\ ~p.listed /\ mode = "Browser" /\ t.mount.pod \in Toolless
                       /\ ~p.mount.helper /\ t.dir = "root"
           q == [p EXCEPT !.error = TRUE, !.loading = TRUE, !.run = @ + 1,
                          !.recovery = [NoRecovery EXCEPT !.original = p.mount]]
           r == Request("recover", q, p.mount)
           s == [p EXCEPT !.path = p.displayed,
                          !.error = p.error \/ (p.entries = NoEntries /\ p.displayed = t.dir)]
<1>1. /\ t.kind = "list" /\ t \in Requests /\ pvc \in Browser /\ Sound(pvc)
      /\ tasks \in SUBSET Requests /\ gen \in Nat /\ ctx \in Contexts
      /\ UNCHANGED <<world, cluster, under>>
  BY DEF ListingFails, Inv, Types
<1>2. UNCHANGED <<world, alive, home, warned, under>> /\ alive' \subseteq alive
  BY <1>1 DEF cluster
<1>3. CASE ~Current(t)
  <2>1. Msg(Ignored(t), mode, t, {}, {}) /\ dialog' = dialog
    BY <1>3 DEF ListingFails
  <2> QED
    BY <1>1, <1>2, <2>1, IgnoredIs, OnlySaid
<1>4. CASE Current(t)
  <2>1. \/ recovers /\ p.recovery # NoRecovery /\ NextCandidate(p, t)
        \/ recovers /\ Msg(q, mode, t, {r}, {}) /\ dialog' = dialog
        \/ Msg(RecoveryError(p), mode, t, {}, {}) /\ dialog' = dialog
        \/ Msg(s, mode, t, {}, {}) /\ dialog' = dialog
    BY <1>4 DEF ListingFails
  <2>2. t.run = pvc.run /\ pvc.active /\ t.mount = pvc.mount /\ switching = ctx
    BY <1>1, <1>4, CurrentIs
  <2>3. p \in Browser /\ SameInside(pvc, p)
    BY <1>1 DEF Browser, Requests, SameInside
  <2>4. Sound(p)
    BY <1>1, <2>3, SameSound
  <2>5. s \in Browser /\ SameInside(pvc, s)
    <3> HIDE DEF p
    <3> QED
      BY <2>3 DEF Browser, SameInside
  <2>6. CASE recovers /\ p.recovery # NoRecovery /\ NextCandidate(p, t)
    <3> HIDE DEF p
    <3>1. ~p.mount.helper /\ p.mount.pod \in Toolless
      BY <2>2, <2>3, <2>6 DEF SameInside
    <3> QED
      BY <1>1, <1>2, <2>2, <2>3, <2>4, <2>6, <3>1, NextCandidateKeeps DEF SameInside
  <2>7. CASE recovers /\ Msg(q, mode, t, {r}, {}) /\ dialog' = dialog
    <3> HIDE DEF p
    <3>1. /\ mode = "Browser" /\ ~p.mount.helper /\ p.mount.pod \in Toolless
          /\ p.active = pvc.active /\ p.mount = pvc.mount /\ p.first = pvc.first
          /\ p.run = pvc.run
      BY <2>2, <2>3, <2>7 DEF SameInside
    <3> DEFINE v == [NoRecovery EXCEPT !.original = p.mount]
    <3>2. p.mount \in Mount /\ p.run + 1 \in Nat
      BY <2>3 DEF Browser
    <3>3. v \in Recovery /\ v.original = p.mount /\ v.candidates = {}
      BY <3>2 DEF NoRecovery, Recovery
    <3>4. q = [p EXCEPT !.error = TRUE, !.loading = TRUE, !.run = @ + 1, !.recovery = v]
      OBVIOUS
    <3> HIDE DEF v, q, r
    <3>5. /\ q \in Browser /\ q.active = p.active /\ q.mount = p.mount /\ q.first = p.first
          /\ q.run = p.run + 1 /\ q.intent = p.intent /\ q.recovery = v
          /\ q.displayed = p.displayed /\ q.entries = p.entries
      BY <2>3, <3>2, <3>3, <3>4 DEF Browser
    <3>6. /\ r \in Requests /\ r.kind = "recover" /\ r.gen = gen /\ r.ctx = ctx
          /\ r.run = q.run /\ r.mount = q.mount
      BY <1>1, <3>2, <3>5, RequestIs DEF r, Kinds
    <3>7. Sound(q)
      BY <2>2, <2>4, <3>1, <3>3, <3>5 DEF Sound
    <3> DEFINE T == tasks \ {t}
    <3>8. T \in SUBSET Requests /\ Serving(T, p) /\ Placed(T, p, gen, ctx)
      BY <1>1, <3>1, Alike, Fewer DEF Inv
    <3> HIDE DEF T
    <3>9. Serving(T \cup {r}, q) /\ Placed(T \cup {r}, q, gen, ctx)
      <4>1. Serves(r, q)
        BY <2>2, <3>1, <3>5, <3>6 DEF Serves
      <4>2. Serving(T \cup {r}, q)
        BY <2>3, <3>5, <3>6, <3>8, <4>1, NewRun
      <4>3. ~q.mount.helper
        BY <3>1, <3>5
      <4> QED
        BY <1>1, <3>6, <3>8, <4>2, <4>3, NewPlaced
    <3>10. /\ Serving((tasks \ {t}) \cup {r}, q) /\ Placed((tasks \ {t}) \cup {r}, q, gen, ctx)
           /\ {r} \in SUBSET Requests /\ {} \in SUBSET Deletes
           /\ mode \in Modes \ {"Quit"} /\ dialog' \in Dialogs
           /\ ~Asked(mode, under, dialog')
      BY <2>7, <3>1, <3>6, <3>9 DEF T, Inv, Types, Asked
    <3> QED
      BY <1>1, <1>2, <2>2, <2>7, <3>1, <3>5, <3>7, <3>10, Answered
  <2>8. CASE Msg(RecoveryError(p), mode, t, {}, {}) /\ dialog' = dialog
    <3> HIDE DEF p
    <3>1. RecoveryError(p) \in Browser /\ SameInside(p, RecoveryError(p))
      BY <2>3 DEF RecoveryError, Browser, SameInside
    <3>2. SameInside(pvc, RecoveryError(p))
      BY <2>3, <3>1 DEF SameInside
    <3> QED
      BY <1>1, <1>2, <2>8, <3>1, <3>2, OnlySaid
  <2>9. CASE Msg(s, mode, t, {}, {}) /\ dialog' = dialog
    <3> HIDE DEF s
    <3> QED
      BY <1>1, <1>2, <2>5, <2>9, OnlySaid
  <2> QED
    BY <2>1, <2>6, <2>7, <2>8, <2>9
<1> QED
  BY <1>3, <1>4

\* A plan has no mount wider than the one that failed.
LEMMA RecoveryAnswersKeeps ==
  ASSUME Inv, mode # "Quit", NEW t \in tasks, NEW up \in SUBSET Workloads,
         RecoveryAnswers(t, up)
  PROVE  Inv'
<1> DEFINE pods == Consumers(t.ctx, t.claim, up)
           plan == [original |-> t.mount, candidates |-> Candidates(t.claim, pods, t.mount),
                    helper |-> IF HelperAllowed(t.claim, pods, t.mount) THEN "allowed"
                               ELSE "refused"]
           p == [pvc EXCEPT !.loading = FALSE, !.recovery = plan]
<1>1. /\ t.kind = "recover" /\ t \in Requests /\ pvc \in Browser /\ Sound(pvc)
      /\ UNCHANGED <<world, alive, home, warned, under>> /\ alive' \subseteq alive
      /\ pods \in SUBSET (Workloads \cup Helpers)
  BY ConsumersArePods DEF RecoveryAnswers, Inv, Types, cluster
<1>2. CASE ~Current(t)
  <2>1. Msg(Ignored(t), mode, t, {}, {}) /\ dialog' = dialog
    BY <1>2 DEF RecoveryAnswers
  <2> QED
    BY <1>1, <2>1, IgnoredIs, OnlySaid
<1>3. CASE Current(t)
  <2>1. \/ NextCandidate(p, t)
        \/ Msg(RecoveryError(pvc), mode, t, {}, {}) /\ dialog' = dialog
    BY <1>3 DEF RecoveryAnswers
  <2> HIDE DEF pods
  <2>2. /\ t.run = pvc.run /\ pvc.active /\ t.mount = pvc.mount
        /\ pvc.mount.pod \in Toolless /\ ~pvc.mount.helper /\ t.mount \in Mount
    BY <1>1, <1>3, CurrentIs DEF Requests
  <2>3. \A c \in Candidates(t.claim, pods, t.mount) :
          c \in Mount /\ c.pod # NoPod /\ ~c.helper /\ NoWider(c, t.mount)
    BY <1>1, <2>2, CandidatesAre
  <2>4. /\ plan \in Recovery /\ plan.original = t.mount
        /\ plan.candidates = Candidates(t.claim, pods, t.mount)
    BY <2>2, <2>3 DEF Recovery
  <2> HIDE DEF plan
  <2>5. /\ p \in Browser /\ p.active = pvc.active /\ p.mount = pvc.mount /\ p.first = pvc.first
        /\ p.run = pvc.run /\ p.intent = pvc.intent /\ p.recovery = plan
        /\ p.displayed = pvc.displayed /\ p.entries = pvc.entries
    BY <1>1, <2>4 DEF Browser
  <2> HIDE DEF p
  <2>6. Sound(p)
    BY <1>1, <2>2, <2>3, <2>4, <2>5 DEF Sound, NoWider
  <2>7. p.recovery # NoRecovery
    BY <1>1, <2>2, <2>4, <2>5, Nothing DEF Sound
  <2>8. CASE NextCandidate(p, t)
    BY <1>1, <2>2, <2>5, <2>6, <2>7, <2>8, NextCandidateKeeps
  <2>9. CASE Msg(RecoveryError(pvc), mode, t, {}, {}) /\ dialog' = dialog
    <3>1. RecoveryError(pvc) \in Browser /\ SameInside(pvc, RecoveryError(pvc))
      BY <1>1 DEF RecoveryError, Browser, SameInside
    <3> QED
      BY <1>1, <2>9, <3>1, OnlySaid
  <2> QED
    BY <2>1, <2>8, <2>9
<1> QED
  BY <1>2, <1>3

\* A copy that is done lists the shown directory again.
LEMMA CopyDoneKeeps == ASSUME Inv, mode # "Quit", NEW t \in tasks, CopyDone(t) PROVE Inv'
<1> DEFINE q == OpenRemoteDir(pvc, pvc.displayed)
           r == Listing(q)
           T == tasks \ {t}
<1>1. /\ t.kind = "copy" /\ pvc \in Browser /\ Sound(pvc) /\ tasks \in SUBSET Requests
      /\ gen \in Nat /\ ctx \in Contexts /\ UNCHANGED <<world, cluster, under, dialog>>
      /\ mode \in Modes \ {"Quit"} /\ dialog \in Dialogs /\ pvc.displayed \in Dirs
  BY DEF CopyDone, Inv, Types, Browser
<1>2. UNCHANGED <<world, alive, home, warned, under, dialog>> /\ alive' \subseteq alive
  BY <1>1 DEF cluster
<1>3. CASE ~(t.gen = gen /\ pvc.active)
  <2>1. Msg(pvc, mode, t, {}, {}) /\ SameInside(pvc, pvc)
    BY <1>3 DEF CopyDone, SameInside
  <2> QED
    BY <1>1, <1>2, <2>1, OnlySaid
<1>4. CASE t.gen = gen /\ pvc.active
  <2>1. Msg(q, mode, t, {r}, {})
    BY <1>4 DEF CopyDone
  <2>2. /\ q \in Browser /\ q.active = pvc.active /\ q.first = pvc.first
        /\ q.recovery = pvc.recovery /\ q.entries = pvc.entries /\ q.run = pvc.run + 1
        /\ q.intent = pvc.intent /\ q.displayed = pvc.displayed /\ q.mount = pvc.mount
    BY <1>1, OpenRemoteDirIs
  <2> HIDE DEF q
  <2>3. /\ r \in Requests /\ r.kind = "list" /\ r.gen = gen /\ r.ctx = ctx
        /\ r.run = q.run /\ r.mount = q.mount
    BY <1>1, <2>2, RequestIs DEF Listing, Kinds, Browser
  <2> HIDE DEF r
  <2>4. T \in SUBSET Requests /\ T \in SUBSET tasks /\ Serving(T, pvc) /\ Placed(T, pvc, gen, ctx)
    BY <1>1, Fewer DEF Inv
  <2>5. Sound(q) /\ Serves(r, q)
    BY <1>1, <1>4, <2>2, <2>3 DEF Sound, Serves
  <2>6. switching = ctx
    BY <1>4 DEF Inv, Resting
  <2>7. Asked(mode, under, dialog) => Offered(T \cup {r}, q)
    <3>1. \A u \in T : u.run # q.run
      <4>1. \A u \in T : u.run \in Nat /\ pvc.run \in Nat /\ u.run <= pvc.run
        BY <1>1, <2>4 DEF Serving, Requests, Browser
      <4> QED
        BY <2>2, <4>1
    <3> QED
      BY <1>4, <2>2, <2>3, <3>1 DEF Inv, Offered
  <2> HIDE DEF T
  <2>8. Serving(T \cup {r}, q) /\ Placed(T \cup {r}, q, gen, ctx)
    <3>1. q.mount.helper => At(q.mount, ctx)
      BY <2>2, <2>4 DEF Placed
    <3> QED
      BY <1>1, <2>2, <2>3, <2>4, <2>5, <3>1, NewRun, NewPlaced
  <2>9. /\ Serving((tasks \ {t}) \cup {r}, q) /\ Placed((tasks \ {t}) \cup {r}, q, gen, ctx)
        /\ Asked(mode, under, dialog) => Offered((tasks \ {t}) \cup {r}, q)
        /\ {r} \in SUBSET Requests /\ {} \in SUBSET Deletes
    BY <2>3, <2>7, <2>8 DEF T
  <2> QED
    BY <1>1, <1>2, <2>1, <2>2, <2>5, <2>6, <2>9, Answered
<1> QED
  BY <1>3, <1>4

\* Every answer keeps the invariant.
LEMMA AnswersKeep == ASSUME Inv, Answers PROVE Inv'
<1>1. PICK t \in tasks :
        \/ \E up \in SUBSET Workloads : ResolveAnswers(t, up) \/ RecoveryAnswers(t, up)
        \/ PodCreated(t) \/ CreateRefused(t) \/ PodReady(t) \/ PodNeverReady(t)
        \/ ListingArrives(t) \/ ListingFails(t)
        \/ CopyDone(t) \/ CopyFails(t) \/ Cleaned(t)
  BY DEF Answers
<1>2. mode # "Quit"
  BY <1>1 DEF Inv
<1>3. SameInside(pvc, pvc) /\ pvc \in Browser
  BY DEF SameInside, Inv, Types
<1>4. CASE CopyFails(t)
  <2>1. /\ t.kind = "copy" /\ Msg(pvc, mode, t, {}, {})
        /\ UNCHANGED <<world, home, warned, under, dialog>> /\ alive' \subseteq alive
    BY <1>4 DEF CopyFails, cluster
  <2> QED
    BY <1>2, <1>3, <2>1, OnlySaid
<1>5. CASE Cleaned(t)
  <2>1. /\ t.kind = "clean" /\ Msg(pvc, mode, t, {}, {})
        /\ UNCHANGED <<world, home, warned, under, dialog>> /\ alive' \subseteq alive
    BY <1>5 DEF Cleaned
  <2> QED
    BY <1>2, <1>3, <2>1, OnlySaid
<1> QED
  BY <1>1, <1>2, <1>4, <1>5, ResolveAnswersKeeps, RecoveryAnswersKeeps, PodCreatedKeeps,
     PodStartsKeeps, ListingArrivesKeeps, ListingFailsKeeps, CopyDoneKeeps

-----------------------------------------------------------------------------
(* The other steps, and the theorems.                                      *)

\* A deletion deletes the helper it is for, and no other.
LEMMA DeleteRunsKeeps == ASSUME Inv, NEW d \in deletes, DeleteRuns(d) PROVE Inv'
<1>1. /\ deletes' = deletes \ {d} /\ alive' = {h \in alive : h # d.pod \/ home[h].ctx # d.ctx}
      /\ home' = home /\ warned' = warned /\ mode' = mode /\ under' = under
      /\ dialog' = dialog /\ pvc' = pvc /\ tasks' = tasks
      /\ ctx' = ctx /\ gen' = gen /\ switching' = switching
  BY DEF DeleteRuns, world
<1>2. Types' /\ DeletesPlaced' /\ mode # "Quit"
  BY <1>1 DEF Inv, Types, DeletesPlaced, At
<1>3. NoneForgotten'
  <2> SUFFICES ASSUME NEW h \in alive' PROVE Owned(h)' \/ h \in warned'
    BY DEF NoneForgotten
  <2>1. h \in alive /\ (h # d.pod \/ home[h].ctx # d.ctx) /\ (Owned(h) \/ h \in warned)
    BY <1>1, <1>2 DEF Inv, NoneForgotten
  <2> QED
    BY <1>1, <2>1 DEF Owned
<1>4. Placed(tasks, pvc, gen, ctx)' <=> Placed(tasks, pvc, gen, ctx)
  BY <1>1 DEF Placed, At
<1> QED
  BY <1>1, <1>2, <1>3, <1>4 DEF Inv

\* The cluster changes with nothing mounted.
LEMMA SwitchLandsKeeps == ASSUME Inv, mode # "Quit", SwitchLands PROVE Inv'
<1>1. /\ switching # ctx /\ ctx' = switching /\ switching' = switching /\ gen' = gen + 1
      /\ mode' \in {mode, "Table", "Away"} /\ pvc' = AfterMsg(pvc, mode') /\ deletes' = deletes \cup Dropped(pvc')
      /\ alive' = alive /\ home' = home /\ warned' = warned /\ under' = under
      /\ dialog' = dialog /\ tasks' = tasks
  BY DEF SwitchLands, cluster
<1>2. /\ pvc \in Browser /\ Sound(pvc) /\ Serving(tasks, pvc) /\ Placed(tasks, pvc, gen, ctx)
      /\ pvc.mount = NoMount /\ ~pvc.active /\ tasks \in SUBSET Requests /\ gen \in Nat
  BY <1>1 DEF Inv, Types, Resting
<1>3. pvc' = pvc /\ deletes' = deletes
  BY <1>1, <1>2, Nothing DEF AfterMsg, Dropped, DeleteOf
<1>4. Placed(tasks, pvc, gen + 1, switching)
  BY <1>2, Nothing, Later
<1>5. Types' /\ DeletesPlaced'
  BY <1>1, <1>2, <1>3 DEF Inv, Types, DeletesPlaced, At, Modes
<1>6. NoneForgotten'
  BY <1>1, <1>3 DEF Inv, NoneForgotten, Owned
<1>7. ~Asked(mode, under, dialog)
  BY <1>1 DEF Inv
<1>8. ~Asked(mode', under, dialog) /\ Placed(tasks, pvc, gen, ctx)'
  BY <1>1, <1>3, <1>4, <1>7 DEF Asked, Placed, At
<1> QED
  BY <1>1, <1>2, <1>3, <1>5, <1>6, <1>8 DEF Inv

\* It does not change, or only the table does.
LEMMA ElsewhereKeeps ==
  ASSUME Inv, mode # "Quit", SwitchFails \/ WatchRestarts PROVE Inv'
<1>1. /\ ctx' = ctx /\ switching' \in {switching, ctx} /\ gen' \in {gen, gen + 1}
      /\ alive' = alive /\ home' = home /\ warned' = warned /\ under' = under
      /\ dialog' = dialog /\ tasks' = tasks /\ mode' = mode /\ pvc' = pvc /\ deletes' = deletes
  BY DEF SwitchFails, WatchRestarts, cluster
<1>2. Placed(tasks, pvc, gen, ctx) /\ tasks \in SUBSET Requests /\ gen \in Nat
  BY DEF Inv, Types
<1>3. Placed(tasks, pvc, gen', ctx)
  BY <1>1, <1>2, Later
<1>4. Resting(tasks, pvc, gen) => Resting(tasks, pvc, gen')
  BY <1>1, <1>2, LaterRests DEF Resting
<1>5. Types' /\ DeletesPlaced' /\ NoneForgotten'
  BY <1>1, <1>2 DEF Inv, Types, DeletesPlaced, At, NoneForgotten, Owned
<1>6. Placed(tasks, pvc, gen, ctx)'
  BY <1>1, <1>3 DEF Placed, At
<1> QED
  BY <1>1, <1>4, <1>5, <1>6 DEF Inv

\* The invariant holds at the start.
LEMMA InvInit == Init => Inv
<1> SUFFICES ASSUME Init PROVE Inv
  OBVIOUS
<1>1. FirstContext \in Contexts
  BY PvcExploreAssumption DEF PvcExploreAssumption
<1>2. pvc \in Browser /\ ~pvc.active /\ pvc.first = NoMount /\ pvc.recovery = NoRecovery
      /\ pvc.entries = NoEntries /\ pvc.mount = NoMount
  BY Nothing DEF Init, Browser
<1>3. Types
  BY <1>1, <1>2 DEF Init, Types, Modes, Dialogs, NoDialog
<1>4. Sound(pvc) /\ Serving(tasks, pvc) /\ Placed(tasks, pvc, gen, ctx)
  BY <1>2, Nothing DEF Init, Sound, Serving, Placed
<1>5. DeletesPlaced /\ NoneForgotten /\ ~Asked(mode, under, dialog)
  BY DEF Init, DeletesPlaced, NoneForgotten, Asked, NoDialog
<1> QED
  BY <1>2, <1>3, <1>4, <1>5 DEF Inv, Init

\* Every step keeps it.
LEMMA InvStep == Inv /\ [Next]_vars => Inv'
<1> SUFFICES ASSUME Inv, [Next]_vars PROVE Inv'
  OBVIOUS
<1>1. CASE Keys
  BY <1>1, KeysKeep
<1>2. CASE Answers
  BY <1>2, AnswersKeep
<1>3. CASE Deletions
  BY <1>3, DeleteRunsKeeps DEF Deletions
<1>4. CASE Running /\ (SwitchLands \/ SwitchFails \/ WatchRestarts)
  BY <1>4, SwitchLandsKeeps, ElsewhereKeeps DEF Running
<1>5. CASE UNCHANGED vars
  <2>1. /\ ctx' = ctx /\ switching' = switching /\ gen' = gen
        /\ alive' = alive /\ home' = home /\ warned' = warned /\ under' = under
        /\ dialog' = dialog /\ tasks' = tasks /\ mode' = mode /\ pvc' = pvc
        /\ deletes' = deletes
    BY <1>5 DEF vars
  <2> QED
    BY <2>1 DEF Inv, Types, DeletesPlaced, NoneForgotten, Owned, Placed, At
<1> QED
  BY <1>1, <1>2, <1>3, <1>4, <1>5 DEF Next

\* The inductive invariant holds always.
THEOREM PvcInvariant == Spec => []Inv
  BY InvInit, InvStep, PTL DEF Spec

\* The browser's state has its type (pvcexplore.rs).
THEOREM PvcTypes == Spec => []TypeOK
<1>1. Inv => TypeOK
  BY DEF Inv, Types, TypeOK, Browser, Modes
<1> QED
  BY <1>1, PvcInvariant, PTL

\* No helper pod is forgotten, and nothing else is deleted: whoever gives one up
\* (leave_pvc_explore, discard_pvc_target, after_suspend, enter_pvc_target) hands it to
\* a deletion in its own cluster, or tells the user it is left behind.
THEOREM NoHelperForgotten == Spec => []HelpersAccounted
<1>1. Inv => HelpersAccounted
  BY DEF Inv, HelpersAccounted, NoneForgotten, DeletesPlaced, At, Running
<1> QED
  BY <1>1, PvcInvariant, PTL

\* Whatever listings arrive late, the rows shown are those of the pod and directory
\* that copies and shells act on (handle_pvc_listing).
THEOREM PaneIsItsOwn == Spec => []PaneShowsItsOwn
<1>1. Inv => PaneShowsItsOwn
  BY DEF Inv, PaneShowsItsOwn, Sound, Running
<1> QED
  BY <1>1, PvcInvariant, PTL

\* No path of the recovery mounts more of the volume, or mounts it more freely, than
\* the claim was opened with (recovery_plan, next_pvc_candidate, apply_helper_options).
THEOREM RecoveryStaysNarrow == Spec => []RecoveryNeverWidens
<1>1. Inv => RecoveryNeverWidens
  BY DEF Inv, RecoveryNeverWidens, Sound, NoWider, Running
<1> QED
  BY <1>1, PvcInvariant, PTL

-----------------------------------------------------------------------------
(* Plugins on the disk (PluginInstall).                                    *)

PluginId(p) == IF op = "remove" THEN p ELSE p.id
Fetching == {"fetch", "mark", "extract", "record"}
Replacing == {"claim", "setAside", "swap"}
InRecovery == {"recover", "claimRetire", "retireOld"}
Steps == {"idle", "end", "install", "update", "prepare", "dropAll", "activate", "unmark", "retire",
          "remove", "claimRemove", "takeOut", "erase"} \cup InRecovery \cup Fetching \cup Replacing

\* What a new command recovers first.
Recovers == pc \in InRecovery \/ next = "recover"
Removes == pc \in {"remove", "claimRemove", "takeOut"} \/ next = "takeOut"
Activates ==
  pc \in Replacing \cup {"activate", "unmark", "retire"} \/ next = "activate"

Leftover == [kind : Install!Kinds, id : Ids, run : Nat, dir : Install!Dir]
Prepared == [package : Install!Packages, staged : BOOLEAN]
AskedFor == [id : Ids, version : Nat]
Typed ==
  /\ active \in [Ids -> Install!Dir \cup {Missing}] /\ left \subseteq Leftover
  /\ trash \in {"none", "empty", "ours", "foreign"}
  /\ index \in Indexes \cup {Missing} /\ offered \in Indexes \cup {Missing}
  /\ op \in {"none", "install", "update", "remove"}
  /\ requests \subseteq AskedFor /\ entries \subseteq left /\ prepared \subseteq Prepared
  /\ cur \in Install!Packages \cup {Missing} /\ victim \in left \cup {Missing}

\* What is at work fits the step.
Control ==
  /\ pc \in Steps /\ next \in {"idle", "recover", "dropAll", "activate", "takeOut"}
  /\ (pc = "erase" <=> next # "idle") /\ (pc = "idle" <=> op = "none")
  /\ commands \in Nat /\ \A l \in left : l.run <= commands
  /\ todo \subseteq IF op = "remove" THEN Ids ELSE Install!Packages
  /\ pc \in Fetching \cup Replacing \cup {"unmark", "retire"} => cur \in Install!Packages
  /\ op = "install" /\ (Recovers \/ pc = "install") => offered \in Indexes
  /\ pc = "install" => op = "install"
  /\ pc = "update" => op = "update"
  /\ Removes => op = "remove"
  /\ pc \in {"prepare", "dropAll"} \cup Fetching \/ Activates \/ next = "dropAll" => op # "remove"

SameSlot(l, m) == l.id = m.id /\ l.run = m.run /\ (l.kind = "stage" <=> m.kind = "stage")

\* Directories are told apart by their kind, their plugin and the command that left them.
Apart ==
  /\ \A l, m \in left : SameSlot(l, m) => l = m
  /\ \A l, m \in left : l.kind = "backup" /\ m.kind = "backup" /\ l.id = m.id => l = m

\* The directory being deleted or retired.
Victim ==
  /\ pc \notin {"erase", "claimRetire", "retireOld", "end"} => victim = Missing
  /\ pc = "erase" =>
       /\ victim \in left \ entries /\ victim.kind # "backup"
       /\ next # "recover" => victim.run = commands
       /\ victim.kind = "stage" => \A q \in prepared : q.staged => q.package.id # victim.id
  /\ pc \in {"claimRetire", "retireOld"} =>
       victim \in left \ entries /\ victim.kind = "backup" /\ active[victim.id] # Missing

\* What earlier commands left.
IsBare(l) == l.kind = "stage" /\ ~l.dir.marker
Earlier ==
  /\ Recovers => \A l \in left :
       l.run < commands /\ (l \in entries \/ (pc # "recover" /\ l = victim) \/ IsBare(l))
  /\ Recovers \/ pc \in {"idle", "install", "update", "remove"} => todo = {} /\ prepared = {}
  /\ Removes => prepared = {}
  /\ pc \in {"install", "update", "remove"} => \A l \in left : l.run < commands
  /\ ~Recovers /\ pc \notin {"idle", "end"} =>
       entries = {} /\ \A l \in left : l.run < commands => IsBare(l)

\* The requests of a command, and the packages of a batch, are of different plugins.
OnePerPlugin ==
  /\ \A q, r \in requests : q.id = r.id => q = r
  /\ op # "remove" =>
       /\ \A p, q \in todo : p.id = q.id => p = q
       /\ \A p \in todo : \A q \in prepared : p.id # q.package.id
       /\ pc \in Fetching => \A p \in todo : p.id # cur.id
  /\ \A q, r \in prepared : q.package.id = r.package.id => q = r
  /\ pc \in Fetching => \A q \in prepared : q.package.id # cur.id
  /\ pc \in Replacing => [package |-> cur, staged |-> TRUE] \in prepared
  /\ Activates => todo = {}

\* The stages of this command.
Ready(p) == [package |-> p, record |-> TRUE, marker |-> TRUE, files |-> "whole"]
Stage(l) ==
  /\ \A p \in todo : l.id # PluginId(p)
  /\ \A q \in prepared : q.staged /\ l.id = q.package.id => l.dir = Ready(q.package)
  /\ pc \in Fetching /\ l.id = cur.id =>
       /\ pc # "fetch"
       /\ pc = "mark" =>
            l.dir = [package |-> cur, record |-> FALSE, marker |-> FALSE, files |-> "partial"]
       /\ pc = "extract" =>
            l.dir = [package |-> cur, record |-> FALSE, marker |-> TRUE, files |-> "partial"]
       /\ pc = "record" =>
            l.dir = [package |-> cur, record |-> FALSE, marker |-> TRUE, files |-> "whole"]

\* What this command set aside.
Aside(l) ==
  /\ \A p \in todo : l.id # PluginId(p)
  /\ pc \in Fetching => l.id # cur.id
  /\ \A q \in prepared : q.staged /\ l.id = q.package.id =>
       pc = "swap" /\ q.package = cur /\ l.kind = "backup"

Own ==
  \A l \in left : l.run = commands =>
    /\ IF l.kind = "stage" THEN Stage(l) ELSE Aside(l)
    /\ op = "remove" => l.kind = "removed"

\* Nothing is loaded or kept that is not all there.
AllThere ==
  /\ \A i \in Ids : active[i] # Missing => active[i].files # "partial"
  /\ \A l \in left : l.kind = "backup" =>
       /\ l.dir.record /\ l.dir.files = "whole"
       /\ active[l.id] # Missing => active[l.id].record \/ active[l.id].files = "owners"
  /\ pc \in {"claim", "setAside"} => Install!Intact(cur.id)
  /\ pc \in {"unmark", "retire"} => active[cur.id] # Missing
  /\ pc \in {"claimRemove", "takeOut"} \/ next = "takeOut" => \A i \in todo : Install!Intact(i)

PluginInv ==
  Typed /\ Control /\ Apart /\ Victim /\ Earlier /\ OnePerPlugin /\ Own /\ AllThere


USE DEF Steps, InRecovery, Fetching, Replacing, Recovers, Removes, Activates

\* What a directory can become is a directory.
LEMMA DirsAre ==
  /\ Install!Manual \in Install!Dir
  /\ \A p \in Install!Packages, m \in BOOLEAN :
       [package |-> p, record |-> FALSE, marker |-> m, files |-> "partial"] \in Install!Dir
  /\ \A d \in Install!Dir :
       /\ Install!Eroded(d) \subseteq Install!Dir /\ d # Missing
       /\ Install!Marked(d) \in Install!Dir /\ Install!Unpacked(d) \in Install!Dir
       /\ Install!Recorded(d) \in Install!Dir /\ [d EXCEPT !.marker = FALSE] \in Install!Dir
       /\ [d EXCEPT !.files = "owners"] \in Install!Dir
       /\ d.record \in BOOLEAN /\ d.marker \in BOOLEAN
       /\ d.files \in {"whole", "partial", "owners"}
BY PluginsAssumption DEF Install!InstallAssumption, Install!Dir, Install!Manual, Install!Eroded,
   Install!Marked, Install!Unpacked, Install!Recorded

\* A package is its three fields, and a plugin's id one of Ids.
LEMMA PackagesAre ==
  \A p \in Install!Packages :
    /\ p.id \in Ids /\ p.version \in Nat /\ p # Missing
    /\ p = [id |-> p.id, version |-> p.version, source |-> p.source]
BY PluginsAssumption DEF Install!InstallAssumption, Install!Packages, Install!Listed

\* A selection is one package at most, of the plugin that was asked for.
LEMMA Selected ==
  ASSUME NEW idx \in Indexes, NEW own \in SUBSET idx, NEW i \in Ids, NEW v \in Nat,
         NEW p \in Install!Select(own, [id |-> i, version |-> v])
  PROVE  /\ p \in Install!Packages /\ p.id = i
         /\ \A q \in Install!Select(own, [id |-> i, version |-> v]) : q = p
<1> DEFINE listed == Install!Of(own, i)
           stable == {r \in listed : Install!Compatible(r)}
           named == {r \in listed : r.version = v /\ r.active /\ r.fits}
           chosen == IF v # 0 THEN named ELSE Install!Newest(stable)
<1>1. listed \subseteq Install!Listed /\ \A r \in listed : r.id = i
  BY DEF Install!Of, Install!Listed
<1>2. /\ \A r, s \in listed : r.source = s.source
      /\ Install!Select(own, [id |-> i, version |-> v]) = {Install!Package(r) : r \in chosen}
  BY DEF Install!Select
<1>3. \A r \in listed : r.version \in Nat
  BY <1>1, PluginsAssumption DEF Install!InstallAssumption
<1>4. chosen \subseteq listed /\ \A r, s \in chosen : r.version = s.version
  <2>1. CASE v # 0
    BY <2>1
  <2>2. CASE v = 0
    <3>1. Install!Newest(stable) \subseteq stable /\ stable \subseteq listed
      BY DEF Install!Newest
    <3>2. \A r, s \in Install!Newest(stable) : r.version <= s.version /\ s.version <= r.version
      BY DEF Install!Newest
    <3> QED
      BY <1>3, <2>2, <3>1, <3>2
  <2> QED
    BY <2>1, <2>2
<1>5. PICK r \in chosen : p = Install!Package(r)
  BY <1>2
<1>6. ASSUME NEW s \in chosen
      PROVE  Install!Package(s) = p /\ Install!Package(s).id = i
  BY <1>1, <1>2, <1>4, <1>5 DEF Install!Package
<1>7. p \in Install!Packages
  BY <1>1, <1>4, <1>5 DEF Install!Packages, Install!Package
<1> QED
  BY <1>2, <1>5, <1>6, <1>7

\* What is left over can change its kind and its directory.
LEMMA LeftsAre ==
  /\ \A l \in Leftover :
       /\ l.kind \in Install!Kinds /\ l.id \in Ids /\ l.run \in Nat /\ l.dir \in Install!Dir
       /\ LET gone == [l EXCEPT !.kind = "removed"]
          IN  /\ gone \in Leftover /\ gone.kind = "removed"
              /\ gone.id = l.id /\ gone.run = l.run /\ gone.dir = l.dir
       /\ \A d \in Install!Dir :
            LET new == [l EXCEPT !.dir = d]
            IN  /\ new \in Leftover /\ new.dir = d
                /\ new.kind = l.kind /\ new.id = l.id /\ new.run = l.run
  /\ \A k \in Install!Kinds, i \in Ids, r \in Nat, d \in Install!Dir :
       [kind |-> k, id |-> i, run |-> r, dir |-> d] \in Leftover
  /\ \A q \in Prepared : q.package \in Install!Packages /\ q.staged \in BOOLEAN
  /\ \A p \in Install!Packages, b \in BOOLEAN : [package |-> p, staged |-> b] \in Prepared
BY DEF Leftover, Install!Kinds, Prepared

\* Two directories with the same content.
LEMMA SameDir ==
  ASSUME NEW d \in Install!Dir, NEW e \in Install!Dir, d.package = e.package,
         d.record <=> e.record, d.marker <=> e.marker, d.files = e.files
  PROVE  d = e
BY DEF Install!Dir

\* The three steps of a stage.
LEMMA Stages ==
  ASSUME NEW d \in Install!Dir
  PROVE  /\ Install!Marked(d) =
              [package |-> d.package, record |-> d.record, marker |-> TRUE, files |-> d.files]
         /\ Install!Unpacked(d) =
              [package |-> d.package, record |-> d.record, marker |-> d.marker, files |-> "whole"]
         /\ Install!Recorded(d) =
              [package |-> d.package, record |-> TRUE, marker |-> d.marker, files |-> d.files]
<1>1. Install!Marked(d) =
        [package |-> d.package, record |-> d.record, marker |-> TRUE, files |-> d.files]
  <2> DEFINE e == [package |-> d.package, record |-> d.record, marker |-> TRUE, files |-> d.files]
  <2>1. /\ e \in Install!Dir /\ Install!Marked(d) \in Install!Dir
        /\ Install!Marked(d).package = e.package /\ (Install!Marked(d).record <=> e.record)
        /\ (Install!Marked(d).marker <=> e.marker) /\ Install!Marked(d).files = e.files
    BY DEF Install!Dir, Install!Marked
  <2> HIDE DEF e
  <2> QED
    BY <2>1, SameDir DEF e
<1>2. Install!Unpacked(d) =
        [package |-> d.package, record |-> d.record, marker |-> d.marker, files |-> "whole"]
  <2> DEFINE e ==
    [package |-> d.package, record |-> d.record, marker |-> d.marker, files |-> "whole"]
  <2>1. /\ e \in Install!Dir /\ Install!Unpacked(d) \in Install!Dir
        /\ Install!Unpacked(d).package = e.package /\ (Install!Unpacked(d).record <=> e.record)
        /\ (Install!Unpacked(d).marker <=> e.marker) /\ Install!Unpacked(d).files = e.files
    BY DEF Install!Dir, Install!Unpacked
  <2> HIDE DEF e
  <2> QED
    BY <2>1, SameDir DEF e
<1>3. Install!Recorded(d) =
        [package |-> d.package, record |-> TRUE, marker |-> d.marker, files |-> d.files]
  <2> DEFINE e == [package |-> d.package, record |-> TRUE, marker |-> d.marker, files |-> d.files]
  <2>1. /\ e \in Install!Dir /\ Install!Recorded(d) \in Install!Dir
        /\ Install!Recorded(d).package = e.package /\ (Install!Recorded(d).record <=> e.record)
        /\ (Install!Recorded(d).marker <=> e.marker) /\ Install!Recorded(d).files = e.files
    BY DEF Install!Dir, Install!Recorded
  <2> HIDE DEF e
  <2> QED
    BY <2>1, SameDir DEF e
<1> QED
  BY <1>1, <1>2, <1>3

\* A directory that becomes another one keeps its place.
LEMMA Redone ==
  ASSUME Typed, Apart, NEW l \in left, l.kind # "backup", NEW d \in Install!Dir,
         left' = (left \ {l}) \cup {[l EXCEPT !.dir = d]}
  PROVE  /\ left' \subseteq Leftover /\ Apart'
         /\ \A m \in left' : m = [l EXCEPT !.dir = d] \/ (m \in left /\ m # l /\ ~SameSlot(l, m))
<1> DEFINE new == [l EXCEPT !.dir = d]
<1>1. /\ new \in Leftover /\ new.kind = l.kind /\ new.id = l.id /\ new.run = l.run
      /\ left \subseteq Leftover
  BY LeftsAre DEF Typed
<1> HIDE DEF new
<1>2. \A m \in left' : m = new \/ (m \in left /\ m # l /\ ~SameSlot(l, m))
  BY DEF Apart, new
<1>3. \A m \in left : ~SameSlot(l, m) => ~SameSlot(new, m) /\ ~SameSlot(m, new)
  BY <1>1 DEF SameSlot
<1>4. Apart'
  BY <1>1, <1>2, <1>3 DEF Apart, SameSlot
<1> QED
  BY <1>1, <1>2, <1>4 DEF new

\* A directory in a place of its own.
LEMMA Added ==
  ASSUME Typed, Apart, NEW l \in Leftover, \A m \in left : ~SameSlot(l, m),
         l.kind = "backup" => \A m \in left : m.kind = "backup" => m.id # l.id,
         left' = left \cup {l}
  PROVE  left' \subseteq Leftover /\ Apart'
<1>1. \A m \in left : ~SameSlot(l, m) /\ ~SameSlot(m, l)
  BY DEF SameSlot
<1> QED
  BY <1>1 DEF Typed, Apart

\* A backup that is retired.
LEMMA Retired ==
  ASSUME Typed, Apart, NEW l \in left, l.kind = "backup",
         left' = (left \ {l}) \cup {[l EXCEPT !.kind = "removed"]}
  PROVE  /\ left' \subseteq Leftover /\ Apart'
         /\ \A m \in left' :
              m = [l EXCEPT !.kind = "removed"] \/ (m \in left /\ m # l /\ ~SameSlot(l, m))
         /\ [l EXCEPT !.kind = "removed"] \notin left
<1> DEFINE new == [l EXCEPT !.kind = "removed"]
<1>1. /\ new \in Leftover /\ new.kind = "removed" /\ new.id = l.id /\ new.run = l.run
      /\ left \subseteq Leftover
  BY LeftsAre DEF Typed
<1> HIDE DEF new
<1>2. \A m \in left' : m = new \/ (m \in left /\ m # l /\ ~SameSlot(l, m))
  BY DEF Apart, new
<1>3. SameSlot(l, new) /\ new # l
  BY <1>1 DEF SameSlot
<1>4. \A m \in left : ~SameSlot(l, m) => ~SameSlot(new, m) /\ ~SameSlot(m, new)
  BY <1>1 DEF SameSlot
<1>5. Apart'
  BY <1>1, <1>2, <1>4 DEF Apart, SameSlot
<1>6. new \notin left
  BY <1>3 DEF Apart
<1> QED
  BY <1>1, <1>2, <1>5, <1>6 DEF new

\* A staged package is one that was prepared.
LEMMA IsStaged ==
  ASSUME NEW q \in Prepared
  PROVE  /\ q.package \in Install!Packages
         /\ q.staged => q = [package |-> q.package, staged |-> TRUE]
<1>1. \A r \in Prepared : q.package = r.package /\ (q.staged <=> r.staged) => q = r
  BY DEF Prepared
<1>2. q.package \in Install!Packages
  BY DEF Prepared
<1> DEFINE r == [package |-> q.package, staged |-> TRUE]
<1>3. r \in Prepared /\ r.package = q.package /\ r.staged
  BY <1>2 DEF Prepared
<1> HIDE DEF r
<1> QED
  BY <1>1, <1>2, <1>3 DEF r

\* A package that is given up is not activated, and its stage is deleted.
LEMMA GivesUp ==
  ASSUME PluginInv, NEW p \in Install!Packages, [package |-> p, staged |-> TRUE] \in prepared,
         Install!GiveUp(p)
  PROVE  /\ pc' = "erase" /\ next' = "activate" /\ cur' = Missing /\ prepared' \subseteq prepared
         /\ victim' \in left /\ victim'.kind = "stage" /\ victim'.id = p.id
         /\ victim'.run = commands
         /\ \A q \in prepared' : q.package.id # p.id
<1> DEFINE r == [package |-> p, staged |-> TRUE]
<1>1. r \in prepared /\ r.package = p /\ prepared' = prepared \ {r}
  BY DEF Install!GiveUp
<1> HIDE DEF r
<1>2. \A q \in prepared' : q.package.id # p.id
  BY <1>1 DEF PluginInv, OnePerPlugin
<1> QED
  BY <1>1, <1>2 DEF Install!GiveUp, Install!OwnStage, Install!Erase

\* A command begins, with what it finds to recover.
Begins ==
  /\ pc = "idle" /\ pc' = "recover" /\ commands' = commands + 1 /\ entries' = left
  /\ op' \in {"install", "update", "remove"} /\ requests' \subseteq AskedFor
  /\ \A q, r \in requests' : q.id = r.id => q = r
  /\ index' \in Indexes \cup {Missing} /\ offered' \in Indexes \cup {Missing}
  /\ op' = "install" => offered' \in Indexes
  /\ UNCHANGED <<active, left, trash, todo, prepared, cur, victim, next>>
LEMMA BeginsWell == ASSUME PluginInv, Begins PROVE PluginInv'
<1>1. /\ commands \in Nat /\ commands' \in Nat /\ left \subseteq Leftover
      /\ next = "idle" /\ victim = Missing /\ todo = {} /\ prepared = {}
      /\ \A l \in left : l.run <= commands /\ l.run \in Nat
  <2>1. left \subseteq Leftover /\ commands \in Nat /\ commands' \in Nat
    BY DEF PluginInv, Typed, Control, Begins
  <2>2. \A l \in left : l.run <= commands /\ l.run \in Nat
    BY <2>1, LeftsAre DEF PluginInv, Control
  <2>3. next = "idle" /\ victim = Missing /\ todo = {} /\ prepared = {}
    BY DEF PluginInv, Control, Victim, Earlier, Begins
  <2> QED
    BY <2>1, <2>2, <2>3
<1>2. \A l \in left : l.run < commands'
  BY <1>1 DEF Begins
<1>typed. Typed'
  BY <1>1 DEF PluginInv, Typed, Begins
<1>control. Control'
  BY <1>1, <1>2 DEF PluginInv, Control, Begins
<1>apart. Apart'
  BY DEF PluginInv, Apart, Begins
<1>victim. Victim'
  BY <1>1 DEF PluginInv, Victim, Begins
<1>earlier. Earlier'
  BY <1>1, <1>2 DEF Earlier, Begins
<1>batch. OnePerPlugin'
  BY <1>1 DEF PluginInv, OnePerPlugin, Begins
<1>own. Own'
  BY <1>1, <1>2 DEF Own, Begins
<1>sound. AllThere'
  BY <1>1 DEF PluginInv, AllThere, Begins
<1> QED
  BY <1>typed, <1>control, <1>apart, <1>victim, <1>earlier, <1>batch, <1>own, <1>sound DEF PluginInv

\* What an update prepares: of each plugin asked for, one package at most.
LEMMA Updated ==
  ASSUME requests \subseteq AskedFor, NEW idx \in Indexes, NEW p \in Install!Updates(idx)
  PROVE  p \in Install!Packages /\ \A q \in Install!Updates(idx) : p.id = q.id => p = q
<1> DEFINE own(i) == {r \in idx : r.source = active[i].package.source}
           best(i) == Install!Select(own(i), [id |-> i, version |-> 0])
<1>1. \A q \in Install!Updates(idx) : \E i \in Ids : q \in best(i)
  BY DEF Install!Updates
<1>2. \A i \in Ids : own(i) \in SUBSET idx
  OBVIOUS
<1>3. \A i \in Ids : \A q \in best(i) :
        q \in Install!Packages /\ q.id = i /\ \A r \in best(i) : r = q
  BY <1>2, Selected
<1> HIDE DEF best
<1> QED
  BY <1>1, <1>3


\* An install begins, with an index to select from.
LEMMA StartInstallStep == ASSUME PluginInv, Install!StartInstall PROVE PluginInv'
<1>1. requests' \subseteq AskedFor
  BY PackagesAre DEF Install!StartInstall, Install!Begin, Install!Requests, AskedFor
<1>2. /\ offered' \in Indexes /\ index' \in Indexes \cup {Missing}
  BY DEF PluginInv, Typed, Install!StartInstall, Install!Load
<1>3. op = "none" <=> pc = "idle"
  BY DEF PluginInv, Control
<1> QED
  BY <1>1, <1>2, <1>3, BeginsWell DEF Begins, Install!StartInstall, Install!Begin, Install!disk

\* An update or a removal begins.
LEMMA StartOtherStep == ASSUME PluginInv, Install!StartOther PROVE PluginInv'
<1>1. PICK o \in {"update", "remove"}, ids \in SUBSET Ids \ {{}} :
        Install!Begin(o, [id : ids, version : {0}]) /\ UNCHANGED <<index, offered>>
  BY DEF Install!StartOther
<1>2. requests' \subseteq AskedFor /\ \A q, r \in requests' : q.id = r.id => q = r
  BY <1>1 DEF Install!Begin, AskedFor
<1>3. /\ op = "none" <=> pc = "idle"
      /\ index \in Indexes \cup {Missing} /\ offered \in Indexes \cup {Missing}
  BY DEF PluginInv, Control, Typed
<1> QED
  BY <1>1, <1>2, <1>3, BeginsWell DEF Begins, Install!Begin, Install!disk

\* A directory being deleted loses something.
LEMMA ErodeStepStep == ASSUME PluginInv, Install!ErodeStep PROVE PluginInv'
<1>1. PICK d \in Install!Eroded(victim.dir) :
        /\ victim' = [victim EXCEPT !.dir = d]
        /\ left' = (left \ {victim}) \cup {[victim EXCEPT !.dir = d]}
  BY DEF Install!ErodeStep
<1>2. /\ pc = "erase" /\ pc' = "erase"
      /\ UNCHANGED <<active, trash, index, op, offered, requests, todo, entries, prepared, cur,
                     next, commands>>
  BY DEF Install!ErodeStep, Install!plan, Install!bounds
<1>3. /\ victim \in left \ entries /\ victim.kind # "backup" /\ victim \in Leftover
      /\ victim.kind = "stage" => \A q \in prepared : q.staged => q.package.id # victim.id
      /\ next # "recover" => victim.run = commands
  BY <1>2 DEF PluginInv, Typed, Victim
<1>4. d \in Install!Dir /\ d # victim.dir
  <2>1. victim.dir \in Install!Dir /\ d # victim.dir
    BY <1>1, <1>3, LeftsAre DEF Install!Eroded
  <2> QED
    BY <1>1, <2>1, DirsAre
<1>5. /\ victim' \in Leftover /\ victim'.kind = victim.kind /\ victim'.id = victim.id
      /\ victim'.run = victim.run /\ victim'.dir = d
  BY <1>1, <1>3, <1>4, LeftsAre
<1>6. /\ left' \subseteq Leftover /\ Apart'
      /\ \A m \in left' : m = victim' \/ (m \in left /\ m # victim /\ ~SameSlot(victim, m))
      /\ victim' \in left' /\ \A m \in left : m # victim => m \in left'
  BY <1>1, <1>3, <1>4, Redone DEF PluginInv
<1>7. victim' \notin left
  <2>1. SameSlot(victim, victim') /\ victim' # victim
    BY <1>4, <1>5 DEF SameSlot
  <2> QED
    BY <1>3, <2>1 DEF PluginInv, Apart
<1>typed. Typed'
  <2>1. entries \subseteq left'
    BY <1>3, <1>6 DEF PluginInv, Typed
  <2> QED
    BY <1>2, <1>6, <2>1 DEF PluginInv, Typed
<1>control. Control'
  <2>1. \A m \in left' : m.run <= commands
    BY <1>3, <1>5, <1>6 DEF PluginInv, Control
  <2> QED
    BY <1>2, <2>1 DEF PluginInv, Control
<1>apart. Apart'
  BY <1>6
<1>victim. Victim'
  <2>1. victim' \notin entries
    BY <1>7 DEF PluginInv, Typed
  <2> QED
    BY <1>2, <1>3, <1>5, <1>6, <2>1 DEF Victim
<1>earlier. Earlier'
  <2>1. CASE next = "recover"
    BY <1>2, <1>3, <1>5, <1>6, <2>1 DEF PluginInv, Earlier
  <2>2. CASE next # "recover"
    <3>1. commands \in Nat
      BY DEF PluginInv, Control
    <3> QED
      BY <1>2, <1>3, <1>5, <1>6, <2>2, <3>1 DEF PluginInv, Earlier, IsBare
  <2> QED
    BY <2>1, <2>2
<1>batch. OnePerPlugin'
  BY DEF PluginInv, OnePerPlugin, Install!ErodeStep, Install!plan
<1>own. Own'
  <2> SUFFICES ASSUME NEW m \in left', m.run = commands
               PROVE  /\ (IF m.kind = "stage" THEN Stage(m) ELSE Aside(m))'
                      /\ op = "remove" => m.kind = "removed"
    BY <1>2 DEF Own
  <2>1. CASE m = victim'
    <3>1. /\ IF victim.kind = "stage" THEN Stage(victim) ELSE Aside(victim)
          /\ op = "remove" => victim.kind = "removed"
      BY <1>3, <1>5, <2>1 DEF PluginInv, Own
    <3> QED
      BY <1>2, <1>3, <1>5, <2>1, <3>1 DEF Stage, Aside, PluginId
  <2>2. CASE m \in left
    BY <1>2, <2>2 DEF PluginInv, Own, Stage, Aside, PluginId
  <2> QED
    BY <1>6, <2>1, <2>2
<1>sound. AllThere'
  <2>1. \A m \in left' : m.kind = "backup" => m \in left
    BY <1>3, <1>5, <1>6
  <2> QED
    BY <1>2, <2>1 DEF PluginInv, AllThere, Install!Intact
<1> QED
  BY <1>typed, <1>control, <1>apart, <1>victim, <1>earlier, <1>batch, <1>own, <1>sound DEF PluginInv

\* A directory is deleted.
LEMMA ErasedStep == ASSUME PluginInv, Install!Erased PROVE PluginInv'
<1>typed. Typed'
  BY DEF PluginInv, Typed, Victim, Install!Erased, Install!plan
<1>control. Control'
  BY DEF PluginInv, Control, Install!Erased, Install!bounds, Install!plan
<1>apart. Apart'
  BY DEF PluginInv, Apart, Install!Erased
<1>victim. Victim'
  BY DEF PluginInv, Victim, Control, Install!Erased
<1>earlier. Earlier'
  BY DEF PluginInv, Earlier, Control, Install!Erased, Install!bounds, Install!plan
<1>batch. OnePerPlugin'
  BY DEF PluginInv, OnePerPlugin, Control, Install!Erased, Install!plan
<1>own. Own'
  BY DEF PluginInv, Own, Stage, Aside, PluginId, Control, Install!Erased, Install!bounds,
     Install!plan
<1>sound. AllThere'
  BY DEF PluginInv, AllThere, Install!Intact, Control, Install!Erased, Install!plan
<1> QED
  BY <1>typed, <1>control, <1>apart, <1>victim, <1>earlier, <1>batch, <1>own, <1>sound DEF PluginInv

\* A deletion fails: what it did not get to stays.
LEMMA EraseFailsStep == ASSUME PluginInv, Install!EraseFails PROVE PluginInv'
<1>typed. Typed'
  BY DEF PluginInv, Typed, Install!EraseFails, Install!plan, Install!disk
<1>control. Control'
  BY DEF PluginInv, Control, Install!EraseFails, Install!Rest, Install!plan, Install!disk
<1>apart. Apart'
  BY DEF PluginInv, Apart, Install!EraseFails, Install!disk
<1>victim. Victim'
  BY DEF PluginInv, Victim, Control, Install!EraseFails
<1>earlier. Earlier'
  BY DEF PluginInv, Earlier, Control, Install!EraseFails, Install!Rest, Install!disk
<1>batch. OnePerPlugin'
  BY DEF PluginInv, OnePerPlugin, Control, Install!EraseFails, Install!plan
<1>own. Own'
  BY DEF PluginInv, Own, Stage, Aside, PluginId, Control, Install!EraseFails, Install!Rest,
     Install!plan, Install!disk
<1>sound. AllThere'
  BY DEF PluginInv, AllThere, Control, Install!EraseFails, Install!disk
<1> QED
  BY <1>typed, <1>control, <1>apart, <1>victim, <1>earlier, <1>batch, <1>own, <1>sound DEF PluginInv

\* A command ends.
LEMMA FinishStep == ASSUME PluginInv, Install!Finish PROVE PluginInv'
<1>typed. Typed'
  BY DEF PluginInv, Typed, Install!Finish, Install!End, Install!disk, Install!Clear
<1>control. Control'
  BY DEF PluginInv, Control, Install!Finish, Install!End, Install!bounds, Install!disk,
     Install!Clear
<1>apart. Apart'
  BY DEF PluginInv, Apart, Install!Finish, Install!End, Install!disk
<1>victim. Victim'
  BY DEF Victim, Install!Finish, Install!End, Install!Clear
<1>earlier. Earlier'
  BY DEF Earlier, Install!Finish, Install!End, Install!Clear
<1>batch. OnePerPlugin'
  BY DEF OnePerPlugin, Install!Finish, Install!End, Install!Clear
<1>own. Own'
  BY DEF Own, Stage, Aside, Install!Finish, Install!End, Install!Clear
<1>sound. AllThere'
  BY DEF PluginInv, AllThere, Install!Finish, Install!End, Install!disk, Install!Clear
<1> QED
  BY <1>typed, <1>control, <1>apart, <1>victim, <1>earlier, <1>batch, <1>own, <1>sound DEF PluginInv

\* The trash is made, marked, or found to be marked.
LEMMA ClaimTrashStep == ASSUME PluginInv, Install!ClaimTrash PROVE PluginInv'
<1>typed. Typed'
  BY DEF PluginInv, Typed, Install!ClaimTrash, Install!plan
<1>control. Control'
  BY DEF PluginInv, Control, Install!ClaimTrash, Install!Rest, Install!plan
<1>apart. Apart'
  BY DEF PluginInv, Apart, Install!ClaimTrash
<1>victim. Victim'
  BY DEF PluginInv, Victim, Install!ClaimTrash
<1>earlier. Earlier'
  BY DEF PluginInv, Earlier, Install!ClaimTrash, Install!Rest, Install!plan
<1>batch. OnePerPlugin'
  BY DEF PluginInv, OnePerPlugin, Install!ClaimTrash, Install!plan
<1>own. Own'
  BY DEF PluginInv, Own, Stage, Aside, PluginId, Install!ClaimTrash, Install!Rest, Install!plan
<1>sound. AllThere'
  BY DEF PluginInv, AllThere, Install!Intact, Install!ClaimTrash, Install!plan
<1> QED
  BY <1>typed, <1>control, <1>apart, <1>victim, <1>earlier, <1>batch, <1>own, <1>sound DEF PluginInv

\* The trash is somebody else's, or cannot be made.
LEMMA ClaimFailsStep == ASSUME PluginInv, Install!ClaimFails PROVE PluginInv'
<1>typed. Typed'
  BY DEF PluginInv, Typed, Install!ClaimFails, Install!plan, Install!disk, Install!GiveUp,
     Install!Erase, Install!OwnStage
<1>control. Control'
  BY DEF PluginInv, Control, Install!ClaimFails, Install!Rest, Install!plan, Install!disk,
     Install!GiveUp, Install!Erase
<1>apart. Apart'
  BY DEF PluginInv, Apart, Install!ClaimFails, Install!disk
<1>victim. Victim'
  BY DEF PluginInv, Victim, Earlier, OnePerPlugin, Install!ClaimFails, Install!Rest,
     Install!disk, Install!GiveUp, Install!Erase, Install!OwnStage
<1>earlier. Earlier'
  BY DEF PluginInv, Earlier, Control, Install!ClaimFails, Install!Rest, Install!disk,
     Install!GiveUp, Install!Erase
<1>batch. OnePerPlugin'
  BY DEF PluginInv, OnePerPlugin, Install!ClaimFails, Install!plan, Install!GiveUp,
     Install!Erase
<1>own. Own'
  BY DEF PluginInv, Own, Stage, Aside, PluginId, Install!ClaimFails, Install!Rest, Install!plan,
     Install!disk, Install!GiveUp, Install!Erase
<1>sound. AllThere'
  BY DEF PluginInv, AllThere, Install!Intact, Install!ClaimFails, Install!plan, Install!disk,
     Install!GiveUp, Install!Erase
<1> QED
  BY <1>typed, <1>control, <1>apart, <1>victim, <1>earlier, <1>batch, <1>own, <1>sound DEF PluginInv

\* Recovery looks at a stage.
LEMMA RecoverStageStep == ASSUME PluginInv, Install!RecoverStage PROVE PluginInv'
<1>typed. Typed'
  BY DEF PluginInv, Typed, Install!RecoverStage, Install!plan, Install!disk, Install!Erase
<1>control. Control'
  BY DEF PluginInv, Control, Install!RecoverStage, Install!bounds, Install!plan, Install!disk,
     Install!Erase
<1>apart. Apart'
  BY DEF PluginInv, Apart, Install!RecoverStage, Install!disk
<1>victim. Victim'
  BY DEF PluginInv, Victim, Typed, Earlier, Install!RecoverStage, Install!disk, Install!Erase
<1>earlier. Earlier'
  BY DEF PluginInv, Earlier, IsBare, Install!RecoverStage, Install!bounds, Install!plan,
     Install!disk, Install!Erase
<1>batch. OnePerPlugin'
  BY DEF PluginInv, OnePerPlugin, Install!RecoverStage, Install!plan, Install!Erase
<1>own. Own'
  BY DEF PluginInv, Own, Stage, Aside, PluginId, Install!RecoverStage, Install!bounds,
     Install!plan, Install!disk, Install!Erase
<1>sound. AllThere'
  BY DEF PluginInv, AllThere, Install!Intact, Install!RecoverStage, Install!plan, Install!disk,
     Install!Erase
<1> QED
  BY <1>typed, <1>control, <1>apart, <1>victim, <1>earlier, <1>batch, <1>own, <1>sound DEF PluginInv

\* Recovery empties the trash.
LEMMA RecoverTrashStep == ASSUME PluginInv, Install!RecoverTrash PROVE PluginInv'
<1>typed. Typed'
  BY DEF PluginInv, Typed, Install!RecoverTrash, Install!plan, Install!disk, Install!Erase
<1>control. Control'
  BY DEF PluginInv, Control, Install!RecoverTrash, Install!bounds, Install!plan, Install!disk,
     Install!Erase
<1>apart. Apart'
  BY DEF PluginInv, Apart, Install!RecoverTrash, Install!disk
<1>victim. Victim'
  BY DEF PluginInv, Victim, Typed, Install!RecoverTrash, Install!disk, Install!Erase
<1>earlier. Earlier'
  BY DEF PluginInv, Earlier, Install!RecoverTrash, Install!bounds, Install!plan, Install!disk,
     Install!Erase
<1>batch. OnePerPlugin'
  BY DEF PluginInv, OnePerPlugin, Install!RecoverTrash, Install!plan, Install!Erase
<1>own. Own'
  BY DEF PluginInv, Own, Stage, Aside, PluginId, Install!RecoverTrash, Install!bounds,
     Install!plan, Install!disk, Install!Erase
<1>sound. AllThere'
  BY DEF PluginInv, AllThere, Install!RecoverTrash, Install!disk, Install!Erase
<1> QED
  BY <1>typed, <1>control, <1>apart, <1>victim, <1>earlier, <1>batch, <1>own, <1>sound DEF PluginInv

\* Recovery puts a backup back, retires it, or stops at it.
LEMMA RecoverBackupStep == ASSUME PluginInv, Install!RecoverBackup PROVE PluginInv'
<1>1. PICK l \in entries :
        /\ l.kind = "backup" /\ entries' = entries \ {l}
        /\ \/ pc' = "end" /\ UNCHANGED <<active, left, victim>>
           \/ /\ active[l.id] = Missing /\ active' = [active EXCEPT ![l.id] = l.dir]
              /\ left' = left \ {l} /\ UNCHANGED <<pc, victim>>
           \/ /\ active[l.id] # Missing /\ pc' = "claimRetire" /\ victim' = l
              /\ UNCHANGED <<active, left>>
  BY DEF Install!RecoverBackup, Install!Restore
<1>2. /\ pc = "recover" /\ next = "idle" /\ victim = Missing
      /\ UNCHANGED <<trash, index, op, offered, requests, todo, prepared, cur, next, commands>>
  BY DEF PluginInv, Control, Victim, Install!RecoverBackup, Install!plan, Install!Rest
<1>3. /\ l \in left /\ l.id \in Ids /\ l.dir \in Install!Dir /\ l.dir # Missing
      /\ l.dir.record /\ l.dir.files = "whole"
      /\ \A m \in left : m.kind = "backup" /\ m.id = l.id => m = l
      /\ left \subseteq Leftover /\ active \in [Ids -> Install!Dir \cup {Missing}]
  <2>1. l \in left /\ left \subseteq Leftover /\ active \in [Ids -> Install!Dir \cup {Missing}]
    BY DEF PluginInv, Typed
  <2>2. l.id \in Ids /\ l.dir \in Install!Dir /\ l.dir # Missing
    BY <2>1, LeftsAre, DirsAre
  <2> QED
    BY <1>1, <2>1, <2>2 DEF PluginInv, AllThere, Apart
<1>4. left' \subseteq left /\ (\A m \in left : m # l => m \in left')
  BY <1>1
<1>typed. Typed'
  <2>1. active' \in [Ids -> Install!Dir \cup {Missing}] /\ entries' \subseteq left'
    BY <1>1, <1>3 DEF PluginInv, Typed
  <2>2. victim' \in left' \cup {Missing}
    BY <1>1, <1>2, <1>3
  <2> QED
    BY <1>2, <1>4, <2>1, <2>2 DEF PluginInv, Typed
<1>control. Control'
  BY DEF PluginInv, Control, Install!RecoverBackup, Install!Rest, Install!plan, Install!Restore
<1>apart. Apart'
  BY DEF PluginInv, Apart, Install!RecoverBackup, Install!Restore
<1>victim. Victim'
  BY DEF PluginInv, Victim, Typed, Install!RecoverBackup, Install!Restore
<1>earlier. Earlier'
  BY DEF PluginInv, Earlier, Control, Install!RecoverBackup, Install!Rest, Install!plan,
     Install!Restore
<1>batch. OnePerPlugin'
  BY DEF PluginInv, OnePerPlugin, Install!RecoverBackup, Install!plan, Install!Restore
<1>own. Own'
  BY DEF PluginInv, Own, Stage, Aside, PluginId, Install!RecoverBackup, Install!Rest,
     Install!plan, Install!Restore
<1>sound. AllThere'
  <2>1. CASE left' = left \ {l} /\ active' = [active EXCEPT ![l.id] = l.dir]
    <3>1. active'[l.id] = l.dir /\ \A i \in Ids : i # l.id => active'[i] = active[i]
      BY <1>3, <2>1
    <3>2. \A m \in left' : m.kind = "backup" => m.id \in Ids /\ m.id # l.id
      BY <1>3, <2>1, LeftsAre
    <3> QED
      BY <1>1, <1>2, <1>3, <2>1, <3>1, <3>2 DEF PluginInv, AllThere
  <2>2. CASE UNCHANGED <<active, left>>
    BY <1>1, <1>2, <2>2 DEF PluginInv, AllThere
  <2> QED
    BY <1>1, <2>1, <2>2
<1> QED
  BY <1>typed, <1>control, <1>apart, <1>victim, <1>earlier, <1>batch, <1>own, <1>sound DEF PluginInv

\* Recovery moves a backup to the trash.
LEMMA RetireOldStep == ASSUME PluginInv, Install!RetireOld PROVE PluginInv'
<1> DEFINE gone == [victim EXCEPT !.kind = "removed"]
<1>1. /\ pc = "retireOld" /\ next = "idle"
      /\ UNCHANGED <<active, trash, index, op, offered, requests, todo, entries, prepared, cur,
                     commands>>
      /\ \/ /\ left' = (left \ {victim}) \cup {gone} /\ victim' = gone
            /\ pc' = "erase" /\ next' = "recover"
         \/ pc' = "end" /\ UNCHANGED <<left, victim, next>>
  BY DEF PluginInv, Control, Install!RetireOld, Install!Rest, Install!plan, Install!Erase
<1>2. /\ victim \in left \ entries /\ victim.kind = "backup" /\ left \subseteq Leftover
      /\ victim.run < commands /\ entries \subseteq left
  BY <1>1 DEF PluginInv, Typed, Victim, Earlier
<1>3. /\ gone \in Leftover /\ gone.kind = "removed" /\ gone.id = victim.id
      /\ gone.run = victim.run
  BY <1>2, LeftsAre
<1>4. left' = (left \ {victim}) \cup {gone} =>
        /\ left' \subseteq Leftover /\ Apart' /\ gone \notin left
        /\ \A m \in left' : m = gone \/ (m \in left /\ m # victim)
  BY <1>2, Retired DEF PluginInv
<1> HIDE DEF gone
<1>typed. Typed'
  <2>1. entries \subseteq left' /\ victim' \in left' \cup {Missing}
    BY <1>1, <1>2
  <2> QED
    BY <1>1, <1>2, <1>4, <2>1 DEF PluginInv, Typed
<1>control. Control'
  <2>1. \A m \in left' : m.run <= commands
    BY <1>1, <1>2, <1>3, <1>4 DEF PluginInv, Control
  <2> QED
    BY <1>1, <2>1 DEF PluginInv, Control
<1>apart. Apart'
  <2>1. CASE left' = left
    BY <2>1 DEF PluginInv, Apart
  <2> QED
    BY <1>1, <1>4, <2>1
<1>victim. Victim'
  <2>1. CASE pc' = "end"
    BY <1>1, <2>1 DEF PluginInv, Victim
  <2>2. CASE victim' = gone /\ left' = (left \ {victim}) \cup {gone} /\ next' = "recover"
    BY <1>1, <1>2, <1>3, <1>4, <2>2 DEF Victim
  <2> QED
    BY <1>1, <2>1, <2>2
<1>earlier. Earlier'
  <2>1. CASE pc' = "end"
    BY <1>1, <2>1 DEF PluginInv, Earlier
  <2>2. CASE victim' = gone /\ left' = (left \ {victim}) \cup {gone} /\ next' = "recover"
    BY <1>1, <1>2, <1>3, <1>4, <2>2 DEF PluginInv, Earlier
  <2> QED
    BY <1>1, <2>1, <2>2
<1>batch. OnePerPlugin'
  BY DEF PluginInv, OnePerPlugin, Install!RetireOld, Install!plan, Install!Erase
<1>own. Own'
  <2>1. \A m \in left' : m.run < commands
    BY <1>1, <1>2, <1>3, <1>4 DEF PluginInv, Earlier
  <2>2. \A m \in left' : m.run # commands
    BY <2>1, <1>1 DEF PluginInv, Control
  <2> QED
    BY <1>1, <2>2 DEF Own
<1>sound. AllThere'
  <2>1. \A m \in left' : m.kind = "backup" => m \in left
    BY <1>1, <1>3, <1>4
  <2> QED
    BY <1>1, <2>1 DEF PluginInv, AllThere
<1> QED
  BY <1>typed, <1>control, <1>apart, <1>victim, <1>earlier, <1>batch, <1>own, <1>sound DEF PluginInv

\* Recovery clears the markers, and the command proper begins.
LEMMA RecoverMarkersStep == ASSUME PluginInv, Install!RecoverMarkers PROVE PluginInv'
<1>typed. Typed'
  BY DirsAre DEF PluginInv, Typed, Install!RecoverMarkers, Install!plan
<1>control. Control'
  BY DEF PluginInv, Control, Typed, Install!RecoverMarkers, Install!bounds, Install!plan
<1>apart. Apart'
  BY DEF PluginInv, Apart, Install!RecoverMarkers
<1>victim. Victim'
  BY DEF PluginInv, Victim, Typed, Install!RecoverMarkers
<1>earlier. Earlier'
  BY DEF PluginInv, Earlier, Install!RecoverMarkers, Install!bounds, Install!plan
<1>batch. OnePerPlugin'
  BY DEF PluginInv, OnePerPlugin, Typed, Install!RecoverMarkers, Install!plan
<1>own. Own'
  BY DEF PluginInv, Own, Stage, Aside, PluginId, Typed, Install!RecoverMarkers, Install!bounds,
     Install!plan
<1>sound. AllThere'
  <2>1. /\ pc = "recover" /\ next = "idle" /\ pc' = op /\ next' = next /\ left' = left
        /\ op \in {"install", "update", "remove"} /\ todo = {} /\ todo' = todo
    BY DEF PluginInv, Typed, Control, Earlier, Install!RecoverMarkers, Install!plan
  <2>2. ASSUME NEW i \in Ids
        PROVE  /\ active'[i] = Missing <=> active[i] = Missing
               /\ active[i] # Missing => /\ active'[i].files = active[i].files
                                         /\ active'[i].record = active[i].record
    <3>1. active'[i] = IF active[i] # Missing /\ active[i].marker /\ active[i].record
                       THEN [active[i] EXCEPT !.marker = FALSE] ELSE active[i]
      BY DEF Install!RecoverMarkers
    <3>2. active[i] # Missing => active[i] \in Install!Dir
      BY DEF PluginInv, Typed
    <3>3. \A d \in Install!Dir :
            /\ [d EXCEPT !.marker = FALSE] # Missing
            /\ [d EXCEPT !.marker = FALSE].files = d.files
            /\ [d EXCEPT !.marker = FALSE].record = d.record
      BY PluginsAssumption DEF Install!InstallAssumption, Install!Dir
    <3> QED
      BY <3>1, <3>2, <3>3
  <2>3. \A l \in left : l.id \in Ids
    BY LeftsAre DEF PluginInv, Typed
  <2> QED
    BY <2>1, <2>2, <2>3 DEF PluginInv, AllThere, Install!Intact
<1> QED
  BY <1>typed, <1>control, <1>apart, <1>victim, <1>earlier, <1>batch, <1>own, <1>sound DEF PluginInv

\* Recovery cannot clear a marker.
LEMMA RecoverMarkersFailsStep == ASSUME PluginInv, Install!RecoverMarkersFails PROVE PluginInv'
<1>typed. Typed'
  BY DEF PluginInv, Typed, Install!RecoverMarkersFails, Install!plan, Install!disk
<1>control. Control'
  BY DEF PluginInv, Control, Install!RecoverMarkersFails, Install!Rest, Install!plan,
     Install!disk
<1>apart. Apart'
  BY DEF PluginInv, Apart, Install!RecoverMarkersFails, Install!disk
<1>victim. Victim'
  BY DEF Victim, Install!RecoverMarkersFails
<1>earlier. Earlier'
  BY DEF PluginInv, Earlier, Install!RecoverMarkersFails, Install!Rest, Install!plan,
     Install!disk
<1>batch. OnePerPlugin'
  BY DEF PluginInv, OnePerPlugin, Install!RecoverMarkersFails, Install!plan
<1>own. Own'
  BY DEF PluginInv, Own, Stage, Aside, PluginId, Install!RecoverMarkersFails, Install!Rest,
     Install!plan, Install!disk
<1>sound. AllThere'
  BY DEF PluginInv, AllThere, Install!Intact, Install!RecoverMarkersFails, Install!plan,
     Install!disk
<1> QED
  BY <1>typed, <1>control, <1>apart, <1>victim, <1>earlier, <1>batch, <1>own, <1>sound DEF PluginInv

\* An install selects its packages.
LEMMA SelectAllStep == ASSUME PluginInv, Install!SelectAll PROVE PluginInv'
<1>1. /\ pc = "install" /\ op = "install" /\ next = "idle" /\ offered \in Indexes /\ todo = {}
      /\ prepared = {} /\ requests' = {} /\ requests \subseteq AskedFor
      /\ (\A l \in left : l.run < commands)
      /\ UNCHANGED <<active, left, trash, index, op, entries, prepared, cur, victim, next,
                     commands>>
      /\ \/ pc' = "end" /\ todo' = {}
         \/ pc' = "prepare" /\ todo' = UNION {Install!Select(offered, q) : q \in requests}
  BY DEF PluginInv, Typed, Control, Earlier, Install!SelectAll, Install!disk, Install!bounds
<1>2. todo' \subseteq Install!Packages /\ \A p, q \in todo' : p.id = q.id => p = q
  <2>1. ASSUME NEW q \in requests, NEW p \in Install!Select(offered, q)
        PROVE  /\ p \in Install!Packages /\ p.id = q.id
               /\ \A r \in Install!Select(offered, q) : r = p
    <3>1. q = [id |-> q.id, version |-> q.version] /\ q.id \in Ids /\ q.version \in Nat
      BY <1>1 DEF AskedFor
    <3> DEFINE i == q.id
               v == q.version
    <3>2. p \in Install!Select(offered, [id |-> i, version |-> v]) /\ i \in Ids /\ v \in Nat
      BY <2>1, <3>1
    <3> HIDE DEF i, v
    <3>3. /\ p \in Install!Packages /\ p.id = i
          /\ \A r \in Install!Select(offered, [id |-> i, version |-> v]) : r = p
      BY <1>1, <3>2, Selected
    <3> QED
      BY <3>1, <3>3 DEF i, v
  <2> QED
    BY <1>1, <2>1 DEF PluginInv, OnePerPlugin

<1>3. \A l \in left : l.run # commands
  BY <1>1 DEF PluginInv, Control
<1>typed. Typed'
  BY DEF PluginInv, Typed, Install!SelectAll, Install!disk
<1>control. Control'
  BY <1>1, <1>2 DEF PluginInv, Control
<1>apart. Apart'
  BY DEF PluginInv, Apart, Install!SelectAll, Install!disk
<1>victim. Victim'
  BY DEF PluginInv, Victim, Install!SelectAll
<1>earlier. Earlier'
  BY DEF PluginInv, Earlier, Control, Install!SelectAll, Install!disk
<1>batch. OnePerPlugin'
  BY <1>1, <1>2 DEF PluginInv, OnePerPlugin
<1>own. Own'
  BY <1>1, <1>3 DEF Own
<1>sound. AllThere'
  BY DEF PluginInv, AllThere, Control, Install!SelectAll, Install!disk
<1> QED
  BY <1>typed, <1>control, <1>apart, <1>victim, <1>earlier, <1>batch, <1>own, <1>sound DEF PluginInv

\* An update selects its packages.
LEMMA PlanUpdateStep == ASSUME PluginInv, Install!PlanUpdate PROVE PluginInv'
<1>1. /\ pc = "update" /\ op = "update" /\ next = "idle" /\ todo = {}
      /\ prepared = {} /\ requests' = {} /\ requests \subseteq AskedFor
      /\ (\A l \in left : l.run < commands)
      /\ UNCHANGED <<active, left, trash, offered, op, entries, prepared, cur, victim, next,
                     commands>>
      /\ index' \in Indexes \cup {Missing} /\ pc' \in {"end", "prepare"}
      /\ \E idx \in Indexes : todo' = Install!Updates(idx)
  BY DEF PluginInv, Typed, Control, Earlier, Install!PlanUpdate, Install!Load, Install!disk,
         Install!bounds
<1>2. todo' \subseteq Install!Packages /\ \A p, q \in todo' : p.id = q.id => p = q
  BY <1>1, Updated

<1>3. \A l \in left : l.run # commands
  BY <1>1 DEF PluginInv, Control
<1>typed. Typed'
  BY <1>1 DEF PluginInv, Typed
<1>control. Control'
  BY <1>1, <1>2 DEF PluginInv, Control
<1>apart. Apart'
  BY DEF PluginInv, Apart, Install!PlanUpdate, Install!disk
<1>victim. Victim'
  BY DEF PluginInv, Victim, Install!PlanUpdate
<1>earlier. Earlier'
  BY DEF PluginInv, Earlier, Control, Install!PlanUpdate, Install!disk
<1>batch. OnePerPlugin'
  BY <1>1, <1>2 DEF PluginInv, OnePerPlugin
<1>own. Own'
  BY <1>1, <1>3 DEF Own
<1>sound. AllThere'
  BY DEF PluginInv, AllThere, Control, Install!PlanUpdate, Install!disk
<1> QED
  BY <1>typed, <1>control, <1>apart, <1>victim, <1>earlier, <1>batch, <1>own, <1>sound DEF PluginInv

\* A package is prepared, refused, or there already.
LEMMA PrepareStep ==
  ASSUME PluginInv, NEW pkg \in Install!Packages, Install!Prepare(pkg)
  PROVE  PluginInv'
<1> DEFINE new == [package |-> pkg, staged |-> FALSE]
<1>1. /\ pc = "prepare" /\ op # "remove" /\ next = "idle" /\ pkg \in todo /\ todo' = todo \ {pkg}
      /\ UNCHANGED <<active, left, trash, index, op, offered, requests, entries, victim, next,
                     commands>>
      /\ \/ pc' = "dropAll" /\ UNCHANGED <<prepared, cur>>
         \/ pc' = pc /\ prepared' = prepared \cup {new} /\ cur' = cur
         \/ pc' = "fetch" /\ cur' = pkg /\ prepared' = prepared
  BY DEF PluginInv, Control, Install!Prepare, Install!disk, Install!bounds
<1>2. new \in Prepared /\ new.package = pkg /\ ~new.staged
  BY LeftsAre
<1>3. /\ todo \subseteq Install!Packages /\ \A p, q \in todo : p.id = q.id => p = q
      /\ \A p \in todo : \A q \in prepared : p.id # q.package.id
      /\ \A q, r \in prepared : q.package.id = r.package.id => q = r
  BY <1>1 DEF PluginInv, Control, OnePerPlugin
<1> HIDE DEF new
<1>typed. Typed'
  BY <1>1, <1>2 DEF PluginInv, Typed
<1>control. Control'
  BY DEF PluginInv, Control, Install!Prepare, Install!bounds, Install!disk
<1>apart. Apart'
  BY DEF PluginInv, Apart, Install!Prepare, Install!disk
<1>victim. Victim'
  BY DEF PluginInv, Victim, Install!Prepare
<1>earlier. Earlier'
  BY DEF PluginInv, Earlier, Control, Install!Prepare, Install!bounds, Install!disk
<1>batch. OnePerPlugin'
  <2>1. \A q \in requests' : q \in requests
    BY <1>1
  <2> QED
    BY <1>1, <1>2, <1>3, <2>1 DEF PluginInv, OnePerPlugin
<1>own. Own'
  BY DEF PluginInv, Own, Stage, Aside, PluginId, Control, Install!Prepare, Install!bounds,
     Install!disk
<1>sound. AllThere'
  BY DEF PluginInv, AllThere, Install!Intact, Install!Prepare, Install!disk
<1> QED
  BY <1>typed, <1>control, <1>apart, <1>victim, <1>earlier, <1>batch, <1>own, <1>sound DEF PluginInv

\* A stage is made.
LEMMA FetchStep == ASSUME PluginInv, Install!Fetch PROVE PluginInv'
<1> DEFINE new == [kind |-> "stage", id |-> cur.id, run |-> commands,
                   dir |-> [package |-> cur, record |-> FALSE, marker |-> FALSE,
                            files |-> "partial"]]
<1>1. /\ pc = "fetch" /\ cur \in Install!Packages /\ cur.id \in Ids /\ commands \in Nat
      /\ UNCHANGED <<active, trash, index, op, offered, requests, todo, entries, prepared, cur,
                     victim, next, commands>>
      /\ \/ left' = left \cup {new} /\ pc' = "mark"
         \/ pc' = "dropAll" /\ left' = left
  BY PackagesAre DEF PluginInv, Control, Install!Fetch, Install!Rest, Install!plan
<1>2. /\ new \in Leftover /\ new.kind = "stage" /\ new.id = cur.id /\ new.run = commands
      /\ new.dir = [package |-> cur, record |-> FALSE, marker |-> FALSE, files |-> "partial"]
  BY <1>1, LeftsAre, DirsAre DEF Install!Kinds
<1> HIDE DEF new
<1>3. \A m \in left : ~SameSlot(new, m)
  BY <1>1, <1>2 DEF PluginInv, Own, Stage, SameSlot
<1>typed. Typed'
  <2>1. left' \subseteq Leftover /\ left \subseteq left'
    BY <1>1, <1>2 DEF PluginInv, Typed
  <2> QED
    BY <1>1, <2>1 DEF PluginInv, Typed
<1>control. Control'
  BY DEF PluginInv, Control, Install!Fetch, Install!Rest, Install!plan
<1>apart. Apart'
  <2>1. left' = left \cup {new} => Apart'
    BY <1>2, <1>3, Added DEF PluginInv
  <2> QED
    BY <1>1, <2>1 DEF PluginInv, Apart
<1>victim. Victim'
  BY DEF PluginInv, Victim, Install!Fetch
<1>earlier. Earlier'
  BY DEF PluginInv, Earlier, Control, Install!Fetch, Install!Rest
<1>batch. OnePerPlugin'
  BY DEF PluginInv, OnePerPlugin, Install!Fetch, Install!plan
<1>own. Own'
  <2>1. ASSUME pc' = "mark", left' = left \cup {new}, NEW m \in left', m.run = commands
        PROVE  /\ (IF m.kind = "stage" THEN Stage(m) ELSE Aside(m))'
               /\ op = "remove" => m.kind = "removed"
    <3>1. CASE m = new
      <4>1. /\ op # "remove" /\ \A p \in todo : p.id # cur.id
            /\ \A q \in prepared : q.package.id # cur.id
        BY <1>1 DEF PluginInv, Control, OnePerPlugin
      <4> QED
        BY <1>1, <1>2, <2>1, <3>1, <4>1 DEF Stage, PluginId
    <3>2. CASE m \in left
      <4>1. m.kind = "stage" => m.id # cur.id
        BY <1>2, <1>3, <2>1, <3>2 DEF SameSlot
      <4> QED
        BY <1>1, <2>1, <3>2, <4>1 DEF PluginInv, Own, Stage, Aside, PluginId
    <3> QED
      BY <2>1, <3>1, <3>2
  <2>2. CASE pc' = "dropAll" /\ left' = left
    BY <1>1, <2>2 DEF PluginInv, Own, Stage, Aside, PluginId
  <2> QED
    BY <1>1, <2>1, <2>2 DEF Own
<1>sound. AllThere'
  BY DEF PluginInv, AllThere, Install!Intact, Install!Fetch, Install!plan
<1> QED
  BY <1>typed, <1>control, <1>apart, <1>victim, <1>earlier, <1>batch, <1>own, <1>sound DEF PluginInv

\* A stage is marked.
LEMMA MarkStageStep == ASSUME PluginInv, Install!MarkStage PROVE PluginInv'
<1>1. /\ pc = "mark" /\ cur \in Install!Packages /\ op # "remove"
      /\ UNCHANGED <<active, trash, index, op, offered, requests, todo, entries, commands>>
      /\ \/ /\ pc' = "extract" /\ UNCHANGED <<prepared, cur, victim, next>>
            /\ \E l \in Install!OwnStage(cur) :
                 left' = (left \ {l}) \cup {[l EXCEPT !.dir = Install!Marked(l.dir)]}
         \/ pc' = "dropAll" /\ UNCHANGED <<left, prepared, cur, victim, next>>
  BY DEF PluginInv, Control, Install!MarkStage, Install!Rest, Install!plan, Install!StageBecomes,
         Install!Erase
<1>2. ASSUME NEW l \in Install!OwnStage(cur)
      PROVE  /\ l \in left /\ l.kind = "stage" /\ l.id = cur.id /\ l.run = commands
             /\ l.dir = [package |-> cur, record |-> FALSE, marker |-> FALSE, files |-> "partial"]
             /\ Install!Marked(l.dir) \in Install!Dir
             /\ Install!Marked(l.dir) =
                  [package |-> cur, record |-> FALSE, marker |-> TRUE, files |-> "partial"]
             /\ \A p \in todo : l.id # PluginId(p)
  <2>1. l \in left /\ l.kind = "stage" /\ l.id = cur.id /\ l.run = commands /\ Stage(l)
    BY <1>2 DEF PluginInv, Own, Install!OwnStage
  <2>2. /\ l.dir = [package |-> cur, record |-> FALSE, marker |-> FALSE, files |-> "partial"]
        /\ l.dir \in Install!Dir
    BY <1>1, <2>1, LeftsAre DEF PluginInv, Typed, Stage
  <2>3. Install!Marked(l.dir) \in Install!Dir
    BY <2>2, DirsAre
  <2>4. Install!Marked(l.dir) =
          [package |-> cur, record |-> FALSE, marker |-> TRUE, files |-> "partial"]
    BY <2>2, Stages DEF Ready
  <2> QED
    BY <2>1, <2>2, <2>3, <2>4 DEF Stage
<1>3. ASSUME NEW l \in Install!OwnStage(cur), NEW d \in Install!Dir,
             left' = (left \ {l}) \cup {[l EXCEPT !.dir = d]}
      PROVE  /\ left' \subseteq Leftover /\ Apart' /\ entries \subseteq left'
             /\ \A m \in left' :
                  \/ m.kind = "stage" /\ m.id = cur.id /\ m.run = commands /\ m.dir = d
                  \/ m \in left /\ ~SameSlot(l, m)
  <2>1. l \in left /\ l.kind = "stage" /\ l.id = cur.id /\ l.run = commands /\ l \in Leftover
    BY <1>2, <1>3 DEF PluginInv, Typed
  <2>2. entries = {}
    BY <1>1 DEF PluginInv, Earlier, Control
  <2> DEFINE new == [l EXCEPT !.dir = d]
  <2>3. new.kind = "stage" /\ new.id = cur.id /\ new.run = commands /\ new.dir = d
    BY <2>1, LeftsAre
  <2>4. /\ left' \subseteq Leftover /\ Apart'
        /\ \A m \in left' : m = new \/ (m \in left /\ m # l /\ ~SameSlot(l, m))
    BY <1>3, <2>1, Redone DEF PluginInv
  <2> HIDE DEF new
  <2> QED
    BY <2>2, <2>3, <2>4
<1>typed. Typed'
  <2>1. left' \subseteq Leftover /\ entries \subseteq left'
    BY <1>1, <1>2, <1>3 DEF PluginInv, Typed
  <2>2. victim' \in left' \cup {Missing}
    BY <1>1, <1>2 DEF PluginInv, Typed, Victim
  <2> QED
    BY <1>1, <2>1, <2>2, LeftsAre DEF PluginInv, Typed
<1>control. Control'
  <2>1. \A m \in left' : m.run <= commands
    BY <1>1, <1>2, <1>3 DEF PluginInv, Control
  <2> QED
    BY <1>1, <2>1, PackagesAre DEF PluginInv, Control, Typed
<1>apart. Apart'
  <2>1. CASE left' = left
    BY <2>1 DEF PluginInv, Apart
  <2> QED
    BY <1>1, <1>2, <1>3, <2>1
<1>victim. Victim'
  BY DEF PluginInv, Victim, Install!MarkStage, Install!StageBecomes
<1>earlier. Earlier'
  <2>1. \A m \in left' : m.run < commands => IsBare(m)
    <3>1. entries = {} /\ commands \in Nat /\ \A m \in left : m.run < commands => IsBare(m)
      BY <1>1 DEF PluginInv, Control, Earlier
    <3>2. CASE left' = left
      BY <3>1, <3>2
    <3> QED
      BY <1>1, <1>2, <1>3, <3>1, <3>2
  <2> QED
    BY <1>1, <2>1 DEF PluginInv, Control, Earlier, IsBare
<1>batch. OnePerPlugin'
  BY DEF PluginInv, OnePerPlugin, Install!MarkStage, Install!plan, Install!StageBecomes
<1>own. Own'
  <2>1. ASSUME pc' = "extract", NEW l \in Install!OwnStage(cur),
               left' = (left \ {l}) \cup {[l EXCEPT !.dir = Install!Marked(l.dir)]},
               NEW m \in left', m.run = commands
        PROVE  /\ (IF m.kind = "stage" THEN Stage(m) ELSE Aside(m))'
               /\ op = "remove" => m.kind = "removed"
    <3>1. \A q \in prepared : q.package.id # cur.id
      BY <1>1 DEF PluginInv, OnePerPlugin
    <3>2. CASE m.kind = "stage" /\ m.id = cur.id /\ m.dir = Install!Marked(l.dir)
      BY <1>1, <1>2, <2>1, <3>1, <3>2 DEF Stage, PluginId
    <3>3. CASE m \in left /\ ~SameSlot(l, m)
      <4>1. m.kind = "stage" => m.id # cur.id
        BY <1>2, <2>1, <3>3 DEF SameSlot
      <4>2. IF m.kind = "stage" THEN Stage(m) ELSE Aside(m)
        BY <2>1, <3>3 DEF PluginInv, Own
      <4> QED
        BY <1>1, <2>1, <4>1, <4>2 DEF Stage, Aside, PluginId
    <3> QED
      BY <1>2, <1>3, <2>1, <3>2, <3>3
  <2>2. CASE left' = left /\ pc' # "extract"
    BY <1>1, <2>2 DEF PluginInv, Own, Stage, Aside, PluginId
  <2> QED
    BY <1>1, <2>1, <2>2 DEF Own
<1>sound. AllThere'
  <2>1. \A m \in left' : m.kind = "backup" => m \in left
    <3>1. CASE left' = left
      BY <3>1
    <3> QED
      BY <1>1, <1>2, <1>3, <3>1
  <2> QED
    BY <1>1, <2>1 DEF PluginInv, AllThere, Control, Install!Intact
<1> QED
  BY <1>typed, <1>control, <1>apart, <1>victim, <1>earlier, <1>batch, <1>own, <1>sound DEF PluginInv

\* A stage is unpacked.
LEMMA ExtractStep == ASSUME PluginInv, Install!Extract PROVE PluginInv'
<1>1. /\ pc = "extract" /\ cur \in Install!Packages /\ op # "remove"
      /\ UNCHANGED <<active, trash, index, op, offered, requests, todo, entries, commands>>
      /\ \/ /\ pc' = "record" /\ UNCHANGED <<prepared, cur, victim, next>>
            /\ \E l \in Install!OwnStage(cur) :
                 left' = (left \ {l}) \cup {[l EXCEPT !.dir = Install!Unpacked(l.dir)]}
         \/ /\ pc' = "erase" /\ next' = "dropAll" /\ victim' \in Install!OwnStage(cur)
            /\ UNCHANGED <<left, prepared, cur>>
  BY DEF PluginInv, Control, Install!Extract, Install!Rest, Install!plan, Install!StageBecomes,
         Install!Erase
<1>2. ASSUME NEW l \in Install!OwnStage(cur)
      PROVE  /\ l \in left /\ l.kind = "stage" /\ l.id = cur.id /\ l.run = commands
             /\ l.dir = [package |-> cur, record |-> FALSE, marker |-> TRUE, files |-> "partial"]
             /\ Install!Unpacked(l.dir) \in Install!Dir
             /\ Install!Unpacked(l.dir) =
                  [package |-> cur, record |-> FALSE, marker |-> TRUE, files |-> "whole"]
             /\ \A p \in todo : l.id # PluginId(p)
  <2>1. l \in left /\ l.kind = "stage" /\ l.id = cur.id /\ l.run = commands /\ Stage(l)
    BY <1>2 DEF PluginInv, Own, Install!OwnStage
  <2>2. /\ l.dir = [package |-> cur, record |-> FALSE, marker |-> TRUE, files |-> "partial"]
        /\ l.dir \in Install!Dir
    BY <1>1, <2>1, LeftsAre DEF PluginInv, Typed, Stage
  <2>3. Install!Unpacked(l.dir) \in Install!Dir
    BY <2>2, DirsAre
  <2>4. Install!Unpacked(l.dir) =
          [package |-> cur, record |-> FALSE, marker |-> TRUE, files |-> "whole"]
    BY <2>2, Stages DEF Ready
  <2> QED
    BY <2>1, <2>2, <2>3, <2>4 DEF Stage
<1>3. ASSUME NEW l \in Install!OwnStage(cur), NEW d \in Install!Dir,
             left' = (left \ {l}) \cup {[l EXCEPT !.dir = d]}
      PROVE  /\ left' \subseteq Leftover /\ Apart' /\ entries \subseteq left'
             /\ \A m \in left' :
                  \/ m.kind = "stage" /\ m.id = cur.id /\ m.run = commands /\ m.dir = d
                  \/ m \in left /\ ~SameSlot(l, m)
  <2>1. l \in left /\ l.kind = "stage" /\ l.id = cur.id /\ l.run = commands /\ l \in Leftover
    BY <1>2, <1>3 DEF PluginInv, Typed
  <2>2. entries = {}
    BY <1>1 DEF PluginInv, Earlier, Control
  <2> DEFINE new == [l EXCEPT !.dir = d]
  <2>3. new.kind = "stage" /\ new.id = cur.id /\ new.run = commands /\ new.dir = d
    BY <2>1, LeftsAre
  <2>4. /\ left' \subseteq Leftover /\ Apart'
        /\ \A m \in left' : m = new \/ (m \in left /\ m # l /\ ~SameSlot(l, m))
    BY <1>3, <2>1, Redone DEF PluginInv
  <2> HIDE DEF new
  <2> QED
    BY <2>2, <2>3, <2>4
<1>typed. Typed'
  <2>1. left' \subseteq Leftover /\ entries \subseteq left'
    BY <1>1, <1>2, <1>3 DEF PluginInv, Typed
  <2>2. victim' \in left' \cup {Missing}
    BY <1>1, <1>2 DEF PluginInv, Typed, Victim
  <2> QED
    BY <1>1, <2>1, <2>2, LeftsAre DEF PluginInv, Typed
<1>control. Control'
  <2>1. \A m \in left' : m.run <= commands
    BY <1>1, <1>2, <1>3 DEF PluginInv, Control
  <2> QED
    BY <1>1, <2>1, PackagesAre DEF PluginInv, Control, Typed
<1>apart. Apart'
  <2>1. CASE left' = left
    BY <2>1 DEF PluginInv, Apart
  <2> QED
    BY <1>1, <1>2, <1>3, <2>1
<1>victim. Victim'
  BY DEF PluginInv, Victim, Control, Earlier, OnePerPlugin, Install!Extract, Install!Rest,
     Install!Erase, Install!OwnStage, Install!StageBecomes
<1>earlier. Earlier'
  <2>1. \A m \in left' : m.run < commands => IsBare(m)
    <3>1. entries = {} /\ commands \in Nat /\ \A m \in left : m.run < commands => IsBare(m)
      BY <1>1 DEF PluginInv, Control, Earlier
    <3>2. CASE left' = left
      BY <3>1, <3>2
    <3> QED
      BY <1>1, <1>2, <1>3, <3>1, <3>2
  <2> QED
    BY <1>1, <2>1 DEF PluginInv, Control, Earlier, IsBare
<1>batch. OnePerPlugin'
  BY DEF PluginInv, OnePerPlugin, Install!Extract, Install!plan, Install!Erase,
     Install!StageBecomes
<1>own. Own'
  <2>1. ASSUME pc' = "record", NEW l \in Install!OwnStage(cur),
               left' = (left \ {l}) \cup {[l EXCEPT !.dir = Install!Unpacked(l.dir)]},
               NEW m \in left', m.run = commands
        PROVE  /\ (IF m.kind = "stage" THEN Stage(m) ELSE Aside(m))'
               /\ op = "remove" => m.kind = "removed"
    <3>1. \A q \in prepared : q.package.id # cur.id
      BY <1>1 DEF PluginInv, OnePerPlugin
    <3>2. CASE m.kind = "stage" /\ m.id = cur.id /\ m.dir = Install!Unpacked(l.dir)
      BY <1>1, <1>2, <2>1, <3>1, <3>2 DEF Stage, PluginId
    <3>3. CASE m \in left /\ ~SameSlot(l, m)
      <4>1. m.kind = "stage" => m.id # cur.id
        BY <1>2, <2>1, <3>3 DEF SameSlot
      <4>2. IF m.kind = "stage" THEN Stage(m) ELSE Aside(m)
        BY <2>1, <3>3 DEF PluginInv, Own
      <4> QED
        BY <1>1, <2>1, <4>1, <4>2 DEF Stage, Aside, PluginId
    <3> QED
      BY <1>2, <1>3, <2>1, <3>2, <3>3
  <2>2. CASE left' = left /\ pc' # "record"
    BY <1>1, <2>2 DEF PluginInv, Own, Stage, Aside, PluginId
  <2> QED
    BY <1>1, <2>1, <2>2 DEF Own
<1>sound. AllThere'
  <2>1. \A m \in left' : m.kind = "backup" => m \in left
    <3>1. CASE left' = left
      BY <3>1
    <3> QED
      BY <1>1, <1>2, <1>3, <3>1
  <2> QED
    BY <1>1, <2>1 DEF PluginInv, AllThere, Control, Install!Intact
<1> QED
  BY <1>typed, <1>control, <1>apart, <1>victim, <1>earlier, <1>batch, <1>own, <1>sound DEF PluginInv

\* A stage gets its record, and its package is prepared.
LEMMA WriteRecordStep == ASSUME PluginInv, Install!WriteRecord PROVE PluginInv'
<1>1. /\ pc = "record" /\ cur \in Install!Packages /\ op # "remove"
      /\ UNCHANGED <<active, trash, index, op, offered, requests, todo, entries, commands>>
      /\ \/ /\ pc' = "prepare" /\ cur' = Missing /\ UNCHANGED <<victim, next>>
            /\ prepared' = prepared \cup {[package |-> cur, staged |-> TRUE]}
            /\ \E l \in Install!OwnStage(cur) :
                 left' = (left \ {l}) \cup {[l EXCEPT !.dir = Install!Recorded(l.dir)]}
         \/ /\ pc' = "erase" /\ next' = "dropAll" /\ victim' \in Install!OwnStage(cur)
            /\ UNCHANGED <<left, prepared, cur>>
  BY DEF PluginInv, Control, Install!WriteRecord, Install!Rest, Install!plan, Install!StageBecomes,
         Install!Erase
<1>2. ASSUME NEW l \in Install!OwnStage(cur)
      PROVE  /\ l \in left /\ l.kind = "stage" /\ l.id = cur.id /\ l.run = commands
             /\ l.dir = [package |-> cur, record |-> FALSE, marker |-> TRUE, files |-> "whole"]
             /\ Install!Recorded(l.dir) \in Install!Dir
             /\ Install!Recorded(l.dir) = Ready(cur)
             /\ \A p \in todo : l.id # PluginId(p)
  <2>1. l \in left /\ l.kind = "stage" /\ l.id = cur.id /\ l.run = commands /\ Stage(l)
    BY <1>2 DEF PluginInv, Own, Install!OwnStage
  <2>2. /\ l.dir = [package |-> cur, record |-> FALSE, marker |-> TRUE, files |-> "whole"]
        /\ l.dir \in Install!Dir
    BY <1>1, <2>1, LeftsAre DEF PluginInv, Typed, Stage
  <2>3. Install!Recorded(l.dir) \in Install!Dir
    BY <2>2, DirsAre
  <2>4. Install!Recorded(l.dir) = Ready(cur)
    BY <2>2, Stages DEF Ready
  <2> QED
    BY <2>1, <2>2, <2>3, <2>4 DEF Stage
<1>3. ASSUME NEW l \in Install!OwnStage(cur), NEW d \in Install!Dir,
             left' = (left \ {l}) \cup {[l EXCEPT !.dir = d]}
      PROVE  /\ left' \subseteq Leftover /\ Apart' /\ entries \subseteq left'
             /\ \A m \in left' :
                  \/ m.kind = "stage" /\ m.id = cur.id /\ m.run = commands /\ m.dir = d
                  \/ m \in left /\ ~SameSlot(l, m)
  <2>1. l \in left /\ l.kind = "stage" /\ l.id = cur.id /\ l.run = commands /\ l \in Leftover
    BY <1>2, <1>3 DEF PluginInv, Typed
  <2>2. entries = {}
    BY <1>1 DEF PluginInv, Earlier, Control
  <2> DEFINE new == [l EXCEPT !.dir = d]
  <2>3. new.kind = "stage" /\ new.id = cur.id /\ new.run = commands /\ new.dir = d
    BY <2>1, LeftsAre
  <2>4. /\ left' \subseteq Leftover /\ Apart'
        /\ \A m \in left' : m = new \/ (m \in left /\ m # l /\ ~SameSlot(l, m))
    BY <1>3, <2>1, Redone DEF PluginInv
  <2> HIDE DEF new
  <2> QED
    BY <2>2, <2>3, <2>4
<1>typed. Typed'
  <2>1. left' \subseteq Leftover /\ entries \subseteq left'
    BY <1>1, <1>2, <1>3 DEF PluginInv, Typed
  <2>2. victim' \in left' \cup {Missing}
    BY <1>1, <1>2 DEF PluginInv, Typed, Victim
  <2> QED
    BY <1>1, <2>1, <2>2, LeftsAre DEF PluginInv, Typed
<1>control. Control'
  <2>1. \A m \in left' : m.run <= commands
    BY <1>1, <1>2, <1>3 DEF PluginInv, Control
  <2> QED
    BY <1>1, <2>1, PackagesAre DEF PluginInv, Control, Typed
<1>apart. Apart'
  <2>1. CASE left' = left
    BY <2>1 DEF PluginInv, Apart
  <2> QED
    BY <1>1, <1>2, <1>3, <2>1
<1>victim. Victim'
  BY DEF PluginInv, Victim, Control, Earlier, OnePerPlugin, Install!WriteRecord, Install!Rest,
     Install!Erase, Install!OwnStage, Install!StageBecomes
<1>earlier. Earlier'
  <2>1. \A m \in left' : m.run < commands => IsBare(m)
    <3>1. entries = {} /\ commands \in Nat /\ \A m \in left : m.run < commands => IsBare(m)
      BY <1>1 DEF PluginInv, Control, Earlier
    <3>2. CASE left' = left
      BY <3>1, <3>2
    <3> QED
      BY <1>1, <1>2, <1>3, <3>1, <3>2
  <2> QED
    BY <1>1, <2>1 DEF PluginInv, Control, Earlier, IsBare
<1>batch. OnePerPlugin'
  <2>1. /\ op # "remove" /\ cur.id \in Ids
        /\ \A p \in todo : p.id # cur.id
        /\ \A q \in prepared : q.package.id # cur.id
    BY <1>1, PackagesAre DEF PluginInv, Control, OnePerPlugin
  <2>2. CASE prepared' = prepared
    BY <1>1, <2>1, <2>2 DEF PluginInv, Control, OnePerPlugin
  <2>3. CASE pc' = "prepare" /\ prepared' = prepared \cup {[package |-> cur, staged |-> TRUE]}
    <3> DEFINE new == [package |-> cur, staged |-> TRUE]
    <3>1. new.package = cur /\ prepared' = prepared \cup {new}
      BY <2>3
    <3> HIDE DEF new
    <3> QED
      BY <1>1, <2>1, <2>3, <3>1 DEF PluginInv, Control, OnePerPlugin
  <2> QED
    BY <1>1, <2>2, <2>3
<1>own. Own'
  <2>1. ASSUME pc' = "prepare", NEW l \in Install!OwnStage(cur),
               left' = (left \ {l}) \cup {[l EXCEPT !.dir = Install!Recorded(l.dir)]},
               NEW m \in left', m.run = commands
        PROVE  /\ (IF m.kind = "stage" THEN Stage(m) ELSE Aside(m))'
               /\ op = "remove" => m.kind = "removed"
    <3>1. \A q \in prepared : q.package.id # cur.id
      BY <1>1 DEF PluginInv, OnePerPlugin
    <3>2. CASE m.kind = "stage" /\ m.id = cur.id /\ m.dir = Install!Recorded(l.dir)
      <4> DEFINE new == [package |-> cur, staged |-> TRUE]
      <4>1. new.package = cur /\ prepared' = prepared \cup {new} /\ m.dir = Ready(cur)
        BY <1>1, <1>2, <2>1, <3>2
      <4> HIDE DEF new
      <4> QED
        BY <1>1, <1>2, <2>1, <3>1, <3>2, <4>1 DEF Stage, PluginId
    <3>3. CASE m \in left /\ ~SameSlot(l, m)
      <4>1. m.kind = "stage" => m.id # cur.id
        BY <1>2, <2>1, <3>3 DEF SameSlot
      <4>2. IF m.kind = "stage" THEN Stage(m) ELSE Aside(m)
        BY <2>1, <3>3 DEF PluginInv, Own
      <4> QED
        BY <1>1, <2>1, <4>1, <4>2 DEF Stage, Aside, PluginId, Ready
    <3> QED
      BY <1>2, <1>3, <2>1, <3>2, <3>3
  <2>2. CASE left' = left /\ pc' # "prepare"
    BY <1>1, <2>2 DEF PluginInv, Own, Stage, Aside, PluginId
  <2> QED
    BY <1>1, <2>1, <2>2 DEF Own
<1>sound. AllThere'
  <2>1. \A m \in left' : m.kind = "backup" => m \in left
    <3>1. CASE left' = left
      BY <3>1
    <3> QED
      BY <1>1, <1>2, <1>3, <3>1
  <2> QED
    BY <1>1, <2>1 DEF PluginInv, AllThere, Control, Install!Intact
<1> QED
  BY <1>typed, <1>control, <1>apart, <1>victim, <1>earlier, <1>batch, <1>own, <1>sound DEF PluginInv

\* The batch is prepared.
LEMMA AllPreparedStep == ASSUME PluginInv, Install!AllPrepared PROVE PluginInv'
<1>typed. Typed'
  BY DEF PluginInv, Typed, Install!AllPrepared, Install!plan, Install!disk
<1>control. Control'
  BY DEF PluginInv, Control, Install!AllPrepared, Install!bounds, Install!plan, Install!disk
<1>apart. Apart'
  BY DEF PluginInv, Apart, Install!AllPrepared, Install!disk
<1>victim. Victim'
  BY DEF PluginInv, Victim, Install!AllPrepared
<1>earlier. Earlier'
  BY DEF PluginInv, Earlier, Install!AllPrepared, Install!bounds, Install!plan, Install!disk
<1>batch. OnePerPlugin'
  BY DEF PluginInv, OnePerPlugin, Install!AllPrepared, Install!plan
<1>own. Own'
  BY DEF PluginInv, Own, Stage, Aside, Install!AllPrepared, Install!bounds, Install!plan,
     Install!disk
<1>sound. AllThere'
  BY DEF PluginInv, AllThere, Install!AllPrepared, Install!plan, Install!disk
<1> QED
  BY <1>typed, <1>control, <1>apart, <1>victim, <1>earlier, <1>batch, <1>own, <1>sound DEF PluginInv

\* The stages of a batch that is given up are deleted.
LEMMA DropAllStep == ASSUME PluginInv, Install!DropAll PROVE PluginInv'
<1>typed. Typed'
  BY DEF PluginInv, Typed, Install!DropAll, Install!plan, Install!disk, Install!Erase,
     Install!OwnStage
<1>control. Control'
  BY DEF PluginInv, Control, Install!DropAll, Install!bounds, Install!plan, Install!disk,
     Install!Erase
<1>apart. Apart'
  BY DEF PluginInv, Apart, Install!DropAll, Install!disk
<1>victim. Victim'
  BY DEF PluginInv, Victim, Earlier, OnePerPlugin, Install!DropAll, Install!bounds,
     Install!disk, Install!Erase, Install!OwnStage
<1>earlier. Earlier'
  BY DEF PluginInv, Earlier, Install!DropAll, Install!bounds, Install!plan, Install!disk,
     Install!Erase
<1>batch. OnePerPlugin'
  BY DEF PluginInv, OnePerPlugin, Install!DropAll, Install!plan, Install!Erase
<1>own. Own'
  BY DEF PluginInv, Own, Stage, Aside, PluginId, Install!DropAll, Install!bounds, Install!plan,
     Install!disk, Install!Erase
<1>sound. AllThere'
  BY DEF PluginInv, AllThere, Install!Intact, Install!DropAll, Install!plan, Install!disk,
     Install!Erase
<1> QED
  BY <1>typed, <1>control, <1>apart, <1>victim, <1>earlier, <1>batch, <1>own, <1>sound DEF PluginInv

\* A package that was there is done.
LEMMA NothingToActivateStep == ASSUME PluginInv, Install!NothingToActivate PROVE PluginInv'
<1>typed. Typed'
  BY DEF PluginInv, Typed, Install!NothingToActivate, Install!plan, Install!disk
<1>control. Control'
  BY DEF PluginInv, Control, Install!NothingToActivate, Install!bounds, Install!plan,
     Install!disk
<1>apart. Apart'
  BY DEF PluginInv, Apart, Install!NothingToActivate, Install!disk
<1>victim. Victim'
  BY DEF PluginInv, Victim, Install!NothingToActivate
<1>earlier. Earlier'
  BY DEF PluginInv, Earlier, Install!NothingToActivate, Install!bounds, Install!disk
<1>batch. OnePerPlugin'
  BY DEF PluginInv, OnePerPlugin, Install!NothingToActivate, Install!plan
<1>own. Own'
  BY DEF PluginInv, Own, Stage, Aside, PluginId, Install!NothingToActivate, Install!bounds,
     Install!plan, Install!disk
<1>sound. AllThere'
  BY DEF PluginInv, AllThere, Install!Intact, Install!NothingToActivate, Install!plan,
     Install!disk
<1> QED
  BY <1>typed, <1>control, <1>apart, <1>victim, <1>earlier, <1>batch, <1>own, <1>sound DEF PluginInv

\* A destination is looked at again.
LEMMA InspectStep == ASSUME PluginInv, Install!Inspect PROVE PluginInv'
<1>1. PICK q \in prepared :
        /\ q.staged
        /\ \/ /\ active[q.package.id] = Missing /\ pc' = "swap" /\ cur' = q.package
              /\ UNCHANGED <<prepared, victim, next>>
           \/ /\ Install!Intact(q.package.id) /\ pc' = "claim" /\ cur' = q.package
              /\ UNCHANGED <<prepared, victim, next>>
           \/ Install!GiveUp(q.package)
  BY DEF Install!Inspect
<1>2. /\ pc = "activate" /\ op # "remove" /\ next = "idle" /\ todo = {}
      /\ UNCHANGED <<active, left, trash, index, op, offered, requests, todo, entries, commands>>
  BY DEF PluginInv, Control, OnePerPlugin, Install!Inspect, Install!disk, Install!plan,
         Install!bounds
<1>3. /\ q \in Prepared /\ q.package \in Install!Packages
      /\ q = [package |-> q.package, staged |-> TRUE]
  BY <1>1, IsStaged DEF PluginInv, Typed
<1>4. Install!GiveUp(q.package) =>
        /\ pc' = "erase" /\ next' = "activate" /\ cur' = Missing /\ prepared' \subseteq prepared
        /\ victim' \in left /\ victim'.kind = "stage" /\ victim'.id = q.package.id
        /\ victim'.run = commands
        /\ \A r \in prepared' : r.package.id # q.package.id
  BY <1>3, GivesUp
<1>typed. Typed'
  BY <1>1, <1>2, <1>3, <1>4 DEF PluginInv, Typed
<1>control. Control'
  BY <1>1, <1>2, <1>3, <1>4 DEF PluginInv, Control
<1>apart. Apart'
  BY DEF PluginInv, Apart, Install!Inspect, Install!disk
<1>victim. Victim'
  <2>1. entries = {} /\ victim = Missing
    BY <1>2 DEF PluginInv, Earlier, Victim
  <2> QED
    BY <1>1, <1>2, <1>4, <2>1 DEF Victim
<1>earlier. Earlier'
  BY <1>1, <1>2, <1>4 DEF PluginInv, Earlier, IsBare
<1>batch. OnePerPlugin'
  BY <1>1, <1>2, <1>3, <1>4 DEF PluginInv, OnePerPlugin
<1>own. Own'
  <2>1. prepared' \subseteq prepared /\ pc' \notin Fetching
    BY <1>1, <1>4
  <2> QED
    BY <1>2, <2>1 DEF PluginInv, Own, Stage, Aside, PluginId
<1>sound. AllThere'
  BY <1>1, <1>2, <1>4 DEF PluginInv, AllThere, Install!Intact
<1> QED
  BY <1>typed, <1>control, <1>apart, <1>victim, <1>earlier, <1>batch, <1>own, <1>sound DEF PluginInv

\* The installed plugin is set aside.
LEMMA SetAsideStep == ASSUME PluginInv, Install!SetAside PROVE PluginInv'
<1> DEFINE new == [kind |-> "backup", id |-> cur.id, run |-> commands, dir |-> active[cur.id]]
           pair == [package |-> cur, staged |-> TRUE]
<1>1. /\ pc = "setAside" /\ op # "remove" /\ next = "idle" /\ cur \in Install!Packages
      /\ UNCHANGED <<trash, index, op, offered, requests, todo, entries, commands>>
      /\ \/ /\ active' = [active EXCEPT ![cur.id] = Missing] /\ left' = left \cup {new}
            /\ pc' = "swap" /\ UNCHANGED <<prepared, cur, victim, next>>
         \/ Install!GiveUp(cur) /\ UNCHANGED <<active, left>>
  BY DEF PluginInv, Control, Install!SetAside, Install!plan, Install!Rest
<1>2. /\ cur.id \in Ids /\ active \in [Ids -> Install!Dir \cup {Missing}] /\ commands \in Nat
      /\ active[cur.id] \in Install!Dir /\ active[cur.id] # Missing /\ active[cur.id].record
      /\ active[cur.id].files = "whole" /\ pair \in prepared /\ pair.package = cur /\ pair.staged
      /\ left \subseteq Leftover /\ entries = {} /\ todo = {} /\ victim = Missing
  <2>1. cur.id \in Ids
    BY <1>1, PackagesAre
  <2>2. /\ active \in [Ids -> Install!Dir \cup {Missing}] /\ left \subseteq Leftover
        /\ commands \in Nat /\ pair \in prepared /\ todo = {} /\ victim = Missing
    BY <1>1 DEF PluginInv, Typed, Control, OnePerPlugin, Victim
  <2>3. entries = {}
    BY <1>1 DEF PluginInv, Earlier, Control
  <2>4. active[cur.id] # Missing /\ active[cur.id].record /\ active[cur.id].files = "whole"
    BY <1>1 DEF PluginInv, AllThere, Install!Intact
  <2> QED
    BY <2>1, <2>2, <2>3, <2>4
<1>3. Install!GiveUp(cur) =>
        /\ pc' = "erase" /\ next' = "activate" /\ cur' = Missing /\ prepared' \subseteq prepared
        /\ victim' \in left /\ victim'.kind = "stage" /\ victim'.id = cur.id
        /\ victim'.run = commands
        /\ \A r \in prepared' : r.package.id # cur.id
  BY <1>1, <1>2, GivesUp
<1>4. /\ new \in Leftover /\ new.kind = "backup" /\ new.id = cur.id /\ new.run = commands
      /\ new.dir = active[cur.id]
  BY <1>2, LeftsAre DEF Install!Kinds
<1> HIDE DEF new
<1>5. \A m \in left : m.id = cur.id => m.kind = "stage"
  <2> SUFFICES ASSUME NEW m \in left, m.id = cur.id, m.kind # "stage"
               PROVE  FALSE
    OBVIOUS
  <2>1. m.run \in Nat /\ m.run <= commands
    BY <1>2, LeftsAre DEF PluginInv, Control
  <2>2. CASE m.run = commands
    BY <1>1, <1>2, <2>2 DEF PluginInv, Own, Aside
  <2>3. CASE m.run < commands
    BY <1>1, <2>3 DEF PluginInv, Earlier, IsBare
  <2> QED
    BY <1>2, <2>1, <2>2, <2>3
<1>6. left' = left \cup {new} => left' \subseteq Leftover /\ Apart'
  BY <1>4, <1>5, Added DEF PluginInv, SameSlot
<1>typed. Typed'
  <2>1. active' \in [Ids -> Install!Dir \cup {Missing}]
    BY <1>1, <1>2
  <2>2. left' \subseteq Leftover /\ entries' \subseteq left' /\ victim' \in left' \cup {Missing}
    BY <1>1, <1>2, <1>3, <1>6
  <2>3. prepared' \subseteq prepared /\ cur' \in Install!Packages \cup {Missing}
    BY <1>1, <1>3
  <2> QED
    BY <1>1, <2>1, <2>2, <2>3 DEF PluginInv, Typed
<1>control. Control'
  BY DEF PluginInv, Control, Install!SetAside, Install!Rest, Install!plan, Install!GiveUp,
     Install!Erase
<1>apart. Apart'
  <2>1. CASE left' = left
    BY <2>1 DEF PluginInv, Apart
  <2> QED
    BY <1>1, <1>6, <2>1
<1>victim. Victim'
  BY DEF PluginInv, Victim, Earlier, OnePerPlugin, Install!SetAside, Install!Rest,
     Install!GiveUp, Install!Erase, Install!OwnStage
<1>earlier. Earlier'
  BY DEF PluginInv, Earlier, Control, Install!SetAside, Install!Rest, Install!GiveUp,
     Install!Erase
<1>batch. OnePerPlugin'
  BY DEF PluginInv, OnePerPlugin, Install!SetAside, Install!plan, Install!GiveUp, Install!Erase
<1>own. Own'
  BY DEF PluginInv, Own, Stage, Aside, Control, OnePerPlugin, Install!SetAside, Install!Rest,
     Install!plan, Install!GiveUp, Install!Erase
<1>sound. AllThere'
  <2>1. CASE /\ left' = left \cup {new} /\ active' = [active EXCEPT ![cur.id] = Missing]
             /\ pc' = "swap" /\ next' = next
    <3>1. active'[cur.id] = Missing /\ \A i \in Ids : i # cur.id => active'[i] = active[i]
      BY <1>2, <2>1
    <3>2. \A m \in left : m.id \in Ids
      BY <1>2, LeftsAre
    <3> QED
      BY <1>1, <1>2, <1>4, <2>1, <3>1, <3>2 DEF PluginInv, AllThere
  <2>2. CASE Install!GiveUp(cur) /\ UNCHANGED <<active, left>>
    BY <1>1, <1>3, <2>2 DEF PluginInv, AllThere
  <2> QED
    BY <1>1, <2>1, <2>2
<1> QED
  BY <1>typed, <1>control, <1>apart, <1>victim, <1>earlier, <1>batch, <1>own, <1>sound DEF PluginInv

\* The stage becomes the plugin.
LEMMA SwapStep == ASSUME PluginInv, Install!Swap PROVE PluginInv'
<1>1. PICK l \in Install!OwnStage(cur) :
        active' = [active EXCEPT ![cur.id] = l.dir] /\ left' = left \ {l}
  BY DEF Install!Swap
<1>2. /\ pc = "swap" /\ pc' = "unmark" /\ cur \in Install!Packages /\ op # "remove"
      /\ next = "idle" /\ active[cur.id] = Missing
      /\ prepared' = prepared \ {[package |-> cur, staged |-> TRUE]}
      /\ UNCHANGED <<trash, index, op, offered, requests, todo, entries, cur, victim, next,
                     commands>>
  BY DEF PluginInv, Control, Install!Swap, Install!plan, Install!bounds
<1>3. /\ cur.id \in Ids /\ active \in [Ids -> Install!Dir \cup {Missing}]
      /\ left \subseteq Leftover /\ entries = {} /\ todo = {} /\ victim = Missing
      /\ l \in left /\ l.kind = "stage" /\ l.id = cur.id /\ l.run = commands
      /\ l.dir \in Install!Dir /\ l.dir # Missing /\ l.dir = Ready(cur)
  <2>1. cur.id \in Ids
    BY <1>2, PackagesAre
  <2>2. /\ active \in [Ids -> Install!Dir \cup {Missing}] /\ left \subseteq Leftover
        /\ todo = {} /\ victim = Missing
    BY <1>2 DEF PluginInv, Typed, OnePerPlugin, Victim
  <2>3. entries = {}
    BY <1>2 DEF PluginInv, Earlier, Control
  <2>4. l \in left /\ l.kind = "stage" /\ l.id = cur.id /\ l.run = commands
    BY DEF Install!OwnStage
  <2>5. l.dir \in Install!Dir /\ l.dir # Missing
    BY <2>2, <2>4, LeftsAre, DirsAre
  <2> DEFINE pair == [package |-> cur, staged |-> TRUE]
  <2>6. pair \in prepared /\ pair.package = cur /\ pair.staged
    BY <1>2 DEF PluginInv, OnePerPlugin
  <2> HIDE DEF pair
  <2>7. l.dir = Ready(cur)
    BY <2>4, <2>6 DEF PluginInv, Own, Stage
  <2> QED
    BY <2>1, <2>2, <2>3, <2>4, <2>5, <2>7
<1>typed. Typed'
  <2>1. active' \in [Ids -> Install!Dir \cup {Missing}]
    BY <1>1, <1>3
  <2>2. left' \subseteq Leftover /\ entries' \subseteq left' /\ prepared' \subseteq prepared
    BY <1>1, <1>2, <1>3
  <2> QED
    BY <1>2, <1>3, <2>1, <2>2 DEF PluginInv, Typed
<1>control. Control'
  BY DEF PluginInv, Control, Install!Swap, Install!bounds, Install!plan
<1>apart. Apart'
  BY DEF PluginInv, Apart, Install!Swap
<1>victim. Victim'
  BY DEF PluginInv, Victim, Install!Swap
<1>earlier. Earlier'
  BY DEF PluginInv, Earlier, Install!Swap, Install!bounds, Install!plan
<1>batch. OnePerPlugin'
  BY DEF PluginInv, OnePerPlugin, Install!Swap, Install!plan
<1>own. Own'
  BY DEF PluginInv, Own, Stage, Aside, OnePerPlugin, Install!Swap, Install!bounds, Install!plan
<1>sound. AllThere'
  <2>1. active'[cur.id] = l.dir /\ \A i \in Ids : i # cur.id => active'[i] = active[i]
    BY <1>1, <1>3
  <2>2. l.dir.record /\ l.dir.files = "whole"
    BY <1>3 DEF Ready
  <2>3. \A m \in left : m.id \in Ids
    BY <1>3, LeftsAre
  <2> QED
    BY <1>1, <1>2, <1>3, <2>1, <2>2, <2>3 DEF PluginInv, AllThere
<1> QED
  BY <1>typed, <1>control, <1>apart, <1>victim, <1>earlier, <1>batch, <1>own, <1>sound DEF PluginInv

\* The swap fails, and what was set aside is put back if that works.
LEMMA SwapFailsStep == ASSUME PluginInv, Install!SwapFails PROVE PluginInv'
<1> DEFINE pair == [package |-> cur, staged |-> TRUE]
<1>1. /\ pc = "swap" /\ op # "remove" /\ next = "idle" /\ cur \in Install!Packages
      /\ Install!GiveUp(cur)
      /\ UNCHANGED <<trash, index, op, offered, requests, todo, entries, commands>>
      /\ \/ UNCHANGED <<active, left>>
         \/ /\ active[cur.id] = Missing
            /\ \E l \in Install!Backup :
                 active' = [active EXCEPT ![cur.id] = l.dir] /\ left' = left \ {l}
  BY DEF PluginInv, Control, Install!SwapFails, Install!plan, Install!Rest
<1>2. /\ pair \in prepared /\ pair.package = cur /\ pair.staged /\ cur.id \in Ids
      /\ left \subseteq Leftover /\ entries = {} /\ todo = {} /\ victim = Missing
      /\ active \in [Ids -> Install!Dir \cup {Missing}]
  <2>1. cur.id \in Ids
    BY <1>1, PackagesAre
  <2>2. /\ active \in [Ids -> Install!Dir \cup {Missing}] /\ left \subseteq Leftover
        /\ pair \in prepared /\ todo = {} /\ victim = Missing
    BY <1>1 DEF PluginInv, Typed, OnePerPlugin, Victim
  <2>3. entries = {}
    BY <1>1 DEF PluginInv, Earlier, Control
  <2> QED
    BY <2>1, <2>2, <2>3
<1>3. /\ pc' = "erase" /\ next' = "activate" /\ cur' = Missing /\ prepared' \subseteq prepared
      /\ victim' \in left /\ victim'.kind = "stage" /\ victim'.id = cur.id
      /\ victim'.run = commands
      /\ \A r \in prepared' : r.package.id # cur.id
  BY <1>1, <1>2, GivesUp
<1> HIDE DEF pair
<1>4. ASSUME NEW l \in Install!Backup
      PROVE  /\ l \in left /\ l.kind = "backup" /\ l.id = cur.id /\ l.run = commands
             /\ l.dir \in Install!Dir /\ l.dir # Missing /\ l.dir.record /\ l.dir.files = "whole"
             /\ \A m \in left : m.kind = "backup" /\ m.id = cur.id => m = l
  <2>1. l \in left /\ l.kind = "backup" /\ l.id = cur.id /\ l.run = commands
    BY DEF Install!Backup
  <2>2. l.dir \in Install!Dir /\ l.dir # Missing
    BY <1>2, <2>1, LeftsAre, DirsAre
  <2> QED
    BY <2>1, <2>2 DEF PluginInv, AllThere, Apart
<1>typed. Typed'
  <2>1. active' \in [Ids -> Install!Dir \cup {Missing}]
    BY <1>1, <1>2, <1>4
  <2>2. left' \subseteq Leftover /\ victim' \in left'
    BY <1>1, <1>2, <1>3, <1>4
  <2> QED
    BY <1>1, <1>2, <1>3, <2>1, <2>2 DEF PluginInv, Typed
<1>control. Control'
  BY DEF PluginInv, Control, Install!SwapFails, Install!Rest, Install!plan, Install!GiveUp,
     Install!Erase
<1>apart. Apart'
  BY DEF PluginInv, Apart, Install!SwapFails
<1>victim. Victim'
  BY DEF PluginInv, Victim, Earlier, OnePerPlugin, Install!SwapFails, Install!Rest,
     Install!GiveUp, Install!Erase, Install!OwnStage, Install!Backup
<1>earlier. Earlier'
  BY DEF PluginInv, Earlier, Control, Install!SwapFails, Install!Rest, Install!GiveUp,
     Install!Erase
<1>batch. OnePerPlugin'
  BY DEF PluginInv, OnePerPlugin, Install!SwapFails, Install!plan, Install!GiveUp, Install!Erase
<1>own. Own'
  BY DEF PluginInv, Own, Stage, Aside, OnePerPlugin, Install!SwapFails, Install!Rest,
     Install!plan, Install!GiveUp, Install!Erase
<1>sound. AllThere'
  <2>1. CASE UNCHANGED <<active, left>>
    BY <1>1, <1>3, <2>1 DEF PluginInv, AllThere
  <2>2. ASSUME NEW l \in Install!Backup, left' = left \ {l},
               active' = [active EXCEPT ![cur.id] = l.dir]
        PROVE  AllThere'
    <3>1. active'[cur.id] = l.dir /\ \A i \in Ids : i # cur.id => active'[i] = active[i]
      BY <1>2, <2>2
    <3>2. \A m \in left' : m.kind = "backup" => m \in left /\ m.id \in Ids /\ m.id # cur.id
      <4>1. \A m \in left : m.id \in Ids
        BY <1>2, LeftsAre
      <4> QED
        BY <1>4, <2>2, <4>1
    <3> QED
      BY <1>1, <1>3, <1>4, <3>1, <3>2 DEF PluginInv, AllThere
  <2> QED
    BY <1>1, <2>1, <2>2
<1> QED
  BY <1>typed, <1>control, <1>apart, <1>victim, <1>earlier, <1>batch, <1>own, <1>sound DEF PluginInv

\* The new plugin loses its marker.
LEMMA UnmarkStep == ASSUME PluginInv, Install!Unmark PROVE PluginInv'
<1>1. /\ pc = "unmark" /\ op # "remove" /\ next = "idle" /\ cur \in Install!Packages
      /\ UNCHANGED <<left, trash, index, op, offered, requests, todo, entries, prepared, victim,
                     next, commands>>
      /\ \/ /\ active' = [active EXCEPT ![cur.id].marker = FALSE]
            /\ \/ pc' = "activate" /\ cur' = Missing
               \/ pc' = "retire" /\ cur' = cur
         \/ pc' = "activate" /\ cur' = Missing /\ active' = active
  BY DEF PluginInv, Control, Install!Unmark, Install!plan, Install!Rest
<1>2. /\ cur.id \in Ids /\ active \in [Ids -> Install!Dir \cup {Missing}]
      /\ active[cur.id] # Missing /\ active[cur.id] \in Install!Dir
  BY <1>1, PackagesAre DEF PluginInv, Typed, AllThere
<1> DEFINE clear == [active[cur.id] EXCEPT !.marker = FALSE]
<1>3. /\ clear \in Install!Dir /\ clear # Missing
      /\ clear.record = active[cur.id].record /\ clear.files = active[cur.id].files
  <2>1. clear.record = active[cur.id].record /\ clear.files = active[cur.id].files
    BY <1>2 DEF Install!Dir
  <2> QED
    BY <1>2, <2>1, DirsAre
<1>4. active' # active => active' = [active EXCEPT ![cur.id] = clear]
  BY <1>1, <1>2
<1> HIDE DEF clear
<1>typed. Typed'
  <2>1. active' \in [Ids -> Install!Dir \cup {Missing}]
    BY <1>2, <1>3, <1>4
  <2> QED
    BY <1>1, <2>1 DEF PluginInv, Typed
<1>control. Control'
  BY DEF PluginInv, Control, Install!Unmark, Install!Rest, Install!plan
<1>apart. Apart'
  BY DEF PluginInv, Apart, Install!Unmark
<1>victim. Victim'
  BY DEF PluginInv, Victim, Install!Unmark
<1>earlier. Earlier'
  BY DEF PluginInv, Earlier, Install!Unmark, Install!Rest, Install!plan
<1>batch. OnePerPlugin'
  BY DEF PluginInv, OnePerPlugin, Install!Unmark, Install!plan
<1>own. Own'
  BY DEF PluginInv, Own, Stage, Aside, PluginId, Install!Unmark, Install!Rest, Install!plan
<1>sound. AllThere'
  <2>1. ASSUME NEW i \in Ids
        PROVE  /\ active'[i] = Missing <=> active[i] = Missing
               /\ active[i] # Missing => /\ active'[i].files = active[i].files
                                         /\ active'[i].record = active[i].record
    BY <1>2, <1>3, <1>4
  <2>2. \A m \in left : m.id \in Ids
    BY LeftsAre DEF PluginInv, Typed
  <2> QED
    BY <1>1, <1>2, <2>1, <2>2 DEF PluginInv, AllThere
<1> QED
  BY <1>typed, <1>control, <1>apart, <1>victim, <1>earlier, <1>batch, <1>own, <1>sound DEF PluginInv

\* What was set aside is retired.
LEMMA RetireStep == ASSUME PluginInv, Install!Retire PROVE PluginInv'
<1> DEFINE gone(l) == [l EXCEPT !.kind = "removed"]
<1>1. /\ pc = "retire" /\ op # "remove" /\ next = "idle" /\ cur' = Missing
      /\ UNCHANGED <<active, trash, index, op, offered, requests, todo, entries, prepared,
                     commands>>
      /\ \/ \E l \in Install!Backup :
              /\ left' = (left \ {l}) \cup {gone(l)}
              /\ victim' = gone(l) /\ pc' = "erase" /\ next' = "activate"
         \/ pc' = "activate" /\ UNCHANGED <<left, victim, next>>
  BY DEF PluginInv, Control, Install!Retire, Install!Rest, Install!plan, Install!Erase
<1>2. left \subseteq Leftover /\ entries = {} /\ todo = {} /\ victim = Missing /\ commands \in Nat
  BY <1>1 DEF PluginInv, Typed, Control, Victim, Earlier, OnePerPlugin
<1>3. ASSUME NEW l \in Install!Backup, left' = (left \ {l}) \cup {gone(l)}
      PROVE  /\ left' \subseteq Leftover /\ Apart'
             /\ gone(l).kind = "removed" /\ gone(l).run = commands /\ gone(l) \in left'
             /\ \A q \in prepared : q.staged => q.package.id # gone(l).id
             /\ \A m \in left' : m = gone(l) \/ m \in left
  <2>1. l \in left /\ l.kind = "backup" /\ l.run = commands /\ l \in Leftover
    BY <1>2 DEF Install!Backup
  <2>2. gone(l).kind = "removed" /\ gone(l).id = l.id /\ gone(l).run = commands
    BY <2>1, LeftsAre
  <2>3. left' \subseteq Leftover /\ Apart'
    BY <1>3, <2>1, Retired DEF PluginInv
  <2>4. \A q \in prepared : q.staged => q.package.id # l.id
    BY <1>1, <2>1 DEF PluginInv, Own, Aside
  <2> QED
    BY <1>3, <2>2, <2>3, <2>4
<1>4. \/ \E l \in Install!Backup :
           /\ left' = (left \ {l}) \cup {gone(l)}
           /\ victim' = gone(l) /\ pc' = "erase" /\ next' = "activate"
      \/ pc' = "activate" /\ UNCHANGED <<left, victim, next>>
  BY <1>1
<1> HIDE DEF gone
<1>5. \/ /\ pc' = "erase" /\ next' = "activate" /\ victim' \in left' /\ left' \subseteq Leftover
         /\ victim'.kind = "removed" /\ victim'.run = commands /\ Apart'
         /\ \A q \in prepared : q.staged => q.package.id # victim'.id
         /\ \A m \in left' : m = victim' \/ m \in left
      \/ pc' = "activate" /\ left' = left /\ victim' = Missing /\ next' = "idle"
  BY <1>1, <1>2, <1>3, <1>4
<1>typed. Typed'
  BY <1>1, <1>2, <1>5 DEF PluginInv, Typed
<1>control. Control'
  <2>1. \A m \in left' : m.run <= commands
    BY <1>2, <1>5 DEF PluginInv, Control
  <2> QED
    BY <1>1, <1>5, <2>1 DEF PluginInv, Control
<1>apart. Apart'
  <2>1. CASE left' = left
    BY <2>1 DEF PluginInv, Apart
  <2> QED
    BY <1>5, <2>1
<1>victim. Victim'
  BY <1>1, <1>2, <1>5 DEF Victim
<1>earlier. Earlier'
  BY <1>1, <1>2, <1>5 DEF PluginInv, Earlier, IsBare
<1>batch. OnePerPlugin'
  BY <1>1, <1>5 DEF PluginInv, OnePerPlugin
<1>own. Own'
  <2> SUFFICES ASSUME NEW m \in left', m.run = commands
               PROVE  (IF m.kind = "stage" THEN Stage(m) ELSE Aside(m))'
    BY <1>1 DEF Own
  <2>1. CASE m = victim' /\ victim'.kind = "removed" /\ pc' = "erase"
    BY <1>1, <1>2, <1>5, <2>1 DEF Aside
  <2>2. CASE m \in left
    <3>1. IF m.kind = "stage" THEN Stage(m) ELSE Aside(m)
      BY <2>2 DEF PluginInv, Own
    <3> QED
      BY <1>1, <1>2, <1>5, <3>1 DEF Stage, Aside
  <2> QED
    BY <1>5, <2>1, <2>2
<1>sound. AllThere'
  BY <1>1, <1>5 DEF PluginInv, AllThere
<1> QED
  BY <1>typed, <1>control, <1>apart, <1>victim, <1>earlier, <1>batch, <1>own, <1>sound DEF PluginInv

\* The batch is activated.
LEMMA AllActivatedStep == ASSUME PluginInv, Install!AllActivated PROVE PluginInv'
<1>typed. Typed'
  BY DEF PluginInv, Typed, Install!AllActivated, Install!End, Install!disk, Install!Clear
<1>control. Control'
  BY DEF PluginInv, Control, Install!AllActivated, Install!End, Install!bounds, Install!disk,
     Install!Clear
<1>apart. Apart'
  BY DEF PluginInv, Apart, Install!AllActivated, Install!End, Install!disk
<1>victim. Victim'
  BY DEF Victim, Install!AllActivated, Install!End, Install!Clear
<1>earlier. Earlier'
  BY DEF Earlier, Install!AllActivated, Install!End, Install!Clear
<1>batch. OnePerPlugin'
  BY DEF OnePerPlugin, Install!AllActivated, Install!End, Install!Clear
<1>own. Own'
  BY DEF Own, Stage, Aside, Install!AllActivated, Install!End, Install!Clear
<1>sound. AllThere'
  BY DEF PluginInv, AllThere, Install!AllActivated, Install!End, Install!disk, Install!Clear
<1> QED
  BY <1>typed, <1>control, <1>apart, <1>victim, <1>earlier, <1>batch, <1>own, <1>sound DEF PluginInv

\* A removal checks its ids.
LEMMA CheckRemovalsStep == ASSUME PluginInv, Install!CheckRemovals PROVE PluginInv'
<1>typed. Typed'
  BY DEF PluginInv, Typed, Install!CheckRemovals, Install!disk
<1>control. Control'
  <2>1. /\ pc = "remove" /\ op = "remove" /\ next = "idle" /\ todo' \subseteq Ids
        /\ pc' \in {"claimRemove", "end"}
        /\ UNCHANGED <<left, op, offered, cur, next, commands>>
    BY DEF PluginInv, Typed, Control, AskedFor, Earlier, Install!CheckRemovals, Install!disk,
           Install!bounds
  <2> QED
    BY <2>1 DEF PluginInv, Control
<1>apart. Apart'
  BY DEF PluginInv, Apart, Install!CheckRemovals, Install!disk
<1>victim. Victim'
  BY DEF PluginInv, Victim, Install!CheckRemovals
<1>earlier. Earlier'
  BY DEF PluginInv, Earlier, Control, Install!CheckRemovals, Install!disk
<1>batch. OnePerPlugin'
  BY DEF PluginInv, OnePerPlugin, Control, Install!CheckRemovals
<1>own. Own'
  BY DEF PluginInv, Own, Control, Earlier, Install!CheckRemovals, Install!bounds, Install!disk
<1>sound. AllThere'
  BY DEF PluginInv, AllThere, Install!Intact, Install!CheckRemovals, Install!disk
<1> QED
  BY <1>typed, <1>control, <1>apart, <1>victim, <1>earlier, <1>batch, <1>own, <1>sound DEF PluginInv

\* A plugin is taken out.
LEMMA TakeOutStep == ASSUME PluginInv, Install!TakeOut PROVE PluginInv'
<1> DEFINE gone(i) == [kind |-> "removed", id |-> i, run |-> commands, dir |-> active[i]]
<1>1. PICK i \in todo :
        \/ /\ active' = [active EXCEPT ![i] = Missing] /\ left' = left \cup {gone(i)}
           /\ todo' = todo \ {i} /\ victim' = gone(i) /\ pc' = "erase" /\ next' = "takeOut"
        \/ pc' = "end" /\ UNCHANGED <<active, left, todo, victim, next>>
  BY DEF Install!TakeOut, Install!Erase
<1>2. /\ pc = "takeOut" /\ op = "remove" /\ next = "idle" /\ todo \subseteq Ids
      /\ entries = {} /\ left \subseteq Leftover /\ commands \in Nat /\ victim = Missing
      /\ active \in [Ids -> Install!Dir \cup {Missing}]
      /\ UNCHANGED <<trash, index, op, offered, requests, entries, prepared, cur, commands>>
  BY DEF PluginInv, Typed, Control, Victim, Earlier, Install!TakeOut, Install!Rest
<1>3. /\ i \in Ids /\ active[i] # Missing /\ active[i] \in Install!Dir
      /\ \A j \in todo : Install!Intact(j)
  BY <1>1, <1>2 DEF PluginInv, AllThere, Install!Intact
<1> DEFINE new == gone(i)
<1>4. /\ new \in Leftover /\ new.kind = "removed" /\ new.id = i /\ new.run = commands
  BY <1>2, <1>3, LeftsAre DEF Install!Kinds
<1>5. \/ /\ active' = [active EXCEPT ![i] = Missing] /\ left' = left \cup {new}
         /\ todo' = todo \ {i} /\ victim' = new /\ pc' = "erase" /\ next' = "takeOut"
      \/ pc' = "end" /\ UNCHANGED <<active, left, todo, victim, next>>
  BY <1>1
<1> HIDE DEF new, gone
<1>6. \A m \in left : m.run = commands => m.kind = "removed" /\ m.id # i
  BY <1>1, <1>2 DEF PluginInv, Own, Aside, PluginId
<1>7. left' = left \cup {new} =>
        left' \subseteq Leftover /\ Apart' /\ \A m \in left : ~SameSlot(new, m)
  <2>1. \A m \in left : ~SameSlot(new, m)
    BY <1>4, <1>6 DEF SameSlot
  <2> QED
    BY <1>4, <2>1, Added DEF PluginInv
<1>typed. Typed'
  <2>1. active' \in [Ids -> Install!Dir \cup {Missing}]
    BY <1>2, <1>3, <1>5
  <2> QED
    BY <1>2, <1>5, <1>7, <2>1 DEF PluginInv, Typed
<1>control. Control'
  <2>1. \A m \in left' : m.run <= commands
    BY <1>2, <1>4, <1>5 DEF PluginInv, Control
  <2> QED
    BY <1>2, <1>5, <2>1 DEF PluginInv, Control
<1>apart. Apart'
  <2>1. CASE left' = left
    BY <2>1 DEF PluginInv, Apart
  <2> QED
    BY <1>5, <1>7, <2>1
<1>victim. Victim'
  BY <1>2, <1>4, <1>5 DEF Victim
<1>earlier. Earlier'
  BY <1>2, <1>4, <1>5 DEF PluginInv, Earlier, IsBare
<1>batch. OnePerPlugin'
  BY <1>2, <1>5 DEF PluginInv, OnePerPlugin
<1>own. Own'
  <2>1. prepared = {}
    BY <1>2 DEF PluginInv, Earlier
  <2> SUFFICES ASSUME NEW m \in left', m.run = commands
               PROVE  Aside(m)' /\ m.kind = "removed"
    BY <1>2 DEF Own
  <2>2. CASE m = new /\ todo' = todo \ {i} /\ pc' = "erase"
    BY <1>2, <1>4, <1>5, <2>1, <2>2 DEF Aside, PluginId
  <2>3. CASE m \in left
    BY <1>2, <1>5, <1>6, <2>3 DEF PluginInv, Own, Aside, PluginId
  <2> QED
    BY <1>5, <2>2, <2>3
<1>sound. AllThere'
  <2>1. CASE /\ active' = [active EXCEPT ![i] = Missing] /\ left' = left \cup {new}
             /\ todo' = todo \ {i}
    <3>1. active'[i] = Missing /\ \A j \in Ids : j # i => active'[j] = active[j]
      BY <1>2, <1>3, <2>1
    <3>2. \A m \in left : m.id \in Ids
      BY <1>2, LeftsAre
    <3>3. \A m \in left' : m.kind = "backup" => m \in left
      BY <1>4, <2>1
    <3> QED
      BY <1>2, <1>3, <1>5, <2>1, <3>1, <3>2, <3>3 DEF PluginInv, AllThere, Install!Intact
  <2>2. CASE UNCHANGED <<active, left, todo>> /\ pc' = "end" /\ next' = next
    BY <1>2, <2>2 DEF PluginInv, AllThere
  <2> QED
    BY <1>5, <2>1, <2>2
<1> QED
  BY <1>typed, <1>control, <1>apart, <1>victim, <1>earlier, <1>batch, <1>own, <1>sound DEF PluginInv

\* All are taken out.
LEMMA AllOutStep == ASSUME PluginInv, Install!AllOut PROVE PluginInv'
<1>typed. Typed'
  BY DEF PluginInv, Typed, Install!AllOut, Install!End, Install!disk, Install!Clear
<1>control. Control'
  BY DEF PluginInv, Control, Install!AllOut, Install!End, Install!bounds, Install!disk,
     Install!Clear
<1>apart. Apart'
  BY DEF PluginInv, Apart, Install!AllOut, Install!End, Install!disk
<1>victim. Victim'
  BY DEF Victim, Install!AllOut, Install!End, Install!Clear
<1>earlier. Earlier'
  BY DEF Earlier, Install!AllOut, Install!End, Install!Clear
<1>batch. OnePerPlugin'
  BY DEF OnePerPlugin, Install!AllOut, Install!End, Install!Clear
<1>own. Own'
  BY DEF Own, Stage, Aside, Install!AllOut, Install!End, Install!Clear
<1>sound. AllThere'
  BY DEF PluginInv, AllThere, Install!AllOut, Install!End, Install!disk, Install!Clear
<1> QED
  BY <1>typed, <1>control, <1>apart, <1>victim, <1>earlier, <1>batch, <1>own, <1>sound DEF PluginInv

\* The owner edits a plugin.
LEMMA EditStep == ASSUME PluginInv, NEW i \in Ids, Install!Edit(i) PROVE PluginInv'
<1> DEFINE made == IF active[i] = Missing THEN Install!Manual
                   ELSE [active[i] EXCEPT !.files = "owners"]
<1>1. /\ active \in [Ids -> Install!Dir \cup {Missing}] /\ ~Install!Watched(i)
      /\ active' = [active EXCEPT ![i] = made]
      /\ UNCHANGED <<left, trash, index, op, pc, offered, requests, todo, entries, prepared, cur,
                     victim, next, commands>>
  BY DEF PluginInv, Typed, Install!Edit, Install!plan
<1>2. made \in Install!Dir /\ made # Missing /\ made.files = "owners"
  <2>1. CASE active[i] = Missing
    BY <2>1, DirsAre DEF Install!Manual
  <2>2. CASE active[i] \in Install!Dir /\ active[i] # Missing
    <3>1. [active[i] EXCEPT !.files = "owners"].files = "owners"
      BY <2>2 DEF Install!Dir
    <3> QED
      BY <2>2, <3>1, DirsAre
  <2> QED
    BY <1>1, <2>1, <2>2
<1> HIDE DEF made
<1>3. active'[i] = made /\ \A j \in Ids : j # i => active'[j] = active[j]
  BY <1>1
<1>4. \A l \in left : l.id \in Ids
  BY LeftsAre DEF PluginInv, Typed
<1>typed. Typed'
  <2>1. active' \in [Ids -> Install!Dir \cup {Missing}]
    BY <1>1, <1>2
  <2> QED
    BY <1>1, <2>1 DEF PluginInv, Typed
<1>control. Control'
  BY <1>1 DEF PluginInv, Control
<1>apart. Apart'
  BY <1>1 DEF PluginInv, Apart
<1>victim. Victim'
  <2>1. pc \in {"claimRetire", "retireOld"} => active'[victim.id] # Missing
    BY <1>2, <1>3, <1>4 DEF PluginInv, Victim
  <2> QED
    BY <1>1, <2>1 DEF PluginInv, Victim
<1>earlier. Earlier'
  BY <1>1 DEF PluginInv, Earlier, IsBare
<1>batch. OnePerPlugin'
  BY <1>1 DEF PluginInv, OnePerPlugin
<1>own. Own'
  BY <1>1 DEF PluginInv, Own, Stage, Aside, PluginId
<1>sound. AllThere'
  <2>1. pc \in {"claim", "setAside"} => cur.id \in Ids /\ cur.id # i
    BY <1>1, PackagesAre DEF PluginInv, Control, Install!Watched
  <2>2. pc \in {"unmark", "retire"} => cur.id \in Ids
    BY PackagesAre DEF PluginInv, Control
  <2>3. pc \in {"claimRemove", "takeOut"} \/ next = "takeOut" => todo \subseteq Ids /\ i \notin todo
    BY <1>1 DEF PluginInv, Control, Install!Watched
  <2> QED
    BY <1>1, <1>2, <1>3, <1>4, <2>1, <2>2, <2>3 DEF PluginInv, AllThere, Install!Intact
<1> QED
  BY <1>typed, <1>control, <1>apart, <1>victim, <1>earlier, <1>batch, <1>own, <1>sound DEF PluginInv

\* The process is killed.
LEMMA CrashStep == ASSUME PluginInv, Install!Crash PROVE PluginInv'
<1>typed. Typed'
  BY DEF PluginInv, Typed, Install!Crash, Install!disk, Install!Clear
<1>control. Control'
  BY DEF PluginInv, Control, Install!Crash, Install!disk, Install!Clear
<1>apart. Apart'
  BY DEF PluginInv, Apart, Install!Crash, Install!disk
<1>victim. Victim'
  BY DEF Victim, Install!Crash, Install!Clear
<1>earlier. Earlier'
  BY DEF Earlier, Install!Crash, Install!Clear
<1>batch. OnePerPlugin'
  BY DEF OnePerPlugin, Install!Crash, Install!Clear
<1>own. Own'
  BY DEF Own, Stage, Aside, Install!Crash, Install!Clear
<1>sound. AllThere'
  BY DEF PluginInv, AllThere, Install!Crash, Install!disk, Install!Clear
<1> QED
  BY <1>typed, <1>control, <1>apart, <1>victim, <1>earlier, <1>batch, <1>own, <1>sound DEF PluginInv

\* Nothing is left, and nothing is at work.
LEMMA PluginInvInit == Install!Init => PluginInv
<1> SUFFICES ASSUME Install!Init PROVE PluginInv
  OBVIOUS
<1>1. PICK b \in Before : active = b.active /\ trash = b.trash
  BY DEF Install!Init
<1>2. Install!BeforeOK(b)
  BY PluginsAssumption DEF Install!InstallAssumption
<1>3. /\ active \in [Ids -> Install!Dir \cup {Missing}]
      /\ trash \in {"none", "empty", "ours", "foreign"}
      /\ \A i \in Ids : active[i] # Missing => active[i].files # "partial"
  BY <1>1, <1>2 DEF Install!BeforeOK
<1>4. /\ left = {} /\ index = Missing /\ offered = Missing /\ op = "none" /\ pc = "idle"
      /\ requests = {} /\ entries = {} /\ todo = {} /\ prepared = {} /\ cur = Missing
      /\ victim = Missing /\ next = "idle" /\ commands = 0
  BY DEF Install!Init
<1>5. Typed /\ Control /\ Apart
  BY <1>3, <1>4 DEF Typed, Control, Apart
<1>6. Victim /\ Earlier /\ OnePerPlugin
  BY <1>4 DEF Victim, Earlier, OnePerPlugin
<1>7. Own /\ AllThere
  BY <1>3, <1>4 DEF Own, AllThere
<1> QED
  BY <1>5, <1>6, <1>7 DEF PluginInv

\* Every step of a command keeps it.
LEMMA CommandStep == ASSUME PluginInv, Install!Command PROVE PluginInv'
<1>1. CASE Install!Recovery
  BY <1>1, RecoverStageStep, RecoverTrashStep, RecoverBackupStep, RetireOldStep,
     RecoverMarkersStep, RecoverMarkersFailsStep DEF Install!Recovery
<1>2. CASE Install!Preparation
  BY <1>2, SelectAllStep, PlanUpdateStep, PrepareStep, FetchStep, MarkStageStep, ExtractStep,
     WriteRecordStep, AllPreparedStep, DropAllStep DEF Install!Preparation
<1>3. CASE Install!Activation
  BY <1>3, NothingToActivateStep, InspectStep, SetAsideStep, SwapStep, SwapFailsStep, UnmarkStep,
     RetireStep, AllActivatedStep DEF Install!Activation
<1>4. CASE Install!Removal
  BY <1>4, CheckRemovalsStep, TakeOutStep, AllOutStep DEF Install!Removal
<1> QED
  BY <1>1, <1>2, <1>3, <1>4, ErodeStepStep, ErasedStep, EraseFailsStep, FinishStep, ClaimTrashStep,
     ClaimFailsStep DEF Install!Command

\* Every step keeps it.
LEMMA PluginInvStep == PluginInv /\ [Install!Next]_plugins => PluginInv'
<1> SUFFICES ASSUME PluginInv, [Install!Next]_plugins PROVE PluginInv'
  OBVIOUS
<1>1. CASE Install!Next
  BY <1>1, CommandStep, StartInstallStep, StartOtherStep, CrashStep, EditStep DEF Install!Next
<1>2. CASE UNCHANGED plugins
  <2>1. UNCHANGED <<active, left, trash, index, op, pc, offered, requests, entries, todo, prepared,
                    cur, victim, next, commands>>
    BY <1>2 DEF plugins
  <2>2. (Typed /\ Control /\ Apart)'
    BY <2>1 DEF PluginInv, Typed, Control, Apart
  <2>3. (Victim /\ Earlier /\ OnePerPlugin)'
    BY <2>1 DEF PluginInv, Victim, Earlier, OnePerPlugin, IsBare
  <2>4. Own'
    <3> SUFFICES ASSUME NEW m \in left, m.run = commands
                 PROVE  /\ (IF m.kind = "stage" THEN Stage(m) ELSE Aside(m))'
                        /\ op = "remove" => m.kind = "removed"
      BY <2>1 DEF Own
    <3>1. /\ IF m.kind = "stage" THEN Stage(m) ELSE Aside(m)
          /\ op = "remove" => m.kind = "removed"
      BY DEF PluginInv, Own
    <3> QED
      BY <2>1, <3>1 DEF Stage, Aside, PluginId
  <2>5. AllThere'
    BY <2>1 DEF PluginInv, AllThere, Install!Intact
  <2> QED
    BY <2>2, <2>3, <2>4, <2>5 DEF PluginInv
<1> QED
  BY <1>1, <1>2

\* What the model checker runs is the plugins' own steps beside others that leave them alone.
LEMMA PluginsRun ==
  /\ OutsideInit => Install!Init
  /\ [OutsideNext]_outside => [Install!Next]_plugins
  BY DEF OutsideInit, NoCommand, OutsideNext, OfBrowser, OfPlugins, outside

\* The inductive invariant holds always.
THEOREM PluginInvariant == OutsideSpec => []PluginInv
  BY PluginsRun, PluginInvInit, PluginInvStep, PTL DEF OutsideSpec

\* Whatever was interrupted, what a start loads is all there, every backup can be told
\* and is not in recovery's way, and once recovery has run nothing marked or set aside
\* by an earlier command is left (plugin_install.rs recover, retire_backup, activate).
THEOREM RecoveryCanFinish == OutsideSpec => []RecoveryFinishes
<1>1. PluginInv => Install!RecoveryFinishes
  <2> SUFFICES ASSUME PluginInv PROVE Install!RecoveryFinishes
    OBVIOUS
  <2>1. Install!TypeOK
    BY DEF PluginInv, Typed, Leftover, Prepared, AskedFor, Install!TypeOK
  <2>2. Install!Whole /\ Install!Recoverable
    BY DEF PluginInv, AllThere, Install!Whole, Install!Recoverable
  <2>3. Install!Recovered
    BY DEF PluginInv, Control, Earlier, IsBare, Install!Recovered, Install!Working
  <2> QED
    BY <2>1, <2>2, <2>3 DEF Install!RecoveryFinishes
<1> QED
  BY <1>1, PluginInvariant, PTL DEF RecoveryFinishes

-----------------------------------------------------------------------------
(* What a start finds of each plugin, and what is still wanted of it.       *)

Kept(d) == IF d.files = "owners" THEN Foreign ELSE d.package

IsBackup(l, i) == l.kind = "backup" /\ l.id = i
FoundIs ==
  \A i \in Ids :
    /\ active[i] # Missing => Install!Found(i) = Kept(active[i])
    /\ active[i] = Missing =>
         /\ \A l \in left : IsBackup(l, i) => Install!Found(i) = Kept(l.dir)
         /\ (\A l \in left : ~IsBackup(l, i)) => Install!Found(i) = Missing
    /\ Install!Found(i) \in Install!Packages \cup {Missing, Foreign}
    /\ Install!Wanted(i) \subseteq Install!Packages \cup {Missing}
Same(i) == Install!Found(i)' = Install!Found(i)

\* A plugin has one backup at most, so what a start finds of it is decided.
LEMMA FoundHolds == PluginInv => FoundIs
<1> SUFFICES ASSUME PluginInv, NEW i \in Ids
             PROVE  /\ active[i] # Missing => Install!Found(i) = Kept(active[i])
                    /\ active[i] = Missing =>
                         /\ \A l \in left : IsBackup(l, i) => Install!Found(i) = Kept(l.dir)
                         /\ (\A l \in left : ~IsBackup(l, i)) => Install!Found(i) = Missing
                    /\ Install!Found(i) \in Install!Packages \cup {Missing, Foreign}
                    /\ Install!Wanted(i) \subseteq Install!Packages \cup {Missing}
  BY DEF FoundIs
<1>1. left \subseteq Leftover /\ active[i] \in Install!Dir \cup {Missing}
  BY DEF PluginInv, Typed
<1>2. \A d \in Install!Dir : d # Missing /\ Kept(d) \in Install!Packages \cup {Missing, Foreign}
  BY DirsAre DEF Kept, Install!Dir
<1>3. Install!Wanted(i) \subseteq Install!Packages \cup {Missing}
  <2>1. CASE op = "remove"
    BY <2>1 DEF Install!Wanted
  <2>2. CASE op # "remove"
    <3>1. /\ todo \subseteq Install!Packages /\ \A q \in prepared : q.package \in Install!Packages
          /\ pc \in Fetching => cur \in Install!Packages
          /\ ~(pc \in {"claimRemove", "takeOut"} \/ next = "takeOut")
      BY <2>2, LeftsAre DEF PluginInv, Typed, Control
    <3> QED
      BY <2>2, <3>1 DEF Install!Wanted
  <2> QED
    BY <2>1, <2>2
<1>4. CASE active[i] # Missing
  <2>1. Install!Found(i) = Kept(active[i])
    BY <1>4 DEF Install!Found, Kept
  <2> QED
    BY <1>1, <1>2, <1>4, <1>3, <2>1
<1>5. ASSUME active[i] = Missing, NEW l \in left, IsBackup(l, i)
      PROVE  Install!Found(i) = Kept(l.dir) /\ l.dir \in Install!Dir
  <2>1. l \in Install!Backups(i) /\ \A m \in Install!Backups(i) : m = l
    BY <1>5 DEF PluginInv, Apart, Install!Backups, IsBackup
  <2>2. (CHOOSE m \in Install!Backups(i) : TRUE) = l /\ Install!Backups(i) # {}
    BY <2>1
  <2>3. l.dir \in Install!Dir /\ l.dir # Missing
    BY <1>1, <1>2, <1>5, LeftsAre
  <2> QED
    BY <1>5, <2>2, <2>3 DEF Install!Found, Kept
<1>6. ASSUME active[i] = Missing, \A l \in left : ~IsBackup(l, i)
      PROVE  Install!Found(i) = Missing
  BY <1>6 DEF Install!Found, Install!Backups, IsBackup
<1> QED
  BY <1>1, <1>2, <1>4, <1>5, <1>6, <1>3

\* A step that leaves what a start finds is one that asks.
LEMMA Asks ==
  ASSUME FoundIs', \A i \in Ids : Same(i)
  PROVE  Install!P!Ask
<1>1. UNCHANGED [i \in Ids |-> Install!Found(i)]
  BY DEF Same
<1>2. [i \in Ids |-> Install!Wanted(i)]' \in [Ids -> SUBSET (Install!Packages \cup {Missing})]
  BY DEF FoundIs
<1> QED
  BY <1>1, <1>2 DEF Install!P!Ask, Install!P!Outcomes

\* Directories that are not backups are nothing to a start.
LEMMA NoBackup ==
  ASSUME PluginInv, PluginInv', FoundIs, FoundIs', active' = active,
         \A m : m.kind = "backup" => (m \in left <=> m \in left')
  PROVE  \A i \in Ids : Same(i)
<1> TAKE i \in Ids
<1>1. CASE active[i] # Missing
  BY <1>1 DEF FoundIs, Same
<1>2. CASE active[i] = Missing /\ \E l \in left : IsBackup(l, i)
  BY <1>2 DEF FoundIs, Same, IsBackup
<1>3. CASE active[i] = Missing /\ \A l \in left : ~IsBackup(l, i)
  <2>1. \A l \in left' : ~IsBackup(l, i)
    BY <1>3 DEF IsBackup
  <2> QED
    BY <1>3, <2>1 DEF FoundIs, Same
<1> QED
  BY <1>1, <1>2, <1>3

\* Only the plugin at hand is found another way.
LEMMA Others ==
  ASSUME FoundIs, FoundIs', NEW j \in Ids, active'[j] = active[j],
         \A m \in left \cup left' : m.id = j => (m \in left <=> m \in left')
  PROVE  Same(j)
<1>1. CASE active[j] # Missing
  BY <1>1 DEF FoundIs, Same
<1>2. CASE active[j] = Missing /\ \E l \in left : IsBackup(l, j)
  BY <1>2 DEF FoundIs, Same, IsBackup
<1>3. CASE active[j] = Missing /\ \A l \in left : ~IsBackup(l, j)
  <2>1. \A l \in left' : ~IsBackup(l, j)
    BY <1>3 DEF IsBackup
  <2> QED
    BY <1>3, <2>1 DEF FoundIs, Same
<1> QED
  BY <1>1, <1>2, <1>3

\* A directory that is no backup and changes does not become one.
LEMMA Rewritten ==
  ASSUME PluginInv, NEW l \in left, l.kind # "backup", NEW d,
         left' = (left \ {l}) \cup {[l EXCEPT !.dir = d]}
  PROVE  \A m : m.kind = "backup" => (m \in left <=> m \in left')
<1>1. [l EXCEPT !.dir = d].kind = l.kind
  BY DEF PluginInv, Typed, Leftover
<1> QED
  BY <1>1

\* Stages, and what is being deleted, are nothing to a start.
LEMMA StagesFind ==
  ASSUME PluginInv, PluginInv', FoundIs, FoundIs',
         \/ Install!ErodeStep \/ Install!Erased \/ Install!Fetch \/ Install!MarkStage
         \/ Install!Extract \/ Install!WriteRecord
  PROVE  \A i \in Ids : Same(i)
<1>1. active' = active
  BY DEF Install!ErodeStep, Install!Erased, Install!Fetch, Install!MarkStage, Install!Extract,
         Install!WriteRecord
<1>2. CASE left' = left
  BY <1>1, <1>2, NoBackup
<1>3. CASE Install!ErodeStep
  <2>1. PICK d : victim' = [victim EXCEPT !.dir = d] /\ left' = (left \ {victim}) \cup {victim'}
    BY <1>3 DEF Install!ErodeStep
  <2>2. victim \in left /\ victim.kind # "backup"
    BY <1>3 DEF PluginInv, Victim, Install!ErodeStep
  <2>3. \A m : m.kind = "backup" => (m \in left <=> m \in left')
    BY <2>1, <2>2, Rewritten
  <2> QED
    BY <1>1, <2>3, NoBackup
<1>4. CASE Install!Erased
  <2>1. left' = left \ {victim} /\ victim.kind # "backup"
    BY <1>4 DEF PluginInv, Victim, Install!Erased
  <2> QED
    BY <1>1, <2>1, NoBackup
<1>5. CASE Install!Fetch
  <2> DEFINE new ==
        [kind |-> "stage", id |-> cur.id, run |-> commands,
         dir |-> [package |-> cur, record |-> FALSE, marker |-> FALSE, files |-> "partial"]]
  <2>1. new.kind = "stage" /\ (left' = left \cup {new} \/ left' = left)
    BY <1>5 DEF Install!Fetch
  <2> HIDE DEF new
  <2> QED
    BY <1>1, <2>1, NoBackup
<1>6. CASE Install!MarkStage \/ Install!Extract \/ Install!WriteRecord
  <2>1. \/ left' = left
        \/ \E l \in Install!OwnStage(cur) : \E d : left' = (left \ {l}) \cup {[l EXCEPT !.dir = d]}
    BY <1>6 DEF Install!MarkStage, Install!Extract, Install!WriteRecord, Install!StageBecomes
  <2>2. \A l \in Install!OwnStage(cur) : l \in left /\ l.kind # "backup"
    BY DEF Install!OwnStage
  <2>3. \A m : m.kind = "backup" => (m \in left <=> m \in left')
    BY <2>1, <2>2, Rewritten
  <2> QED
    BY <1>1, <2>3, NoBackup
<1> QED
  BY <1>3, <1>4, <1>5, <1>6

\* A plugin that is set aside is found there, and one put back where it was.
LEMMA RenamesFind ==
  ASSUME PluginInv, PluginInv', FoundIs, FoundIs',
         Install!RecoverBackup \/ Install!SetAside \/ Install!SwapFails
  PROVE  \A i \in Ids : Same(i)
<1>1. CASE UNCHANGED <<active, left>>
  BY <1>1, NoBackup
<1>2. ASSUME NEW l \in left, l.kind = "backup", active[l.id] = Missing,
             active' = [active EXCEPT ![l.id] = l.dir], left' = left \ {l}
      PROVE  \A i \in Ids : Same(i)
  <2>1. l.id \in Ids /\ l.dir # Missing /\ active \in [Ids -> Install!Dir \cup {Missing}]
    BY LeftsAre, DirsAre DEF PluginInv, Typed
  <2>2. active'[l.id] = l.dir /\ \A i \in Ids : i # l.id => active'[i] = active[i]
    BY <1>2, <2>1
  <2>3. Same(l.id)
    BY <1>2, <2>1, <2>2 DEF FoundIs, Same, IsBackup
  <2>4. \A i \in Ids : i # l.id => Same(i)
    BY <1>2, <2>2, Others
  <2> QED
    BY <2>3, <2>4
<1>3. CASE Install!RecoverBackup
  <2>1. entries \subseteq left
    BY DEF PluginInv, Typed
  <2> QED
    BY <1>1, <1>2, <1>3, <2>1 DEF Install!RecoverBackup, Install!Restore
<1>4. CASE Install!SwapFails
  <2>1. \A l \in Install!Backup : l \in left /\ l.kind = "backup" /\ l.id = cur.id
    BY DEF Install!Backup
  <2> QED
    BY <1>1, <1>2, <1>4, <2>1 DEF Install!SwapFails
<1>5. CASE Install!SetAside
  <2> DEFINE new == [kind |-> "backup", id |-> cur.id, run |-> commands, dir |-> active[cur.id]]
  <2>1. new.kind = "backup" /\ new.id = cur.id /\ new.dir = active[cur.id]
    OBVIOUS
  <2>2. \/ UNCHANGED <<active, left>>
        \/ /\ active' = [active EXCEPT ![cur.id] = Missing] /\ left' = left \cup {new}
           /\ cur' = cur
    BY <1>5 DEF Install!SetAside
  <2> HIDE DEF new
  <2>3. CASE /\ active' = [active EXCEPT ![cur.id] = Missing] /\ left' = left \cup {new}
             /\ cur' = cur
    <3>1. cur.id \in Ids /\ active[cur.id] # Missing /\ DOMAIN active = Ids
      BY <1>5, PackagesAre
         DEF PluginInv, Typed, Control, AllThere, Install!SetAside, Install!Intact
    <3>2. active'[cur.id] = Missing /\ \A i \in Ids : i # cur.id => active'[i] = active[i]
      BY <2>3, <3>1 DEF PluginInv, Typed
    <3>3. Same(cur.id)
      <4>1. new \in left' /\ IsBackup(new, cur.id)
        BY <2>1, <2>3 DEF IsBackup
      <4>2. Install!Found(cur.id)' = Kept(new.dir)
        BY <2>3, <3>1, <3>2, <4>1 DEF FoundIs
      <4> QED
        BY <2>1, <2>3, <3>1, <4>2 DEF FoundIs, Same
    <3>4. \A i \in Ids : i # cur.id => Same(i)
      BY <2>1, <2>3, <3>2, Others
    <3> QED
      BY <3>3, <3>4
  <2> QED
    BY <1>1, <2>2, <2>3
<1> QED
  BY <1>3, <1>4, <1>5

\* A backup is retired only once its plugin is there.
LEMMA RetiresFind ==
  ASSUME PluginInv, PluginInv', FoundIs, FoundIs', Install!RetireOld \/ Install!Retire
  PROVE  \A i \in Ids : Same(i)
<1>1. CASE UNCHANGED <<active, left>>
  BY <1>1, NoBackup
<1>2. ASSUME NEW l \in left, l.kind = "backup", active[l.id] # Missing, active' = active,
             left' = (left \ {l}) \cup {[l EXCEPT !.kind = "removed"]}
      PROVE  \A i \in Ids : Same(i)
  <2> DEFINE gone == [l EXCEPT !.kind = "removed"]
  <2>1. gone.id = l.id /\ l.id \in Ids
    BY LeftsAre DEF PluginInv, Typed
  <2>2. left' = (left \ {l}) \cup {gone}
    BY <1>2
  <2> HIDE DEF gone
  <2>3. Same(l.id)
    BY <1>2, <2>1 DEF FoundIs, Same
  <2>4. \A i \in Ids : i # l.id => Same(i)
    BY <1>2, <2>1, <2>2, Others
  <2> QED
    BY <2>3, <2>4
<1>3. CASE Install!RetireOld
  <2>1. victim \in left /\ victim.kind = "backup" /\ active[victim.id] # Missing
    BY <1>3 DEF PluginInv, Victim, Install!RetireOld
  <2> QED
    BY <1>1, <1>2, <1>3, <2>1 DEF Install!RetireOld
<1>4. CASE Install!Retire
  <2>1. \A l \in Install!Backup : l \in left /\ l.kind = "backup" /\ active[l.id] # Missing
    BY <1>4 DEF PluginInv, AllThere, Install!Retire, Install!Backup
  <2> QED
    BY <1>1, <1>2, <1>4, <2>1 DEF Install!Retire
<1> QED
  BY <1>3, <1>4

\* A marker is nothing to a start.
LEMMA MarkersFind ==
  ASSUME PluginInv, PluginInv', FoundIs, FoundIs', Install!RecoverMarkers \/ Install!Unmark
  PROVE  \A i \in Ids : Same(i)
<1>1. left' = left /\ active \in [Ids -> Install!Dir \cup {Missing}]
  BY DEF PluginInv, Typed, Install!RecoverMarkers, Install!Unmark
<1>2. \A d \in Install!Dir :
        /\ [d EXCEPT !.marker = FALSE] # Missing
        /\ Kept([d EXCEPT !.marker = FALSE]) = Kept(d)
  BY PluginsAssumption DEF Install!InstallAssumption, Install!Dir, Kept
<1>3. ASSUME NEW i \in Ids, \/ active'[i] = active[i]
                            \/ /\ active[i] # Missing
                               /\ active'[i] = [active[i] EXCEPT !.marker = FALSE]
      PROVE  Same(i)
  <2>1. CASE active'[i] = active[i]
    BY <1>1, <2>1, Others
  <2>2. CASE active[i] # Missing /\ active'[i] = [active[i] EXCEPT !.marker = FALSE]
    <3>1. active[i] \in Install!Dir
      BY <1>1, <2>2
    <3>2. active'[i] # Missing /\ Kept(active'[i]) = Kept(active[i])
      BY <1>2, <2>2, <3>1
    <3> QED
      BY <2>2, <3>2 DEF FoundIs, Same
  <2> QED
    BY <1>3, <2>1, <2>2
<1>4. CASE Install!RecoverMarkers
  BY <1>3, <1>4 DEF Install!RecoverMarkers
<1>5. CASE Install!Unmark
  <2>1. cur.id \in Ids /\ active[cur.id] # Missing
    BY <1>5, PackagesAre DEF PluginInv, Control, AllThere, Install!Unmark
  <2>2. active' = active \/ active' = [active EXCEPT ![cur.id].marker = FALSE]
    BY <1>5 DEF Install!Unmark
  <2> QED
    BY <1>1, <1>3, <2>1, <2>2
<1> QED
  BY <1>4, <1>5

\* The swap makes a plugin what was asked for, and asks no more of it.
LEMMA SwapChanges ==
  ASSUME PluginInv, PluginInv', FoundIs, FoundIs', Install!Swap
  PROVE  Install!P!Change(cur.id)
<1>1. PICK l \in Install!OwnStage(cur) :
        active' = [active EXCEPT ![cur.id] = l.dir] /\ left' = left \ {l}
  BY DEF Install!Swap
<1> DEFINE pair == [package |-> cur, staged |-> TRUE]
<1>2. /\ pc = "swap" /\ pc' = "unmark" /\ cur \in Install!Packages /\ cur' = cur
      /\ op # "remove" /\ op' = op
      /\ next = "idle" /\ next' = next /\ active[cur.id] = Missing /\ todo' = todo
      /\ pair \in prepared /\ pair.package = cur /\ pair.staged /\ prepared' = prepared \ {pair}
      /\ todo = {} /\ \A q \in prepared : q.package.id = cur.id => q = pair
  BY DEF PluginInv, Control, OnePerPlugin, Install!Swap, Install!plan
<1> HIDE DEF pair
<1>3. /\ cur.id \in Ids /\ DOMAIN active = Ids /\ l \in left /\ l.kind = "stage" /\ l.id = cur.id
      /\ l.run = commands /\ left \subseteq Leftover
  BY <1>2, PackagesAre DEF PluginInv, Typed, Install!OwnStage
<1>4. l.dir = Ready(cur) /\ l.dir # Missing
  <2>1. l.dir = Ready(cur)
    BY <1>2, <1>3 DEF PluginInv, Own, Stage
  <2> QED
    BY <1>3, <2>1, LeftsAre, DirsAre
<1>5. active'[cur.id] = l.dir /\ \A j \in Ids : j # cur.id => active'[j] = active[j]
  BY <1>1, <1>3 DEF PluginInv, Typed
<1>6. Install!Found(cur.id)' = cur
  <2>1. Kept(l.dir) = cur
    BY <1>4 DEF Kept, Ready
  <2> QED
    BY <1>2, <1>3, <1>4, <1>5, <2>1 DEF FoundIs
<1>7. Install!Found(cur.id) # Foreign
  <2>1. CASE \A m \in left : ~IsBackup(m, cur.id)
    BY <1>2, <1>3, <2>1, PluginsAssumption DEF FoundIs, Install!InstallAssumption
  <2>2. ASSUME NEW m \in left, IsBackup(m, cur.id)
        PROVE  Install!Found(cur.id) # Foreign
    <3>1. m.dir \in Install!Dir /\ m.dir.files = "whole"
      BY <1>3, <2>2, LeftsAre DEF PluginInv, AllThere, IsBackup
    <3>2. Install!Found(cur.id) = m.dir.package
      BY <1>2, <1>3, <2>2, <3>1 DEF FoundIs, Kept
    <3> QED
      BY <3>1, <3>2, PluginsAssumption DEF Install!Dir, Install!InstallAssumption
  <2> QED
    BY <2>1, <2>2
<1>8. \A j \in Ids : j # cur.id => Same(j)
  BY <1>1, <1>3, <1>5, Others
<1>9. /\ Install!Wanted(cur.id)' = {} /\ cur \in Install!Wanted(cur.id)
      /\ \A j \in Ids : j # cur.id => Install!Wanted(j)' = Install!Wanted(j)
  <2>1. \A j \in Ids :
          /\ Install!Wanted(j) = {p \in {q.package : q \in {r \in prepared : r.staged}} : p.id = j}
          /\ Install!Wanted(j)' =
               {p \in {q.package : q \in {r \in prepared' : r.staged}} : p.id = j}
    BY <1>2 DEF Install!Wanted
  <2>2. /\ \A q \in prepared' : q.package.id # cur.id
        /\ \A q \in prepared : q.package.id # cur.id => q \in prepared'
        /\ prepared' \subseteq prepared
    BY <1>2
  <2>3. Install!Wanted(cur.id)' = {}
    BY <1>2, <1>3, <2>1, <2>2
  <2>4. cur \in Install!Wanted(cur.id)
    BY <1>2, <1>3, <2>1
  <2>5. ASSUME NEW j \in Ids, j # cur.id
        PROVE  Install!Wanted(j)' = Install!Wanted(j)
    <3>1. \A q : q \in prepared /\ q.package.id = j <=> q \in prepared' /\ q.package.id = j
      BY <2>2, <2>5
    <3>2. {p \in {q.package : q \in {r \in prepared : r.staged}} : p.id = j} =
            {p \in {q.package : q \in {r \in prepared' : r.staged}} : p.id = j}
      BY <3>1
    <3> QED
      BY <2>1, <3>2
  <2> QED
    BY <2>3, <2>4, <2>5
<1> DEFINE found == [i \in Ids |-> Install!Found(i)]
           wanted == [i \in Ids |-> Install!Wanted(i)]
<1>10. /\ found[cur.id] # Foreign /\ cur \in wanted[cur.id]
       /\ found' = [found EXCEPT ![cur.id] = cur] /\ wanted' = [wanted EXCEPT ![cur.id] = {}]
  BY <1>2, <1>3, <1>6, <1>7, <1>8, <1>9 DEF Same
<1> QED
  BY <1>10 DEF Install!P!Change

\* Taking a plugin out does what was asked for, and asks no more of it.
LEMMA TakeOutChanges ==
  ASSUME PluginInv, PluginInv', FoundIs, FoundIs', Install!TakeOut
  PROVE  (\A i \in Ids : Same(i)) \/ \E i \in Ids : Install!P!Change(i)
<1>1. CASE UNCHANGED <<active, left>>
  BY <1>1, NoBackup
<1> DEFINE gone(i) == [kind |-> "removed", id |-> i, run |-> commands, dir |-> active[i]]
<1>2. ASSUME NEW i \in todo, active' = [active EXCEPT ![i] = Missing],
             left' = left \cup {gone(i)}, todo' = todo \ {i}, next' = "takeOut"
      PROVE  Install!P!Change(i)
  <2> DEFINE new == gone(i)
  <2>1. new.kind = "removed" /\ new.id = i /\ left' = left \cup {new}
    BY <1>2
  <2> HIDE DEF new, gone
  <2>2. /\ pc = "takeOut" /\ op = "remove" /\ commands \in Nat /\ i \in Ids
        /\ active \in [Ids -> Install!Dir \cup {Missing}] /\ left \subseteq Leftover
    BY DEF PluginInv, Typed, Control, Install!TakeOut
  <2>3. active[i] # Missing /\ active[i] \in Install!Dir /\ active[i].files = "whole"
    BY <2>2 DEF PluginInv, AllThere, Install!Intact
  <2>4. \A m \in left : m.kind # "backup"
    <3>1. \A m \in left : m.run \in Nat /\ m.run <= commands
      BY <2>2, LeftsAre DEF PluginInv, Control
    <3>2. \A m \in left : m.run = commands => m.kind = "removed"
      BY <2>2 DEF PluginInv, Own
    <3>3. \A m \in left : m.run < commands => m.kind = "stage"
      BY <2>2 DEF PluginInv, Control, Earlier, IsBare
    <3> QED
      BY <2>2, <3>1, <3>2, <3>3
  <2>5. active'[i] = Missing /\ \A j \in Ids : j # i => active'[j] = active[j]
    BY <1>2, <2>2
  <2>6. Install!Found(i)' = Missing
    BY <2>1, <2>2, <2>4, <2>5 DEF FoundIs, IsBackup
  <2>7. Install!Found(i) # Foreign
    <3>1. Install!Found(i) = active[i].package
      BY <2>2, <2>3 DEF FoundIs, Kept
    <3> QED
      BY <2>3, <3>1, PluginsAssumption DEF Install!Dir, Install!InstallAssumption
  <2>8. \A j \in Ids : j # i => Same(j)
    BY <2>1, <2>5, Others
  <2>9. /\ Install!Wanted(i)' = {} /\ Missing \in Install!Wanted(i)
        /\ \A j \in Ids : j # i => Install!Wanted(j)' = Install!Wanted(j)
    <3>1. \A j \in Ids :
            /\ Install!Wanted(j) = {Missing : k \in {j} \cap todo}
            /\ Install!Wanted(j)' = {Missing : k \in {j} \cap todo'}
      BY <1>2, <2>2 DEF Install!Wanted
    <3> QED
      BY <1>2, <2>2, <3>1
  <2> DEFINE found == [j \in Ids |-> Install!Found(j)]
             wanted == [j \in Ids |-> Install!Wanted(j)]
  <2>10. /\ found[i] # Foreign /\ Missing \in wanted[i]
         /\ found' = [found EXCEPT ![i] = Missing] /\ wanted' = [wanted EXCEPT ![i] = {}]
    BY <2>2, <2>6, <2>7, <2>8, <2>9 DEF Same
  <2> QED
    BY <2>10 DEF Install!P!Change
<1>3. todo \subseteq Ids
  BY DEF PluginInv, Control, Install!TakeOut
<1> QED
  BY <1>1, <1>2, <1>3 DEF Install!TakeOut, Install!Erase

\* What the owner edits is the owner's.
LEMMA EditEdits ==
  ASSUME PluginInv, PluginInv', FoundIs, FoundIs', NEW i \in Ids, Install!Edit(i)
  PROVE  Install!P!Edit(i)
<1> DEFINE made == IF active[i] = Missing THEN Install!Manual
                   ELSE [active[i] EXCEPT !.files = "owners"]
<1>1. /\ active \in [Ids -> Install!Dir \cup {Missing}]
      /\ active' = [active EXCEPT ![i] = made]
      /\ UNCHANGED <<left, op, pc, todo, prepared, cur, next>>
  BY DEF PluginInv, Typed, Install!Edit, Install!plan
<1>2. made # Missing /\ made.files = "owners"
  <2>1. CASE active[i] = Missing
    BY <2>1, DirsAre DEF Install!Manual
  <2>2. CASE active[i] \in Install!Dir /\ active[i] # Missing
    <3>1. [active[i] EXCEPT !.files = "owners"].files = "owners"
      BY <2>2 DEF Install!Dir
    <3> QED
      BY <2>2, <3>1, DirsAre
  <2> QED
    BY <1>1, <2>1, <2>2
<1> HIDE DEF made
<1>3. active'[i] = made /\ \A j \in Ids : j # i => active'[j] = active[j]
  BY <1>1
<1>4. Install!Found(i)' = Foreign
  BY <1>2, <1>3 DEF FoundIs, Kept
<1>5. \A j \in Ids : j # i => Same(j)
  BY <1>1, <1>3, Others
<1>6. \A j \in Ids : Install!Wanted(j)' = Install!Wanted(j)
  BY <1>1 DEF Install!Wanted
<1> DEFINE found == [j \in Ids |-> Install!Found(j)]
           wanted == [j \in Ids |-> Install!Wanted(j)]
<1>7. found' = [found EXCEPT ![i] = Foreign] /\ wanted' = wanted
  BY <1>4, <1>5, <1>6 DEF Same
<1> QED
  BY <1>7 DEF Install!P!Edit

\* Every step is one of the promise's.
LEMMA PluginStepKeeps ==
  PluginInv /\ PluginInv' /\ [Install!Next]_plugins => [Install!P!Next]_(Install!P!vars)
<1> SUFFICES ASSUME PluginInv, PluginInv', [Install!Next]_plugins
             PROVE  [Install!P!Next]_(Install!P!vars)
  OBVIOUS
<1>1. FoundIs /\ FoundIs'
  BY FoundHolds, PTL
<1>2. (\A i \in Ids : Same(i)) => Install!P!Next
  BY <1>1, Asks DEF Install!P!Next
<1>3. CASE UNCHANGED <<active, left>>
  BY <1>1, <1>2, <1>3, NoBackup
<1>4. CASE Install!Recovery
  BY <1>1, <1>2, <1>3, <1>4, RenamesFind, RetiresFind, MarkersFind
     DEF Install!Recovery, Install!RecoverStage, Install!RecoverTrash, Install!RecoverMarkersFails,
         Install!disk
<1>5. CASE Install!Preparation
  BY <1>1, <1>2, <1>3, <1>5, StagesFind
     DEF Install!Preparation, Install!SelectAll, Install!PlanUpdate, Install!Prepare,
         Install!AllPrepared, Install!DropAll, Install!disk
<1>6. CASE Install!Activation
  <2>1. CASE Install!Swap
    <3>1. cur.id \in Ids
      BY <2>1, PackagesAre DEF PluginInv, Control, Install!Swap
    <3> QED
      BY <1>1, <2>1, <3>1, SwapChanges DEF Install!P!Next
  <2> QED
    BY <1>1, <1>2, <1>3, <1>6, <2>1, RenamesFind, RetiresFind, MarkersFind
       DEF Install!Activation, Install!NothingToActivate, Install!Inspect, Install!AllActivated,
           Install!End, Install!disk
<1>7. CASE Install!Removal
  BY <1>1, <1>2, <1>3, <1>7, TakeOutChanges
     DEF Install!Removal, Install!CheckRemovals, Install!AllOut, Install!End, Install!disk,
         Install!P!Next
<1>8. CASE Install!Command
  BY <1>1, <1>2, <1>3, <1>4, <1>5, <1>6, <1>7, <1>8, StagesFind
     DEF Install!Command, Install!EraseFails, Install!Finish, Install!ClaimTrash,
         Install!ClaimFails, Install!End, Install!disk
<1>9. CASE Install!StartInstall \/ Install!StartOther \/ Install!Crash
  BY <1>3, <1>9 DEF Install!StartInstall, Install!StartOther, Install!Begin, Install!Crash,
     Install!disk
<1>10. CASE \E i \in Ids : Install!Edit(i)
  BY <1>1, <1>10, EditEdits DEF Install!P!Next
<1>11. CASE UNCHANGED plugins
  BY <1>3, <1>11 DEF plugins
<1> QED
  BY <1>8, <1>9, <1>10, <1>11 DEF Install!Next

\* An interruption anywhere leaves every plugin as it was, or as a command was asked to
\* make it, each by a single step, and nothing of the owner's is replaced or deleted:
\* commands, recovery and crashes implement PluginSet (plugin_install.rs).
THEOREM PluginsAreKept == OutsideSpec => KeepsPlugins
<1>1. Install!Init => Install!P!Init
  <2> SUFFICES ASSUME Install!Init PROVE Install!P!Init
    OBVIOUS
  <2>1. FoundIs
    BY PluginInvInit, FoundHolds
  <2>2. \A i \in Ids : Install!Wanted(i) = {}
    BY DEF Install!Init, Install!Wanted
  <2> QED
    BY <2>1, <2>2 DEF FoundIs, Install!P!Init, Install!P!Outcomes
<1> QED
  BY <1>1, PluginsRun, PluginInvariant, PluginStepKeeps, PTL
     DEF OutsideSpec, KeepsPlugins, Install!KeepsPlugins, Install!P!Spec
=============================================================================

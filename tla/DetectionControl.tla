---------------------------- MODULE DetectionControl ----------------------------
(***************************************************************************)
(* One detection setting, its inheritance and the cache in front of it:    *)
(* services/detection_control_service.py and routers/detection_control.py. *)
(* Each scope may have a document; a camera's value is the one of the      *)
(* narrowest scope that sets it.  The merged settings are cached in Redis  *)
(* for a minute, and pushed to the camera's edge agent by every request    *)
(* that changes them.                                                      *)
(*                                                                         *)
(* Requests interleave at each of their awaits.  The settings are          *)
(* independent of each other, so one of them is enough.                    *)
(***************************************************************************)
EXTENDS Naturals, FiniteSets, SequencesExt

CONSTANTS
  EdgeCameras,   \* cameras with an edge agent, all of one organisation
  Stores,    \* its stores
  StoreOf,   \* the store of each camera
  Values,    \* values of the setting
  Default,   \* its entry in GLOBAL_DEFAULTS
  Edited,    \* scopes whose documents change
  Requests,  \* requests that can be under way at a time
  Lifetime,  \* 60 seconds in the code
  MaxRedisFaults  \* bound on requests that find Redis away

ASSUME DetectionAssumption ==
  /\ EdgeCameras # {} /\ StoreOf \in [EdgeCameras -> Stores]
  /\ Default \in Values
  /\ Lifetime \in Nat \ {0} /\ MaxRedisFaults \in Nat

Unset == "unset"
Nothing == "nothing"
Scopes == {"global", "org"} \cup Stores \cup EdgeCameras
ASSUME EditedAssumption == Edited \subseteq Scopes

VARIABLES
  settings, \* db.detection_control_settings: the scopes with a document
  cached,   \* dc:effective:<camera>
  entryAge,      \* how long ago it was written
  quiet,    \* the time since a document changed
  pushed,   \* the value the edge agent was given last
  request,  \* what each request is doing
  redisFaults

settingVars == <<settings, cached, entryAge, quiet, pushed, request, redisFaults>>

Chain(cam) == <<"global", "org", StoreOf[cam], cam>>
NoRequest == [op |-> "none", at |-> "idle", scope |-> "org", todo |-> {}, layers |-> <<>>]
Unused(r) == request[r] = NoRequest
Under == {r \in Requests : ~Unused(r)}

SettingsTypeOK ==
  /\ DOMAIN settings \subseteq Scopes
  /\ Range(settings) \subseteq Values \cup {Unset}
  /\ cached \in [EdgeCameras -> Values \cup {Nothing}]
  /\ entryAge \in [EdgeCameras -> 0 .. Lifetime]
  /\ quiet \in 0 .. Lifetime + 1
  /\ pushed \in [EdgeCameras -> Values \cup {Nothing}]
  /\ redisFaults \in 0 .. MaxRedisFaults
  /\ \A r \in Requests :
       /\ request[r].op \in {"none", "view", "change", "copy"}
       /\ request[r].at \in {"idle", "invalidate", "next", "layers", "merge"}
       /\ request[r].scope \in Scopes /\ request[r].todo \subseteq EdgeCameras
       /\ Len(request[r].layers) <= 4

SettingsInit ==
  /\ settings = [s \in {} |-> Unset]
  /\ cached = [c \in EdgeCameras |-> Nothing]
  /\ entryAge = [c \in EdgeCameras |-> 0]
  /\ quiet = Lifetime + 1
  /\ pushed = [c \in EdgeCameras |-> Nothing]
  /\ request = [r \in Requests |-> NoRequest]
  /\ redisFaults = 0

-------------------------------------------------------------------------------
(* The merge *)

Layer(s) == IF s \in DOMAIN settings THEN settings[s] ELSE Unset

\* Layer by layer, the later one wins
Override(value, layer) == IF layer = Unset THEN value ELSE layer
Merge(layers) ==
  Override(Override(Override(Override(Default, layers[1]), layers[2]), layers[3]), layers[4])

\* The cameras a change of scope s is about
Affected(s) ==
  {c \in EdgeCameras : s \in {"global", "org", StoreOf[c], c}}

-------------------------------------------------------------------------------
(* The requests that change documents *)

Written(s, v) == settings' = [t \in DOMAIN settings \cup {s} |-> IF t = s THEN v ELSE settings[t]]

\* save_settings: the document first, then the cache, then the edge agents
SaveSettings(r, s, v) ==
  /\ Unused(r)
  /\ Written(s, v) /\ quiet' = 0
  /\ request' = [request EXCEPT ![r] =
       [NoRequest EXCEPT !.op = "change", !.at = "invalidate", !.scope = s]]
  /\ UNCHANGED <<cached, entryAge, pushed, redisFaults>>
ResetSettings(r, s) ==
  /\ Unused(r) /\ s \in DOMAIN settings
  /\ settings' = [t \in DOMAIN settings \ {s} |-> settings[t]] /\ quiet' = 0
  /\ request' = [request EXCEPT ![r] =
       [NoRequest EXCEPT !.op = "change", !.at = "invalidate", !.scope = s]]
  /\ UNCHANGED <<cached, entryAge, pushed, redisFaults>>
\* The keys of the cameras concerned go; with Redis away they stay until they expire
Invalidate(r) ==
  /\ request[r].at = "invalidate"
  /\ cached' = [c \in EdgeCameras |-> IF c \in Affected(request[r].scope) THEN Nothing ELSE cached[c]]
  /\ request' = [request EXCEPT ![r].at = "next", ![r].todo = Affected(request[r].scope)]
  /\ UNCHANGED <<settings, entryAge, quiet, pushed, redisFaults>>
InvalidateFails(r) ==
  /\ request[r].at = "invalidate" /\ redisFaults < MaxRedisFaults
  /\ redisFaults' = redisFaults + 1
  /\ request' = [request EXCEPT ![r].at = "next", ![r].todo = Affected(request[r].scope)]
  /\ UNCHANGED <<settings, cached, entryAge, quiet, pushed>>
\* bulk_apply copies what a scope sets to cameras, one at a time in the code;
\* the cache is left alone
BulkApply(r, s, c) ==
  /\ Unused(r) /\ s \in DOMAIN settings
  /\ Written(c, Override(Layer(c), Layer(s)))
  /\ quiet' = 0
  /\ request' = [request EXCEPT ![r] =
       [NoRequest EXCEPT !.op = "copy", !.at = "next", !.scope = c, !.todo = {c}]]
  /\ UNCHANGED <<cached, entryAge, pushed, redisFaults>>
\* import_config writes one scope's document; the cache is left alone here, too
ImportConfig(r, s, v) ==
  /\ Unused(r)
  /\ Written(s, v) /\ quiet' = 0
  /\ request' = [request EXCEPT ![r] =
       [NoRequest EXCEPT !.op = "copy", !.at = "next", !.scope = s, !.todo = Affected(s)]]
  /\ UNCHANGED <<cached, entryAge, pushed, redisFaults>>
\* get_effective, get_inheritance, and the detection of an incident
View(r, c) ==
  /\ Unused(r)
  /\ request' = [request EXCEPT ![r] =
       [NoRequest EXCEPT !.op = "view", !.at = "next", !.todo = {c}]]
  /\ UNCHANGED <<settings, cached, entryAge, quiet, pushed, redisFaults>>

-------------------------------------------------------------------------------
(* resolve_effective_settings, for one camera after the other *)

Resolved(r) == request[r].scope
Give(r, c, v) ==
  /\ pushed' = IF request[r].op = "view" THEN pushed ELSE [pushed EXCEPT ![c] = v]
  /\ request' = [request EXCEPT ![r].at = "next", ![r].todo = @ \ {c}, ![r].layers = <<>>]

CacheHit(r, c) ==
  /\ request[r].at = "next" /\ c \in request[r].todo
  /\ cached[c] # Nothing
  /\ Give(r, c, cached[c])
  /\ UNCHANGED <<settings, cached, entryAge, quiet, redisFaults>>
\* Nothing there, or Redis is away
CacheMiss(r, c) ==
  /\ request[r].at = "next" /\ c \in request[r].todo
  /\ cached[c] # Nothing => redisFaults < MaxRedisFaults
  /\ redisFaults' = IF cached[c] = Nothing THEN redisFaults ELSE redisFaults + 1
  /\ request' = [request EXCEPT ![r].at = "layers", ![r].scope = c]
  /\ UNCHANGED <<settings, cached, entryAge, quiet, pushed>>
\* The four documents, an await each
ReadLayer(r) ==
  /\ request[r].at = "layers"
  /\ LET read == Append(request[r].layers, Layer(Chain(Resolved(r))[Len(request[r].layers) + 1]))
     IN request' = [request EXCEPT ![r].layers = read,
                                   ![r].at = IF Len(read) = 4 THEN "merge" ELSE "layers"]
  /\ UNCHANGED <<settings, cached, entryAge, quiet, pushed, redisFaults>>
\* The answer does not depend on whether the cache could be written
MergeAndCache(r) ==
  /\ request[r].at = "merge"
  /\ LET c == Resolved(r)
         v == Merge(request[r].layers)
     IN /\ \/ /\ cached' = [cached EXCEPT ![c] = v]
              /\ entryAge' = [entryAge EXCEPT ![c] = 0]
              /\ UNCHANGED redisFaults
           \/ /\ redisFaults < MaxRedisFaults /\ redisFaults' = redisFaults + 1
              /\ UNCHANGED <<cached, entryAge>>
        /\ Give(r, c, v)
  /\ UNCHANGED <<settings, quiet>>
Finish(r) ==
  /\ request[r].at = "next" /\ request[r].todo = {}
  /\ request' = [request EXCEPT ![r] = NoRequest]
  /\ UNCHANGED <<settings, cached, entryAge, quiet, pushed, redisFaults>>

\* (mutant) entries of the cache have no time to live
TimePasses_Forever ==
  /\ Under = {} /\ quiet <= Lifetime
  /\ quiet' = quiet + 1
  /\ UNCHANGED <<settings, cached, entryAge, pushed, request, redisFaults>>
\* Time passes between requests; an entry expires
TimePasses ==
  /\ Under = {}
  /\ quiet <= Lifetime \/ \E c \in EdgeCameras : cached[c] # Nothing
  /\ quiet' = IF quiet <= Lifetime THEN quiet + 1 ELSE quiet
  /\ entryAge' = [c \in EdgeCameras |-> IF cached[c] # Nothing /\ entryAge[c] < Lifetime THEN entryAge[c] + 1 ELSE 0]
  /\ cached' = [c \in EdgeCameras |-> IF entryAge[c] + 1 >= Lifetime THEN Nothing ELSE cached[c]]
  /\ UNCHANGED <<settings, pushed, request, redisFaults>>

SettingsNext ==
  \/ \E r \in Requests :
       \/ \E s \in Edited, v \in Values \cup {Unset} :
            SaveSettings(r, s, v) \/ ImportConfig(r, s, v)
       \/ \E s \in Edited : ResetSettings(r, s) \/ \E c \in EdgeCameras : BulkApply(r, s, c)
       \/ \E c \in EdgeCameras : View(r, c) \/ CacheHit(r, c) \/ CacheMiss(r, c)
       \/ Invalidate(r) \/ InvalidateFails(r) \/ ReadLayer(r) \/ MergeAndCache(r) \/ Finish(r)
  \/ TimePasses

SettingsSpec == SettingsInit /\ [][SettingsNext]_settingVars
-------------------------------------------------------------------------------
(* Properties *)

\* What the inheritance promises, said without a merge: the value of the narrowest
\* scope that sets one.
Effective(cam) ==
  LET set == {i \in 1 .. 4 : Layer(Chain(cam)[i]) # Unset}
  IN IF set = {} THEN Default
     ELSE Layer(Chain(cam)[CHOOSE i \in set : \A j \in set : j <= i])

\* Whatever reads and writes overlapped, and whether or not the cache could be
\* cleared: once no document has changed for the lifetime of an entry, what the
\* cache answers is what the documents say.
CacheCatchesUp ==
  quiet >= Lifetime /\ Under = {} =>
    \A c \in EdgeCameras : cached[c] \in {Nothing, Effective(c)}

===============================================================================

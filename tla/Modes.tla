-------------------------------- MODULE Modes --------------------------------
(***************************************************************************)
(* Mode processing (src/src/mode.c) with the channel modes of              *)
(* src/src/chan.c and the announcements of src/modules/core/mode.c, as     *)
(* operators on the settings of one channel.                               *)
(*                                                                         *)
(* A command is a sequence of letters, each with the sign in force at it,  *)
(* and a sequence of parameters.  Which letters take a parameter depends   *)
(* on the letter, the sign, the access of the setter and the settings, and *)
(* the receiver of an announcement has to make the same choices.           *)
(***************************************************************************)
EXTENDS Integers, FiniteSets, Sequences

CONSTANTS Users, Chans,
          Masks,      \* masks of the lists, as fix_hostmask leaves them
          Keys,       \* channel keys
          Limits,     \* parameters of +l
          LimitOf,    \* their values
          Star,       \* the parameter "*" of an announced -k
          None,
          MaxBanList  \* MAXBANLIST

Args == Users \cup Chans \cup Masks \cup Keys \cup Limits \cup {Star}

\* cmode_infotab, without the flags that nothing below depends on.
FlagModes == {"i", "m", "n", "g", "t", "s"}
StatusModes == {"o", "v"}
ListModes == {"b", "e", "I", "q"}
Letters == [on : BOOLEAN, ch : FlagModes \cup StatusModes \cup ListModes \cup {"f", "k", "l"}]

\* The settings of a channel with these members, u_chan
ModesRec(members) ==
    [flags : SUBSET FlagModes, forward : Args \cup {None}, key : Args \cup {None},
     limit : Limits \cup {None}, list : [ListModes -> SUBSET Args],
     status : [members -> SUBSET StatusModes]]

ASSUME ModesAssumption ==
    /\ LimitOf \in [Limits -> Int] /\ MaxBanList \in Nat
    /\ None \notin Args /\ \A s \in SUBSET Users : None \notin ModesRec(s)

\* The modes of a new channel; "status" has the members.
NewModes ==
    [flags |-> {"n", "t"}, forward |-> None, key |-> None, limit |-> None,
     list |-> [l \in ListModes |-> {}], status |-> << >>]

\* atoi
Value(arg) == IF arg \in Limits THEN LimitOf[arg] ELSE 0

\* A u_modes in use: "m" are the settings, "told" and "args" what the stacker
\* has for the servers, "params" what is left of the parameters, "denied" the
\* error MODE_ERR_NO_ACCESS.
Setting(m, params, access, force, opOf) ==
    [m |-> m, params |-> params, access |-> access, force |-> force, opOf |-> opOf,
     told |-> << >>, args |-> << >>, denied |-> FALSE]

HasAccess(p) == p.access \/ p.force
Param(p) == IF p.params = << >> THEN None ELSE Head(p.params)

\* The parameter is used up, if there is one.
Used(p) == [p EXCEPT !.params = IF @ = << >> THEN @ ELSE Tail(@)]
Denied(p) == [p EXCEPT !.denied = TRUE]

\* cmode_stacker_buf_put
Put(p, on, ch, arg) ==
    [p EXCEPT !.told = Append(@, [on |-> on, ch |-> ch]),
              !.args = IF arg = None THEN @ ELSE Append(@, arg)]

-----------------------------------------------------------------------------
\* do_mode_flag; a flag that is denied uses no parameter either.
Flag(p, on, ch) ==
    IF ~HasAccess(p) THEN Denied(p)
    ELSE IF on = (ch \in p.m.flags) THEN p
    ELSE [Put(p, on, ch, None) EXCEPT
             !.m.flags = IF on THEN @ \cup {ch} ELSE @ \ {ch}]

\* do_mode_status, cmode_get_status_target
Status(p, on, ch) ==
    LET u == Param(p)
    IN  Used(IF ~HasAccess(p) THEN Denied(p)
             ELSE IF u \notin DOMAIN p.m.status THEN p
             ELSE [Put(p, on, ch, u) EXCEPT
                      !.m.status[u] = IF on THEN @ \cup {ch} ELSE @ \ {ch}])

\* do_mode_list; without a parameter the list is sent to the setter.
List(p, on, ch) ==
    LET mask == Param(p)
        there == mask \in p.m.list[ch]
        full == Cardinality(p.m.list[ch]) >= MaxBanList
    IN  IF mask = None THEN p
        ELSE Used(IF ~HasAccess(p) THEN Denied(p)
                  ELSE IF on = there \/ (on /\ full) THEN p
                  ELSE [Put(p, on, ch, mask) EXCEPT
                           !.m.list[ch] = IF on THEN @ \cup {mask} ELSE @ \ {mask}])

\* cb_fwd: only an operator of the other channel may forward to it.
Forward(p, on) ==
    LET tc == Param(p)
        refused == ~p.force /\ tc \notin p.opOf
    IN  IF ~HasAccess(p) THEN IF on THEN Used(Denied(p)) ELSE Denied(p)
        ELSE IF ~on
        THEN IF p.m.forward = None THEN p
             ELSE [Put(p, on, "f", None) EXCEPT !.m.forward = None]
        ELSE IF tc = None THEN p
        ELSE Used(IF refused THEN p
                  ELSE [Put(p, on, "f", tc) EXCEPT !.m.forward = tc])

\* Variant of Key with a fault: -k takes no parameter.
KeyOffAlone(p, on) ==
    IF ~HasAccess(p) THEN Used(Denied(p))
    ELSE IF ~on
    THEN IF p.m.key = None THEN p
         ELSE [Put(p, on, "k", Star) EXCEPT !.m.key = None]
    ELSE IF Param(p) = None THEN p
    ELSE Used([Put(p, on, "k", Param(p)) EXCEPT !.m.key = Param(p)])

\* cb_key
Key(p, on) ==
    IF ~HasAccess(p) THEN Used(Denied(p))
    ELSE IF ~on
    THEN Used(IF p.m.key = None THEN p
              ELSE [Put(p, on, "k", Star) EXCEPT !.m.key = None])
    ELSE IF Param(p) = None THEN p
    ELSE Used([Put(p, on, "k", Param(p)) EXCEPT !.m.key = Param(p)])

\* cb_limit; no limit is -1 in the code.
Limit(p, on) ==
    LET lim == Param(p)
    IN  IF ~HasAccess(p) THEN IF on THEN Used(Denied(p)) ELSE Denied(p)
        ELSE IF ~on
        THEN [IF p.m.limit = None THEN p ELSE Put(p, on, "l", None)
                 EXCEPT !.m.limit = None]
        ELSE IF lim = None THEN p
        ELSE Used(IF Value(lim) < 1 THEN p
                  ELSE [Put(p, on, "l", lim) EXCEPT !.m.limit = lim])

\* A turn of the loop of u_mode_process, and the loop.  Letters that are not in the
\* table or that the setter may not use (MODE_OPER_ONLY, MODE_NO_SET, which no letter
\* of cmode_infotab above has) change nothing there, and are not in Letters.
Letter(p, c) ==
    CASE c.ch \in FlagModes -> Flag(p, c.on, c.ch)
      [] c.ch \in StatusModes -> Status(p, c.on, c.ch)
      [] c.ch \in ListModes -> List(p, c.on, c.ch)
      [] c.ch = "f" -> Forward(p, c.on)
      [] c.ch = "k" -> Key(p, c.on)
      [] c.ch = "l" -> Limit(p, c.on)

Process(p, letters) ==
    LET after[i \in 0..Len(letters)] ==
            IF i = 0 THEN p ELSE Letter(after[i - 1], letters[i])
    IN  after[Len(letters)]
=============================================================================

----------------------------- MODULE MCDraftIntake -----------------------------
(* The situations of DraftIntake: which forms are sent, and with what.       *)
EXTENDS DraftIntake, TLC

CONSTANTS f1, f2, f3, m1, m2, m3

Form(key, calls) == [key |-> key, calls |-> calls]
Sends(kind, content, valid) == [kind |-> kind, content |-> content, valid |-> valid]
Nothing == Sends("none", None, FALSE)

Situation(fa, fb, fc, a, b, c) ==
    [forms |-> f1 :> fa @@ f2 :> fb @@ f3 :> fc, messages |-> m1 :> a @@ m2 :> b @@ m3 :> c,
     faults |-> FALSE, ends |-> FALSE, restarts |-> 0]

Creation(vanilla, source, m) == Form("create", submitCreateModal(vanilla, source, m))
ModsForm(dlc, preset, link, server) == Form("mods", submitModsModal(dlc, preset, link, server))

\* An upload and its second delivery; the mods follow while it is validated.
Uploads ==
    {[Situation(Creation(vanilla, "file", m1),
                Creation(vanilla, "file", m1),
                ModsForm(FALSE, m2, None, None),
                Sends("mission", "x", valid), Sends("preset", "p", TRUE), Nothing)
      EXCEPT !.faults = TRUE, !.ends = valid] : vanilla, valid \in BOOLEAN}

\* Server-only mods, Creator DLC, and a setup that is repaired meanwhile.
Mods ==
    {[Situation(Creation(FALSE, "none", None),
                ModsForm(dlc, IF dlc THEN None ELSE m1, None, m2),
                Form("setup", submitSetupModal(vanilla, m3, None)),
                Sends("preset", "p", valid), Sends("server", "s", dlc),
                Sends("mission", "x", TRUE))
      EXCEPT !.faults = valid /\ dlc] : dlc, valid, vanilla \in BOOLEAN}

\* Workshop links of a creation that waits and of the mods, and an upload.
Links ==
    {[Situation(Creation(vanilla, "link", m1),
                ModsForm(FALSE, None, m2, None),
                IF again THEN ModsForm(FALSE, None, m2, None)
                         ELSE Form("upload", submitMissionUpload(m3, None)),
                Sends("workshop-mission", "w", valid), Sends("workshop-mods", "p", TRUE),
                Sends("mission", "x", TRUE))
      EXCEPT !.faults = vanilla] :
     <<vanilla, valid, again>> \in {<<TRUE, TRUE, FALSE>>, <<TRUE, FALSE, FALSE>>,
                                   <<FALSE, TRUE, FALSE>>, <<FALSE, FALSE, TRUE>>}}

\* The mission manager, of a session that is started, then restarted or woken.
Managed ==
    {[Situation(Creation(TRUE, "file", m1),
                Form("add", submitMissionUpload(m2, None)
                            \o handleMissionManagerComponent("remove", "x")),
                Form("choose", handleMissionManagerComponent(action, "x")
                               \o handleMissionManagerComponent("remove", "y")),
                Sends("mission", "x", TRUE), Sends("mission", "y", TRUE), Nothing)
      EXCEPT !.restarts = 1, !.faults = action = "default"] : action \in {"default", "built-in"}}

\* A draft that is configured again while its mods are chosen and validated.
Configured ==
    {[Situation(Creation(FALSE, "none", None),
                ModsForm(TRUE, None, None, m1),
                Form("configure", configureSession(vanilla) \o Ingest(m2)),
                Sends("server", "s", TRUE), Sends("mission", "x", TRUE), Nothing)
      EXCEPT !.ends = vanilla] : vanilla \in BOOLEAN}

MCSituations == Configured \cup Uploads \cup Mods \cup Links \cup Managed

\* A mission is removed, and uploaded again while the server runs.
UploadedAgain ==
    {Situation(Creation(TRUE, "file", m1),
               Form("choose", handleMissionManagerComponent("built-in", None)
                              \o handleMissionManagerComponent("remove", "x")),
               Form("add", submitMissionUpload(m2, None)),
               Sends("mission", "x", TRUE), Sends("mission", "x", TRUE), Nothing)}
=============================================================================

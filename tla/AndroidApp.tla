----------------------------- MODULE AndroidApp -----------------------------
(***************************************************************************)
(* The reader app (ZionArcApp in ZionArcApp.kt): one screen driven by      *)
(* taps, by the results of system dialogs, by coroutines that finish when  *)
(* they like, and by Android, which may destroy the activity at any moment *)
(* and compose it anew, keeping only what is rememberSaveable.             *)
(*                                                                         *)
(* A tap is decided by the frame the user sees: a button is enabled as it  *)
(* was last drawn, and its handler runs on the state of the moment.  A     *)
(* dialog takes a while to cover the app, and taps reach the app meanwhile.*)
(*                                                                         *)
(* Left out: the status line (notice, imageAccessGranted), and the export  *)
(* of a book, which changes nothing else.                                  *)
(***************************************************************************)
EXTENDS Integers, Sequences, SequencesExt

CONSTANTS
    Documents,   \* the PNG documents a picker may return
    None,        \* null
    MaxStale,    \* bound on the input events that reach the app between frames
    MaxPickers,  \* bound on the document pickers open at once
    MaxDecodes   \* bound on the recoveries that run at once

ASSUME AppAssumption ==
    None \notin Documents /\ MaxStale \in Nat /\ {MaxPickers, MaxDecodes} \subseteq Nat \ {0}

VARIABLES
    \* remembered while the composition lives
    screen, selectedUri, selectedDocumentInfo, password, loading, errorMessage,
    book,
    openPickerAfterPermission,
    entered,                     \* LaunchedEffect(Unit) has run
    frame,                       \* what the user sees
    stale,                       \* events handled since the frame was drawn
    describes, decodes,          \* the coroutines of the composition's scope
    \* outliving the composition
    initialAccessFlowRequested,  \* rememberSaveable
    permissionDialogs, pickers,  \* dialogs whose result is outstanding
    \* history
    autoPickers, prompts,
    hasty    \* a key went into the field of a frame drawn before a recovery began
             \* or ended: its text is still there, or a recovery it let overlap
             \* another still runs

remembered == <<screen, selectedUri, selectedDocumentInfo, password, loading,
                errorMessage, book, openPickerAfterPermission, entered>>
coroutines == <<describes, decodes>>
display == <<frame, stale>>
lasting == <<initialAccessFlowRequested, permissionDialogs, pickers, autoPickers,
             prompts>>
app_vars == <<remembered, coroutines, display, lasting, hasty>>

Screens == {"Import", "Reader", "About"}

Composed == [screen    |-> screen,
             connected |-> selectedUri # None,
             typed     |-> password,
             loading   |-> loading,
             opened    |-> book # None]

FirstFrame == [screen |-> "Import", connected |-> FALSE, typed |-> FALSE,
               loading |-> FALSE, opened |-> FALSE]

-----------------------------------------------------------------------------
(* Mutants: what a plausible slip in the code would make of a definition.  *)

StillSelectedAlways(uri) == TRUE

HomeScreenImport == "Import"

PasswordAfterOpenKept == password

RequestedAfterRecreateLost == FALSE

LoadingAfterFailureKept == loading

-----------------------------------------------------------------------------
\* An input event on a control of the last frame.
Event ==
    /\ IF frame = Composed
       THEN UNCHANGED stale
       ELSE stale < MaxStale /\ stale' = stale + 1
    /\ UNCHANGED frame

\* Recomposition: the frame catches up with the state.
Recompose ==
    /\ frame # Composed
    /\ frame' = Composed
    /\ stale' = 0
    /\ UNCHANGED <<remembered, coroutines, lasting, hasty>>

\* LaunchedEffect(Unit), once per composition, with shouldStartInitialAccessFlow.
InitialAccess ==
    /\ ~entered
    /\ entered' = TRUE
    /\ IF ~initialAccessFlowRequested /\ selectedUri = None
       THEN /\ initialAccessFlowRequested' = TRUE
            /\ permissionDialogs' = permissionDialogs + 1
            /\ prompts' = prompts + 1
       ELSE UNCHANGED <<initialAccessFlowRequested, permissionDialogs, prompts>>
    /\ UNCHANGED <<screen, selectedUri, selectedDocumentInfo, password, loading,
                   errorMessage, book, openPickerAfterPermission, coroutines, display,
                   pickers, autoPickers, hasty>>

\* Granted or denied, the picker is next.
PermissionResult ==
    /\ permissionDialogs > 0
    /\ permissionDialogs' = permissionDialogs - 1
    /\ openPickerAfterPermission' = TRUE
    /\ UNCHANGED <<screen, selectedUri, selectedDocumentInfo, password, loading,
                   errorMessage, book, entered, coroutines, display,
                   initialAccessFlowRequested, pickers, autoPickers, prompts, hasty>>

PickAfterPermission ==
    /\ openPickerAfterPermission
    /\ openPickerAfterPermission' = FALSE
    /\ pickers' = pickers + 1
    /\ autoPickers' = autoPickers + 1
    /\ UNCHANGED <<screen, selectedUri, selectedDocumentInfo, password, loading,
                   errorMessage, book, entered, coroutines, display,
                   initialAccessFlowRequested, permissionDialogs, prompts, hasty>>

\* onSelect.
Select ==
    /\ Event
    /\ frame.screen = "Import" /\ ~frame.loading
    /\ pickers < MaxPickers
    /\ pickers' = pickers + 1
    /\ UNCHANGED <<remembered, coroutines, initialAccessFlowRequested,
                   permissionDialogs, autoPickers, prompts, hasty>>

ToDescribe(uri) == {uri} \ {None}

\* The picker returns a document, or null when it is cancelled.
OpenDocumentResult(uri) ==
    /\ pickers > 0
    /\ pickers' = pickers - 1
    /\ selectedUri' = uri
    /\ selectedDocumentInfo' = None
    /\ errorMessage' = FALSE
    /\ describes' = describes \cup ToDescribe(uri)
    /\ UNCHANGED <<screen, password, loading, book, openPickerAfterPermission,
                   entered, decodes, display, initialAccessFlowRequested,
                   permissionDialogs, autoPickers, prompts, hasty>>

StillSelected(uri) == selectedUri = uri

\* repository.describe returns: it never fails, and stands for the document.
Described(uri) ==
    /\ uri \in describes
    /\ describes' = describes \ {uri}
    /\ selectedDocumentInfo' = IF StillSelected(uri) THEN uri ELSE selectedDocumentInfo
    /\ UNCHANGED <<screen, selectedUri, password, loading, errorMessage, book,
                   openPickerAfterPermission, entered, decodes, display, lasting, hasty>>

\* onPasswordChanged: only whether the field is empty matters.
PasswordChanged(typed) ==
    /\ Event
    /\ frame.screen = "Import" /\ frame.connected /\ ~frame.loading
    /\ password' = typed
    /\ hasty' = (hasty \/ (typed /\ frame # Composed /\ (loading \/ book # None)))
    /\ UNCHANGED <<screen, selectedUri, selectedDocumentInfo, loading, errorMessage,
                   book, openPickerAfterPermission, entered, coroutines, lasting>>

PasswordAfterOpen == FALSE

\* onOpen: the passphrase is taken out of the field at once; an empty one is
\* refused, and a vanished selection ignored.
Open ==
    /\ Event
    /\ frame.screen = "Import" /\ frame.connected /\ frame.typed /\ ~frame.loading
    /\ selectedUri # None
    /\ \/ /\ ~password
          /\ errorMessage' = TRUE
          /\ UNCHANGED <<password, loading, decodes, hasty>>
       \/ /\ password /\ Len(decodes) < MaxDecodes
          /\ password' = PasswordAfterOpen
          /\ loading' = TRUE
          /\ errorMessage' = FALSE
          /\ decodes' = Append(decodes, selectedUri)
          /\ hasty' = (hasty /\ (decodes # <<>> \/ book # None))
    /\ UNCHANGED <<screen, selectedUri, selectedDocumentInfo, book,
                   openPickerAfterPermission, entered, describes, lasting>>

HastyAfterEnd == hasty /\ (password \/ Len(decodes) > 1)

Decoded(i) ==
    /\ book' = decodes[i]
    /\ screen' = "Reader"
    /\ loading' = FALSE
    /\ decodes' = RemoveAt(decodes, i)
    /\ hasty' = HastyAfterEnd
    /\ UNCHANGED <<selectedUri, selectedDocumentInfo, password, errorMessage,
                   openPickerAfterPermission, entered, describes, display, lasting>>

LoadingAfterFailure == FALSE

DecodeFails(i) ==
    /\ errorMessage' = TRUE
    /\ loading' = LoadingAfterFailure
    /\ decodes' = RemoveAt(decodes, i)
    /\ hasty' = HastyAfterEnd
    /\ UNCHANGED <<screen, selectedUri, selectedDocumentInfo, password, book,
                   openPickerAfterPermission, entered, describes, display, lasting>>

DecodeEnds == \E i \in DOMAIN decodes : Decoded(i) \/ DecodeFails(i)

HomeScreen == IF book = None THEN "Import" ELSE "Reader"

Home ==
    /\ Event
    /\ frame.screen = "About"
    /\ screen' = HomeScreen
    /\ UNCHANGED <<selectedUri, selectedDocumentInfo, password, loading, errorMessage,
                   book, openPickerAfterPermission, entered, coroutines, lasting,
                   hasty>>

About ==
    /\ Event
    /\ frame.screen # "About"
    /\ screen' = "About"
    /\ UNCHANGED <<selectedUri, selectedDocumentInfo, password, loading, errorMessage,
                   book, openPickerAfterPermission, entered, coroutines, lasting,
                   hasty>>

\* onLock.
Lock ==
    /\ Event
    /\ frame.screen = "Reader" /\ frame.opened
    /\ book' = None
    /\ selectedUri' = None
    /\ selectedDocumentInfo' = None
    /\ password' = FALSE
    /\ errorMessage' = FALSE
    /\ screen' = "Import"
    /\ hasty' = (hasty /\ decodes # <<>>)
    /\ UNCHANGED <<loading, openPickerAfterPermission, entered, coroutines, lasting>>

RequestedAfterRecreate == initialAccessFlowRequested

\* Android destroys the activity and composes it again: what was remembered
\* is lost, the scope is cancelled, and the dialogs answer the new activity.
Recreate ==
    /\ screen' = "Import"
    /\ selectedUri' = None
    /\ selectedDocumentInfo' = None
    /\ password' = FALSE
    /\ loading' = FALSE
    /\ errorMessage' = FALSE
    /\ book' = None
    /\ openPickerAfterPermission' = FALSE
    /\ entered' = FALSE
    /\ frame' = FirstFrame
    /\ stale' = 0
    /\ describes' = {}
    /\ decodes' = <<>>
    /\ hasty' = FALSE
    /\ initialAccessFlowRequested' = RequestedAfterRecreate
    /\ UNCHANGED <<permissionDialogs, pickers, autoPickers, prompts>>

AppStart ==
    /\ screen = "Import"
    /\ selectedUri = None
    /\ selectedDocumentInfo = None
    /\ password = FALSE
    /\ loading = FALSE
    /\ errorMessage = FALSE
    /\ book = None
    /\ openPickerAfterPermission = FALSE
    /\ entered = FALSE
    /\ frame = FirstFrame
    /\ stale = 0
    /\ describes = {}
    /\ decodes = <<>>
    /\ hasty = FALSE
    /\ initialAccessFlowRequested = FALSE
    /\ permissionDialogs = 0
    /\ pickers = 0
    /\ autoPickers = 0
    /\ prompts = 0

User == Select \/ (\E typed \in BOOLEAN : PasswordChanged(typed)) \/ Open \/ Home
        \/ About \/ Lock

Dialogs == PermissionResult \/ \E uri \in Documents \cup {None} : OpenDocumentResult(uri)

Effects == InitialAccess \/ PickAfterPermission

Coroutines == DecodeEnds \/ \E uri \in Documents : Described(uri)

AppNext == User \/ Dialogs \/ Effects \/ Coroutines \/ Recompose \/ Recreate

\* A decode ends or is cancelled; nothing makes the user tap.
AppSpec == AppStart /\ [][AppNext]_app_vars /\ WF_app_vars(DecodeEnds)

-----------------------------------------------------------------------------
\* Every variable has its type.
AppTypeOK ==
    /\ screen \in Screens
    /\ selectedUri \in Documents \cup {None}
    /\ selectedDocumentInfo \in Documents \cup {None}
    /\ book \in Documents \cup {None}
    /\ password \in BOOLEAN /\ loading \in BOOLEAN /\ errorMessage \in BOOLEAN
    /\ openPickerAfterPermission \in BOOLEAN /\ entered \in BOOLEAN
    /\ initialAccessFlowRequested \in BOOLEAN /\ hasty \in BOOLEAN
    /\ frame \in [screen : Screens, connected : BOOLEAN, typed : BOOLEAN,
                  loading : BOOLEAN, opened : BOOLEAN]
    /\ stale \in 0 .. MaxStale
    /\ describes \subseteq Documents
    /\ decodes \in Seq(Documents)
    /\ permissionDialogs \in Nat /\ pickers \in Nat
    /\ autoPickers \in Nat /\ prompts \in Nat

\* The document card never shows the name and size of another document than
\* the selected one, though descriptions arrive late and in any order.
InfoOfSelection == selectedDocumentInfo \in {None, selectedUri}

\* The reader always has a book to show, and the import screen never hides an
\* open one, whichever screen the user was on when the book was decoded.
ScreenShowsBook ==
    /\ screen = "Reader" => book # None
    /\ screen = "Import" => book = None

\* One recovery at a time: the busy state means exactly one is running, and
\* none runs while a book is open, so a locked book cannot come back by
\* itself.  However many taps reach the button before the next frame, they do
\* not start two; only a key typed into the field before that frame, which a
\* tap then follows, can (onOpen, onPasswordChanged).
OneDecode ==
    /\ loading => decodes # <<>>
    /\ ~hasty => Len(decodes) = (IF loading THEN 1 ELSE 0) /\ (loading => book = None)

\* The initial flow does not loop: however often the activity is recreated,
\* the permission is asked for once and the picker opens by itself once.
FlowDoesNotLoop == prompts <= 1 /\ autoPickers <= 1

\* The app does not stay busy.
BusyEnds == loading ~> ~loading
=============================================================================

------------------------------- MODULE Scenes -------------------------------
(***************************************************************************)
(* The scenes of a storyboard, their edits and the images that a service    *)
(* draws for them (pkg/story/storyboard.go, models/storyboard.go).  A scene *)
(* is saved as the row that was read before the images were drawn: every    *)
(* column of it that is not zero, unless the scene was hidden meanwhile.    *)
(***************************************************************************)
EXTENDS Requests

CONSTANT SceneIds   \* the ids of the scenes of one board

ASSUME ScenesAssumption == SceneIds \subseteq Nat \ {0}

VARIABLES
    scene,    \* the story_board_sence rows
    edited,   \* the prompt that the last edit of each scene gave it
    crossed   \* scenes whose last edit was saved while a rendering held the row

scenes == <<scene, edited, crossed>>

-----------------------------------------------------------------------------
\* prompt stands for the content and the prompts of a scene, images for what was
\* drawn: versions, 0 when empty, and images have the version of their prompt.
\* status is 0 before the row is inserted and -1 when the scene is hidden.
NoScene == [prompt |-> 0, images |-> 0, status |-> 0]

ScenesInit ==
    /\ scene = [i \in SceneIds |-> NoScene]
    /\ edited = [i \in SceneIds |-> 0]
    /\ crossed = {}

\* Mutant of Shown: the UPDATE does not ask for a scene that is not hidden.
ShownOrHidden(i) == scene[i].status # 0

Shown(i) == scene[i].status > 0

Draws(w) == worker[w].op # "UpdateStoryBoardSence"

\* Mutant of Or: Save, which writes zero values too.
WritesZeros(new, old) == new

\* Updates(struct) leaves a column as it is when the value to write is zero.
Or(new, old) == IF new = 0 THEN old ELSE new

\* models.UpdateStoryBoardScene
UpdateStoryBoardScene(i, image) ==
    scene' = IF Shown(i)
             THEN [scene EXCEPT ![i] = [prompt |-> Or(image.prompt, @.prompt),
                                        images |-> Or(image.images, @.images),
                                        status |-> Or(image.status, @.status)]]
             ELSE scene

-----------------------------------------------------------------------------
CreateStoryBoardScene(i) ==
    /\ scene[i] = NoScene
    /\ Serves
    /\ scene' = [scene EXCEPT ![i] = [prompt |-> served + 1, images |-> 0, status |-> 1]]
    /\ edited' = [edited EXCEPT ![i] = served + 1]
    /\ UNCHANGED crossed

\* An edit names the prompt, the images and the status, or leaves them empty.
UpdateStoryBoardSence(w, u, i, edit) ==
    /\ Shown(i)
    /\ Begins(w, u, "UpdateStoryBoardSence", None, "SaveScene", [j \in {i} |-> edit])
    /\ UNCHANGED scenes

\* The UPDATE names a column "status = ?", which no table has: it fails.
DeleteStoryBoardSence ==
    /\ \E i \in SceneIds : Shown(i)
    /\ Serves
    /\ UNCHANGED scenes

\* One scene, or all that the board shows.
RenderStoryBoardSences(w, u, chosen) ==
    /\ chosen # {} /\ \A i \in chosen : Shown(i)
    /\ Begins(w, u, "RenderStoryBoardSences", None, "DrawImages",
              [i \in chosen |-> scene[i]])
    /\ UNCHANGED scenes

RenderStoryBoardSence(w, u, i) ==
    /\ Shown(i)
    /\ Begins(w, u, "RenderStoryBoardSence", None, "MarkScene",
              [j \in {i} |-> scene[j]])
    /\ UNCHANGED scenes

\* Scenes are drawn one after the other; a failure leaves the rest as it was.
NextScene(w) ==
    CHOOSE i \in DOMAIN worker[w].got : \A j \in DOMAIN worker[w].got : i <= j

\* The row is saved before the images are drawn as well; errors are ignored.
MarkScene(w) ==
    LET i == NextScene(w)
    IN  /\ worker[w].pc = "MarkScene"
        /\ \/ Goes(w, "DrawImages") /\ UpdateStoryBoardScene(i, worker[w].got[i])
           \/ Logs(w, "DrawImages") /\ UNCHANGED scene
        /\ UNCHANGED <<edited, crossed>>

DrawImages(w) ==
    LET i == NextScene(w)
        drawn == [worker[w].got[i] EXCEPT !.images = worker[w].got[i].prompt]
    IN  /\ worker[w].pc = "DrawImages"
        /\ GoesWith(w, "SaveScene", [worker[w].got EXCEPT ![i] = drawn])
        /\ UNCHANGED scenes

\* Another request drew the scene and holds the row it read.
HeldByRender(w, i) ==
    \E v \in Busy \ {w} : Draws(v) /\ i \in DOMAIN worker[v].got

SaveScene(w) ==
    LET i == NextScene(w)
        image == worker[w].got[i]
        rest == [j \in DOMAIN worker[w].got \ {i} |-> worker[w].got[j]]
    IN  /\ worker[w].pc = "SaveScene"
        /\ UpdateStoryBoardScene(i, image)
        /\ IF Shown(i) /\ ~ Draws(w) /\ image.prompt # 0
           THEN /\ edited' = [edited EXCEPT ![i] = image.prompt]
                /\ crossed' = IF HeldByRender(w, i) THEN crossed \cup {i}
                              ELSE crossed \ {i}
           ELSE UNCHANGED <<edited, crossed>>
        /\ GoesWith(w, IF DOMAIN rest = {} THEN "idle" ELSE "DrawImages", rest)

-----------------------------------------------------------------------------
ScenesStep(w) ==
    \/ MarkScene(w) \/ DrawImages(w) \/ SaveScene(w)
    \/ CutOff(w) /\ UNCHANGED scenes

ScenesNext ==
    \/ \E w \in Workers : ScenesStep(w)
    \/ \E i \in SceneIds : CreateStoryBoardScene(i)
    \/ DeleteStoryBoardSence
    \/ \E w \in Workers, u \in Users, i \in SceneIds :
          \/ \E edit \in [prompt : {0, served + 1}, images : {0, scene[i].images},
                          status : {-1, 0, 1}] :
                UpdateStoryBoardSence(w, u, i, edit)
          \/ RenderStoryBoardSence(w, u, i)
    \/ \E w \in Workers, u \in Users :
          RenderStoryBoardSences(w, u, {i \in SceneIds : Shown(i)})

ScenesSpec == RequestsInit /\ ScenesInit /\ [][ScenesNext]_<<requestVars, scenes>>

-----------------------------------------------------------------------------
(* Properties.                                                             *)

SceneRows == [prompt : Nat, images : Nat, status : {-1, 0, 1}]

ScenesTypeOK ==
    /\ scene \in [SceneIds -> SceneRows]
    /\ edited \in [SceneIds -> Nat]
    /\ crossed \subseteq SceneIds

\* A scene that was hidden keeps its row as it was then: no edit that was under
\* way, and no image that is drawn later, shows it again.
HiddenStaysHidden ==
    [][\A i \in SceneIds : scene[i].status = -1 => scene'[i] = scene[i]]_scenes

\* The prompt of a scene is the one its last edit gave it, unless that edit was
\* saved while a rendering held the row it read before the image service was
\* called: only then may an older prompt come back.
EditKeptUnlessCrossed ==
    \A i \in SceneIds \ crossed : scene[i].prompt = edited[i]
=============================================================================

\* Two runs at a time on one template, one of them perhaps lost.
SPECIFICATION Spec
CONSTANTS
    TemplateId = {1}
    MaxMail = 3
    MaxBody = 1
    Variations = 1
    Worker = {w1, w2}
    MayCrash = TRUE
SYMMETRY Symmetry
VIEW Present
INVARIANTS
    TypeOK
    BoundedMails
    NoOrphans

SPECIFICATION Spec
CONSTANTS
    MaxEdits = 3
    Broken = {1, 3}
    Themes <- FewThemes
    Custom = "learnexis"
    Options <- SomeOptions
    Layouts <- BodyThemes
    None = None
INVARIANTS BundleIsCurrent PageHasItsTheme

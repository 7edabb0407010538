SPECIFICATION FairSpec
CONSTANTS
    Messages = {m1, m2}
    Menus = {d1}
    Texts <- FewTexts
    Students = {s1}
    Threads = {r1, r2}
    Markups <- BothMarkups
    MaxPages = 2
    m1 = m1
    m2 = m2
    d1 = d1
    s1 = s1
    r1 = r1
    r2 = r2
    None = None
INVARIANTS TypeOK LeftStaysGone NoListenerLeaks SavedMeansSaved
PROPERTIES SearchesLatest FlashGoesAway
